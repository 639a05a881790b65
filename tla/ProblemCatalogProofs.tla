------------------------ MODULE ProblemCatalogProofs ------------------------
(***************************************************************************)
(* The problem catalog, for any number of processes, problems, starts,     *)
(* publications and faults: the ledger never goes back, what it binds can  *)
(* be rebuilt, a process serves what it published, and a reservation is    *)
(* for the head of the ledger and for a revision that its process serves.  *)
(***************************************************************************)
EXTENDS ProblemCatalog, TLAPS

\* The provers for the leaves that name none, and their time limits.
USE ZenonT(4), SMTT(30)

-----------------------------------------------------------------------------
(***************************************************************************)
(* The inductive invariant: of the database, of each publisher and of each *)
(* start.                                                                  *)
(***************************************************************************)
PubStates == {"down", "idle", "snapshot", "prepare", "capture", "recapture", "ensure", "gate"} \cup Gated
PubType == [pc : PubStates, mode : {"empty", "legacy", "adopt", "sync"}, content : Contents,
            expected : Nat, tries : Nat]
TxType == [kind : {"none", "publish", "bind"}, content : Contents, expected : Nat, by : Procs \cup {"none"}]
EntryType == [content : Contents, schema : {1, 2}, by : Procs \cup {"none"}]
StartType == [pc : {"idle", "gate"} \cup InGate, gen : Nat, ref : Revisions \cup {"none"}]
Reasons == {"no", "heads", "commit", "artifact"}

Types ==
    /\ ledger \in Seq(EntryType)
    /\ bound \subseteq Revisions /\ cas \subseteq Revisions /\ lost \subseteq Revisions
    /\ checkout \in Contents /\ lock \in Procs \cup {"none", "orphan"} /\ orphan \in TxType
    /\ shared \subseteq Threads /\ active \in [Procs -> Nat] /\ poisoned \in [Procs -> Reasons]
    /\ pub \in [Procs -> PubType] /\ start \in [Threads -> StartType]

\* The exclusive lock keeps reservations out, and a COMMIT without an answer
\* keeps it: nobody else writes the ledger until its session ends.
LockInv ==
    /\ lock # "none" => shared = {}
    /\ lock # "orphan" => orphan = NoTx
    /\ lock = "orphan" =>
          /\ orphan.kind \in {"publish", "bind"} /\ orphan.by \in Procs /\ orphan.expected = HeadGen
          /\ orphan.content \subseteq cas \cup lost
          /\ orphan.kind = "publish" => ~Published(orphan.content)

LedgerInv ==
    /\ NeverRolledBack
    /\ PublishedIsRecoverable
    /\ \A g \in 1..HeadGen : ledger[g].schema = 2 => ledger[g].content \subseteq bound

Writing == {"decide", "publish", "bind"}
Reconciling == {"reconcile", "reconcilebind"}
Ensured == {"gate", "lease", "decide", "publish", "bind", "reconcile", "reconcilebind"}

\* The process serves a bound publication, and the newest one that it made.
Serves(p) ==
    /\ ledger[active[p]].content \subseteq bound
    /\ \A g \in active[p] + 1..HeadGen : ledger[g].by # p
    /\ orphan.by # p

\* What a publisher established in the statements before the one that it is at.
Established(p) ==
    LET r == pub[p] IN
    /\ r.pc = "prepare" => r.mode = "adopt"
    /\ r.pc \in {"capture", "recapture", "ensure"} => r.mode # "adopt"
    /\ r.pc \in Writing => lock = p
    /\ r.pc \in Ensured => r.content \subseteq cas \cup lost
    /\ r.pc = "publish" => r.expected = HeadGen /\ ~Published(r.content)
    /\ r.pc = "bind" => r.expected = HeadGen
    /\ r.pc = "reconcile" => r.expected <= HeadGen
                             /\ \A g \in r.expected + 1..HeadGen : ledger[g].schema = 2
    /\ r.pc \in {"bind", "reconcilebind"} =>
          r.expected \in 1..HeadGen /\ ledger[r.expected].content = r.content
    /\ r.mode = "empty" /\ r.pc \in {"capture", "recapture", "ensure", "gate", "lease", "decide"} =>
          r.expected = 0
    /\ r.mode = "legacy" /\ r.pc \in {"capture", "recapture", "ensure", "gate", "lease", "decide"} =>
          r.expected \in 1..HeadGen
    /\ r.mode = "legacy" /\ r.pc \in {"gate", "lease", "decide"} => ledger[r.expected].content = r.content
    /\ r.mode = "adopt" /\ r.pc \in {"prepare", "gate", "lease", "decide"} =>
          r.expected \in 1..HeadGen /\ ledger[r.expected].content \subseteq bound

\* What a process serves while it starts up, synchronizes and rests.
Serving(p) ==
    LET r == pub[p] IN
    /\ r.pc = "idle" => r.mode = "sync"
    /\ r.pc \in {"down", "snapshot"} => r.mode = "empty"
    /\ r.mode = "sync" => active[p] \in 1..HeadGen
    /\ r.mode # "sync" => active[p] = 0
    /\ r.mode = "sync" /\ poisoned[p] = "no" /\ r.pc \notin Reconciling => Serves(p)
    /\ r.mode = "sync" /\ poisoned[p] = "no" /\ r.pc \in {"publish", "bind"} \cup Reconciling =>
          active[p] = r.expected /\ ledger[r.expected].content \subseteq bound

PubInv == \A p \in Procs : Established(p) /\ Serving(p)

\* A start past its lookup holds a revision that a publication, and the one
\* that its process serves, have in common, and that is bound.
Selected(r, p) ==
    /\ r.gen \in 1..HeadGen /\ r.ref \in ledger[r.gen].content
    /\ r.ref \in ledger[active[p]].content /\ r.ref \in bound

\* No publisher of the process can change what it serves until the start has
\* left the gate.
StartInv ==
    \A t \in Threads :
        LET r == start[t] IN
        /\ r.pc # "idle" => active[t[1]] # 0
        /\ r.pc \in {"validate", "reserve", "commit"} => Selected(r, t[1])
        /\ r.pc = "commit" => t \in shared /\ r.gen = HeadGen
        /\ r.pc \in InGate => pub[t[1]].pc \notin Gated

CatalogInv == Types /\ LockInv /\ LedgerInv /\ PubInv /\ StartInv
-----------------------------------------------------------------------------
(***************************************************************************)
(* What a step leaves as it was.                                           *)
(***************************************************************************)
LEMMA Names == \A p \in Procs : p # "none" /\ p # "orphan"
  BY CatalogBounds

LEMMA HeadNat == Types => HeadGen \in Nat
  BY DEF Types, HeadGen

LEMMA Constants == First \in Contents /\ Down \in PubType /\ Idle \in PubType /\ NoTx \in TxType /\ NoStart \in StartType
  <1>1. First \in Contents
    BY CatalogBounds DEF First
  <1>2. Down \in PubType
    BY <1>1 DEF Down, PubType, PubStates
  <1>3. PICK x : x = [Down EXCEPT !.pc = "idle"]
    OBVIOUS
  <1>4. Idle \in PubType
    <2>1. x \in PubType
      BY <1>2, <1>3 DEF PubType, PubStates
    <2>2. Idle = [x EXCEPT !.mode = "sync"]
      BY <1>3 DEF Idle
    <2>3. QED
      BY <2>1, <2>2 DEF PubType
  <1>5. NoTx \in TxType /\ NoStart \in StartType
    BY <1>1 DEF NoTx, TxType, NoStart, StartType
  <1>6. QED
    BY <1>1, <1>2, <1>4, <1>5

LEMMA RestFields == /\ Down.pc = "down" /\ Down.mode = "empty" /\ Idle.pc = "idle" /\ Idle.mode = "sync"
                    /\ NoTx.by = "none" /\ NoStart.pc = "idle"
  BY DEF Down, Idle, NoTx, NoStart

\* The ledger stays or gets one more publication.
Grows ==
    /\ ledger' \in Seq(EntryType) /\ HeadGen' \in Nat /\ HeadGen <= HeadGen'
    /\ \A g \in 1..HeadGen : ledger'[g] = ledger[g]
    /\ \A g \in HeadGen + 1..HeadGen' : ledger'[g].schema = 2

LEMMA SameGrows == Types /\ ledger' = ledger => Grows /\ HeadGen' = HeadGen
  <1> SUFFICES ASSUME Types, ledger' = ledger PROVE Grows /\ HeadGen' = HeadGen
    OBVIOUS
  <1>1. HeadGen' = HeadGen
    BY DEF HeadGen
  <1>2. HeadGen \in Nat
    BY HeadNat
  <1>3. \A g \in HeadGen + 1..HeadGen : FALSE
    BY <1>2
  <1>4. QED
    BY <1>1, <1>2, <1>3 DEF Grows, Types

LEMMA AppendGrows ==
    ASSUME Types, NEW x \in EntryType, x.schema = 2, ledger' = Append(ledger, x)
    PROVE  Grows /\ HeadGen' = HeadGen + 1 /\ ledger'[HeadGen + 1] = x
  <1>1. ledger \in Seq(EntryType) /\ Len(ledger) \in Nat
    BY DEF Types
  <1>2. /\ Len(ledger') = Len(ledger) + 1 /\ ledger' \in Seq(EntryType) /\ ledger'[Len(ledger) + 1] = x
        /\ \A g \in 1..Len(ledger) : ledger'[g] = ledger[g]
    BY <1>1, SMTT(30)
  <1>3. \A g \in Len(ledger) + 1..Len(ledger) + 1 : g = Len(ledger) + 1
    BY <1>1
  <1>4. QED
    BY <1>1, <1>2, <1>3 DEF Grows, HeadGen

\* A process that is not the one that steps.
LEMMA OthersKeep ==
    ASSUME CatalogInv, NEW q \in Procs, Grows, bound \subseteq bound', cas \cup lost \subseteq cas' \cup lost',
           pub'[q] = pub[q], active'[q] = active[q], poisoned'[q] = poisoned[q] \/ poisoned'[q] # "no",
           lock = q => lock' = q /\ ledger' = ledger,
           \A g \in HeadGen + 1..HeadGen' : ledger'[g].by = q => orphan.by = q,
           orphan'.by = q => orphan.by = q
    PROVE  Established(q)' /\ Serving(q)'
  <1>1. /\ Established(q) /\ Serving(q) /\ HeadGen \in Nat /\ HeadGen' \in Nat /\ HeadGen <= HeadGen'
        /\ pub[q] \in PubType /\ pub[q].expected \in Nat /\ active[q] \in Nat
    BY HeadNat DEF CatalogInv, PubInv, Grows, Types, PubType
  <1>2. \A g : g \in 1..HeadGen => g \in 1..HeadGen' /\ ledger'[g] = ledger[g]
    BY <1>1, SMTT(30) DEF Grows
  <1>3. \A n \in Nat : \A g : g \in n + 1..HeadGen' => g \in n + 1..HeadGen \/ g \in HeadGen + 1..HeadGen'
    BY <1>1
  <1>4. \A n \in Nat : \A g : g \in n + 1..HeadGen => g \in 1..HeadGen
    BY <1>1
  <1>5. Established(q)'
    <2>1. pub'[q].pc \in Writing => lock' = q /\ ledger' = ledger
      BY <1>1 DEF Established
    <2>2. pub'[q].pc = "publish" => /\ pub'[q].expected = HeadGen'
                                    /\ \A g \in 1..HeadGen' : ledger'[g].content # pub'[q].content
      BY <1>1, <2>1 DEF Established, Published, HeadGen, Writing
    <2>3. pub'[q].pc = "bind" => pub'[q].expected = HeadGen'
      BY <1>1, <2>1 DEF Established, HeadGen, Writing
    <2>4. pub'[q].pc = "reconcile" => pub'[q].expected <= HeadGen'
                 /\ \A g \in pub'[q].expected + 1..HeadGen' : ledger'[g].schema = 2
      <3>1. ASSUME pub[q].pc = "reconcile" PROVE pub[q].expected <= HeadGen'
        BY <1>1, <3>1 DEF Established
      <3>2. ASSUME pub[q].pc = "reconcile", NEW g \in pub[q].expected + 1..HeadGen' PROVE ledger'[g].schema = 2
        BY <1>1, <1>2, <1>3, <1>4, <3>2, SMTT(30) DEF Established, Grows
      <3>3. QED
        BY <3>1, <3>2
    <2>5. ASSUME pub[q].expected \in 1..HeadGen
          PROVE  pub[q].expected \in 1..HeadGen' /\ ledger'[pub[q].expected] = ledger[pub[q].expected]
      BY <1>2, <2>5
    <2>6. QED
      BY <1>1, <2>1, <2>2, <2>3, <2>4, <2>5, ZenonT(30) DEF Established, Published
  <1>6. Serving(q)'
    <2>1. Serves(q) /\ active[q] \in 1..HeadGen => Serves(q)'
      BY <1>1, <1>2, <1>3, <1>4 DEF Serves
    <2>2. ASSUME pub[q].mode = "sync", poisoned[q] = "no", pub[q].pc \in {"publish", "bind"} \cup Reconciling
          PROVE  active[q] = pub[q].expected /\ ledger'[pub[q].expected].content \subseteq bound'
      BY <1>1, <1>2, <2>2 DEF Serving
    <2>3. QED
      BY <1>1, <1>2, <2>1, <2>2 DEF Serving
  <1>7. QED
    BY <1>5, <1>6

\* What a publisher stored when ensureArtifacts does not return.
LEMMA SomeStored ==
    ASSUME CatalogInv, NEW p \in Procs, StoresSome(p) PROVE cas \subseteq cas' /\ cas' \subseteq Revisions
  <1>1. cas \subseteq Revisions /\ pub[p].content \in Contents
    BY DEF CatalogInv, Types, PubType
  <1>2. pub[p].content \subseteq Revisions
    BY <1>1, CatalogBounds
  <1>3. QED
    BY <1>1, <1>2 DEF StoresSome

LEMMA ThreadProc == \A t \in Threads : t[1] \in Procs
  BY DEF Threads

NoneAdmitted(p) == \A t \in Threads : t[1] = p => start[t].pc \notin InGate

LEMMA GatedAlone ==
    ASSUME CatalogInv, NEW p \in Procs, pub[p].pc \in Gated \/ Admitted(p) = {} PROVE NoneAdmitted(p)
  <1>1. CASE pub[p].pc \in Gated
    BY <1>1 DEF CatalogInv, StartInv, NoneAdmitted
  <1>2. CASE Admitted(p) = {}
    BY <1>2 DEF Admitted, NoneAdmitted
  <1>3. QED
    BY <1>1, <1>2

\* Starts that do not step.
LEMMA StartsKeep ==
    ASSUME CatalogInv, start' = start, shared' = shared, Grows, bound \subseteq bound', ledger' = ledger \/ shared = {},
           \A p \in Procs : \/ NoneAdmitted(p) /\ (active'[p] = active[p] \/ active'[p] # 0)
                            \/ active'[p] = active[p] /\ (pub'[p].pc \in Gated => pub[p].pc \in Gated)
    PROVE  StartInv'
  <1> SUFFICES ASSUME NEW t \in Threads
               PROVE  /\ start[t].pc # "idle" => active'[t[1]] # 0
                      /\ start[t].pc \in {"validate", "reserve", "commit"} => Selected(start[t], t[1])'
                      /\ start[t].pc = "commit" => t \in shared' /\ start[t].gen = HeadGen'
                      /\ start[t].pc \in InGate => pub'[t[1]].pc \notin Gated
    BY DEF StartInv
  <1>1. /\ start[t].pc # "idle" => active[t[1]] # 0
        /\ start[t].pc \in {"validate", "reserve", "commit"} => Selected(start[t], t[1])
        /\ start[t].pc = "commit" => t \in shared /\ start[t].gen = HeadGen
        /\ start[t].pc \in InGate => pub[t[1]].pc \notin Gated
    BY DEF CatalogInv, StartInv
  <1>2. t[1] \in Procs /\ Types
    BY ThreadProc DEF CatalogInv
  <1>3. active'[t[1]] = active[t[1]] \/ active'[t[1]] # 0
    BY <1>2
  <1>4. start[t].pc \in InGate => active'[t[1]] = active[t[1]] /\ (pub'[t[1]].pc \in Gated => pub[t[1]].pc \in Gated)
    BY <1>2 DEF NoneAdmitted
  <1>5. ASSUME start[t].pc \in {"validate", "reserve", "commit"}
        PROVE  Selected(start[t], t[1])'
    <2>1. active[t[1]] \in 1..HeadGen
      BY <1>1, <1>2, <1>5 DEF CatalogInv, PubInv, Serving
    <2>2. active'[t[1]] = active[t[1]]
      BY <1>4, <1>5 DEF InGate
    <2>3. Selected(start[t], t[1]) /\ 1..HeadGen \subseteq 1..HeadGen'
      BY <1>1, <1>2, <1>5, HeadNat DEF Grows
    <2>4. QED
      BY <2>1, <2>2, <2>3 DEF Selected, Grows
  <1>6. start[t].pc = "commit" => HeadGen' = HeadGen
    BY <1>1, <1>2, SameGrows
  <1>7. start[t].pc \in {"validate", "reserve", "commit"} => start[t].pc \in InGate
    BY DEF InGate
  <1>8. QED
    BY <1>1, <1>3, <1>4, <1>5, <1>6, <1>7

\* What a publisher does to the lock while it writes nothing.
LockMoves(p) == lock' = lock \/ lock' = Unlocked(p) \/ (LockFree /\ lock' = p)

\* A step of one publisher that writes neither the ledger nor the bindings.
LEMMA PubStep ==
    ASSUME CatalogInv, NEW p \in Procs, NEW r \in PubType, NEW a \in Nat,
           pub' = [pub EXCEPT ![p] = r], active' = [active EXCEPT ![p] = a],
           UNCHANGED <<ledger, bound, shared, start, orphan, lost, checkout>>, cas \subseteq cas', cas' \subseteq Revisions,
           poisoned' \in [Procs -> Reasons], \A q \in Procs : q # p => poisoned'[q] = poisoned[q],
           LockMoves(p), (NoneAdmitted(p) /\ a # 0) \/ (a = active[p] /\ (r.pc \in Gated => NoneAdmitted(p))),
           Established(p)', Serving(p)'
    PROVE  CatalogInv'
  <1>1. Types /\ LockInv /\ LedgerInv /\ HeadGen' = HeadGen /\ Grows
    BY SameGrows DEF CatalogInv
  <1>a. /\ lock' \in Procs \cup {"none", "orphan"} /\ \A q \in Procs : q # p /\ lock = q => lock' = q
        /\ lock' # "none" => shared = {}
        /\ lock' = "orphan" <=> lock = "orphan"
    BY <1>1, Names DEF Types, LockInv, LockMoves, Unlocked, LockFree
  <1>2. /\ pub'[p] = r /\ active'[p] = a
        /\ \A q \in Procs : q # p => pub'[q] = pub[q] /\ active'[q] = active[q]
    BY <1>1 DEF Types
  <1>3. Types'
    BY <1>1, <1>a DEF Types
  <1>4. LockInv'
    BY <1>1, <1>a DEF LockInv, Published
  <1>5. LedgerInv'
    BY <1>1 DEF LedgerInv, NeverRolledBack, PublishedIsRecoverable
  <1>6. ASSUME NEW q \in Procs, q # p PROVE Established(q)' /\ Serving(q)'
    <2>1. \A g \in HeadGen + 1..HeadGen' : FALSE
      BY <1>1, HeadNat
    <2>2. QED
      BY <1>1, <1>a, <1>2, <1>6, <2>1, OthersKeep
  <1>7. StartInv'
    <2>1. \A q \in Procs : \/ NoneAdmitted(q) /\ (active'[q] = active[q] \/ active'[q] # 0)
                           \/ active'[q] = active[q] /\ (pub'[q].pc \in Gated => pub[q].pc \in Gated)
      BY <1>2
    <2>2. QED
      BY <1>1, <2>1, StartsKeep
  <1>8. QED
    BY <1>3, <1>4, <1>5, <1>6, <1>7 DEF CatalogInv, PubInv

\* A step of one start.
LEMMA StartStepKeeps ==
    ASSUME CatalogInv, NEW t \in Threads, NEW r \in StartType, start' = [start EXCEPT ![t] = r],
           UNCHANGED <<ledger, bound, cas, checkout, lock, orphan, active, pub, lost>>,
           poisoned' \in [Procs -> Reasons], \A q \in Procs : poisoned'[q] = poisoned[q] \/ poisoned'[q] # "no",
           shared' \subseteq Threads, \A u \in shared : u # t => u \in shared', lock # "none" => shared' = {},
           r.pc # "idle" => active[t[1]] # 0,
           r.pc \in {"validate", "reserve", "commit"} => Selected(r, t[1]),
           r.pc = "commit" => t \in shared' /\ r.gen = HeadGen,
           r.pc \in InGate => pub[t[1]].pc \notin Gated
    PROVE  CatalogInv'
  <1>1. Types /\ LockInv /\ LedgerInv /\ HeadGen' = HeadGen /\ Grows
    BY SameGrows DEF CatalogInv
  <1>2. start'[t] = r /\ \A u \in Threads : u # t => start'[u] = start[u]
    BY <1>1 DEF Types
  <1>3. Types'
    BY <1>1 DEF Types
  <1>4. LockInv'
    BY <1>1 DEF LockInv, Published
  <1>5. LedgerInv'
    BY <1>1 DEF LedgerInv, NeverRolledBack, PublishedIsRecoverable
  <1>6. ASSUME NEW q \in Procs PROVE Established(q)' /\ Serving(q)'
    <2>1. \A g \in HeadGen + 1..HeadGen' : FALSE
      BY <1>1, HeadNat, SMTT(30)
    <2>2. QED
      BY <1>1, <1>6, <2>1, OthersKeep
  <1>7. StartInv'
    <2>1. \A u \in Threads : start[u].pc = "commit" => u \in shared
      BY DEF CatalogInv, StartInv
    <2>2. \A u \in Threads : start[u].pc \in {"validate", "reserve", "commit"} /\ u # t => Selected(start[u], u[1])'
      BY <1>1, <1>2 DEF CatalogInv, StartInv, Selected
    <2>3. r.pc \in {"validate", "reserve", "commit"} => Selected(start[t], t[1])'
      BY <1>1, <1>2 DEF Selected
    <2>4. QED
      BY <1>1, <1>2, <2>1, <2>2, <2>3, SMTT(30) DEF CatalogInv, StartInv
  <1>8. QED
    BY <1>3, <1>4, <1>5, <1>6, <1>7 DEF CatalogInv, PubInv

LEMMA CatalogInit == Init => CatalogInv
  <1> SUFFICES ASSUME Init PROVE CatalogInv
    OBVIOUS
  <1>1. ledger \in Seq(EntryType) /\ HeadGen \in {0, 1} /\ (HeadGen = 1 => ledger[1].schema = 1)
    <2>1. CASE ledger = <<>>
      BY <2>1 DEF HeadGen
    <2>2. CASE ledger = <<[content |-> First, schema |-> 1, by |-> "none"]>>
      <3>1. PICK e : e = [content |-> First, schema |-> 1, by |-> "none"]
        OBVIOUS
      <3>2. e \in EntryType /\ e.schema = 1
        BY <3>1, Constants DEF EntryType
      <3>3. QED
        BY <2>2, <3>1, <3>2 DEF HeadGen
    <2>3. QED
      BY <2>1, <2>2 DEF Init
  <1>2. Types
    BY <1>1, Constants DEF Init, Types, Reasons
  <1>3. /\ \A p \in Procs : pub[p].pc = "down" /\ pub[p].mode = "empty" /\ active[p] = 0
        /\ \A t \in Threads : start[t].pc = "idle"
    BY RestFields DEF Init
  <1>4. LockInv
    BY DEF Init, LockInv
  <1>5. LedgerInv
    <2>1. \A g \in 1..HeadGen : g = 1 /\ HeadGen = 1
      BY <1>1
    <2>2. QED
      BY <1>1, <2>1 DEF LedgerInv, NeverRolledBack, PublishedIsRecoverable, Init
  <1>6. PubInv
    BY <1>3 DEF PubInv, Established, Serving, Writing, Ensured
  <1>7. StartInv
    BY <1>3 DEF StartInv, InGate
  <1>8. QED
    BY <1>2, <1>4, <1>5, <1>6, <1>7 DEF CatalogInv
-----------------------------------------------------------------------------
(***************************************************************************)
(* The steps of a publisher before its transaction.                        *)
(***************************************************************************)
\* A publisher comes to rest.
LEMMA RestKeeps ==
    ASSUME CatalogInv, NEW p \in Procs, NEW ok, NEW a \in Nat, pub' = Returned(p, ok),
           active' = [active EXCEPT ![p] = a],
           UNCHANGED <<ledger, bound, shared, start, orphan, lost, checkout>>, cas \subseteq cas', cas' \subseteq Revisions,
           poisoned' \in [Procs -> Reasons], \A q \in Procs : q # p => poisoned'[q] = poisoned[q],
           LockMoves(p), (NoneAdmitted(p) /\ a # 0) \/ a = active[p],
           ~(ok \/ pub[p].mode = "sync") => a = active[p],
           ok \/ pub[p].mode = "sync" =>
               /\ a \in 1..HeadGen
               /\ poisoned'[p] = "no" => /\ ledger[a].content \subseteq bound
                                         /\ \A g \in a + 1..HeadGen : ledger[g].by # p
                                         /\ orphan.by # p
    PROVE  CatalogInv'
  <1>1. Types /\ HeadGen' = HeadGen /\ Serving(p)
    BY SameGrows DEF CatalogInv, PubInv
  <1>2. PICK r : r = IF ok \/ pub[p].mode = "sync" THEN Idle ELSE Down
    OBVIOUS
  <1>3. pub' = [pub EXCEPT ![p] = r] /\ r \in PubType
    BY <1>2, Constants DEF Returned
  <1>4. pub'[p] = r /\ active'[p] = a
    BY <1>1, <1>3 DEF Types
  <1>5. r.pc \in {"idle", "down"} /\ r.pc \notin Gated /\ (r.pc = "idle" <=> (ok \/ pub[p].mode = "sync"))
        /\ (r.pc = "idle" => r.mode = "sync") /\ (r.pc = "down" => r.mode = "empty")
    BY <1>2, RestFields DEF Gated
  <1>6. Established(p)'
    BY <1>4, <1>5 DEF Established, Writing, Ensured
  <1>7. Serving(p)'
    <2>1. CASE ok \/ pub[p].mode = "sync"
      <3>1. r.pc = "idle" /\ r.mode = "sync" /\ r.pc \notin {"publish", "bind"} \cup Reconciling
        BY <2>1, <1>5 DEF Reconciling
      <3>2. QED
        BY <1>1, <1>4, <2>1, <3>1, SMTT(30) DEF Serving, Serves
    <2>2. CASE ~(ok \/ pub[p].mode = "sync")
      BY <1>1, <1>4, <1>5, <2>2 DEF Serving
    <2>3. QED
      BY <2>1, <2>2
  <1>8. QED
    BY <1>3, <1>5, <1>6, <1>7, PubStep

\* An error, a refusal or a failed call outside the reconciliation.
LEMMA FailKeeps ==
    ASSUME CatalogInv, NEW p \in Procs, NEW ok \in BOOLEAN, pub[p].pc \notin Reconciling, ok => pub[p].mode = "sync",
           pub' = Returned(p, ok), UNCHANGED <<ledger, bound, shared, start, orphan, lost, checkout, active>>,
           cas \subseteq cas', cas' \subseteq Revisions, LockMoves(p),
           poisoned' \in [Procs -> Reasons], \A q \in Procs : q # p => poisoned'[q] = poisoned[q],
           poisoned'[p] = poisoned[p] \/ poisoned'[p] # "no"
    PROVE  CatalogInv'
  <1>1. active \in [Procs -> Nat] /\ Serving(p)
    BY DEF CatalogInv, Types, PubInv
  <1>2. PICK a : a = active[p]
    OBVIOUS
  <1>3. a \in Nat /\ active' = [active EXCEPT ![p] = a]
    BY <1>1, <1>2
  <1>4. ok \/ pub[p].mode = "sync" =>
            /\ a \in 1..HeadGen
            /\ poisoned'[p] = "no" => /\ ledger[a].content \subseteq bound
                                      /\ \A g \in a + 1..HeadGen : ledger[g].by # p
                                      /\ orphan.by # p
    BY <1>1, <1>2 DEF Serving, Serves
  <1>5. QED
    BY <1>2, <1>3, <1>4, RestKeeps

\* A publisher goes on to its next statement.
LEMMA StepKeeps ==
    ASSUME CatalogInv, NEW p \in Procs, NEW r \in PubType, pub' = [pub EXCEPT ![p] = r],
           UNCHANGED <<ledger, bound, shared, start, orphan, lost, checkout, active, poisoned>>,
           cas \subseteq cas', cas' \subseteq Revisions, LockMoves(p),
           pub[p].pc \notin Reconciling, r.pc \notin Reconciling \cup {"idle", "down"},
           r.pc = "snapshot" => r.mode = "empty", r.mode = "sync" <=> pub[p].mode = "sync",
           r.mode = "sync" /\ r.pc \in {"publish", "bind"} =>
               active[p] = r.expected /\ (poisoned[p] = "no" => ledger[r.expected].content \subseteq bound),
           r.pc \in Gated => NoneAdmitted(p), Established(p)'
    PROVE  CatalogInv'
  <1>1. Types /\ HeadGen' = HeadGen /\ Serving(p)
    BY SameGrows DEF CatalogInv, PubInv
  <1>2. PICK a : a = active[p]
    OBVIOUS
  <1>3. a \in Nat /\ active' = [active EXCEPT ![p] = a] /\ pub'[p] = r
    BY <1>1, <1>2 DEF Types
  <1>4. Serving(p)'
    BY <1>1, <1>3, SMTT(30) DEF Serving, Serves, Reconciling
  <1>5. poisoned' \in [Procs -> Reasons]
    BY <1>1 DEF Types
  <1>6. QED
    BY <1>2, <1>3, <1>4, <1>5, PubStep
\* What is known at a statement of a publisher.
LEMMA Known ==
    ASSUME CatalogInv, NEW p \in Procs
    PROVE  /\ Types /\ LockInv /\ LedgerInv /\ Established(p) /\ Serving(p) /\ HeadGen \in Nat
           /\ pub[p] \in PubType /\ pub[p].pc \in PubStates /\ pub[p].content \in Contents
           /\ pub[p].expected \in Nat /\ pub[p].tries \in Nat
           /\ poisoned \in [Procs -> Reasons] /\ active \in [Procs -> Nat] /\ active[p] \in Nat
  BY HeadNat DEF CatalogInv, PubInv, Types, PubType

LEMMA StepFrame ==
    ASSUME NEW p, NEW r, Step(p, r)
    PROVE  /\ pub' = [pub EXCEPT ![p] = r] /\ LockMoves(p)
           /\ UNCHANGED <<ledger, bound, lock, shared, start, orphan, lost, checkout, active, poisoned, cas>>
  BY DEF Step, LockMoves, dbVars, boundVars

LEMMA FailsKeeps == ASSUME CatalogInv, NEW p \in Procs, PublisherFails(p) PROVE CatalogInv'
  <1>1. /\ pub[p].pc \notin Reconciling /\ pub' = Returned(p, FALSE) /\ LockMoves(p) /\ StoresSome(p) /\ poisoned' = poisoned
        /\ UNCHANGED <<ledger, bound, shared, start, orphan, lost, checkout, active>>
    BY DEF PublisherFails, Reconciling, LockMoves
  <1>2. poisoned \in [Procs -> Reasons] /\ cas \subseteq cas' /\ cas' \subseteq Revisions
    BY <1>1, Known, SomeStored DEF Types
  <1>3. QED
    BY <1>1, <1>2, FailKeeps

\* An error or a success that leaves the catalog as it is.
LEMMA ReturnKeeps ==
    ASSUME CatalogInv, NEW p \in Procs, NEW ok \in BOOLEAN, ok => pub[p].mode = "sync",
           pub[p].pc \notin Reconciling, Return(p, ok)
    PROVE  CatalogInv'
  <1>1. /\ pub' = Returned(p, ok) /\ LockMoves(p) /\ cas' = cas /\ poisoned' = poisoned
        /\ UNCHANGED <<ledger, bound, shared, start, orphan, lost, checkout, active>>
    BY DEF Return, LockMoves
  <1>2. poisoned \in [Procs -> Reasons] /\ cas \subseteq Revisions
    BY Known DEF Types
  <1>3. QED
    BY <1>1, <1>2, FailKeeps

LEMMA PoisonTyped ==
    ASSUME CatalogInv, NEW p \in Procs, NEW why \in Reasons \ {"no"}, Poison(p, why)
    PROVE  /\ poisoned' \in [Procs -> Reasons] /\ poisoned'[p] # "no"
           /\ \A q \in Procs : q # p => poisoned'[q] = poisoned[q]
  <1>1. poisoned \in [Procs -> Reasons]
    BY DEF CatalogInv, Types
  <1>2. PICK v : v = IF poisoned[p] = "no" THEN why ELSE poisoned[p]
    OBVIOUS
  <1>3. v \in Reasons /\ v # "no" /\ poisoned' = [poisoned EXCEPT ![p] = v]
    BY <1>1, <1>2 DEF Poison
  <1>4. QED
    BY <1>1, <1>3

LEMMA BootKeeps == ASSUME CatalogInv, NEW p \in Procs, Boot(p) PROVE CatalogInv'
  <1>1. Types /\ Serving(p) /\ HeadGen' = HeadGen
    BY Known, SameGrows DEF Boot, dbVars
  <1>2. PICK r : r = [Down EXCEPT !.pc = "snapshot"]
    OBVIOUS
  <1>3. r \in PubType /\ r.pc = "snapshot" /\ r.mode = "empty"
    BY <1>2, Constants, RestFields DEF PubType, PubStates
  <1>4. /\ pub' = [pub EXCEPT ![p] = r] /\ active' = [active EXCEPT ![p] = 0] /\ 0 = active[p]
        /\ UNCHANGED <<ledger, bound, shared, start, orphan, lost, checkout, cas>> /\ LockMoves(p)
    BY <1>1, <1>2 DEF Boot, At, dbVars, boundVars, LockMoves, Serving
  <1>5. pub'[p] = r /\ active'[p] = 0
    BY <1>1, <1>4 DEF Types
  <1>6. poisoned' \in [Procs -> Reasons] /\ \A q \in Procs : q # p => poisoned'[q] = poisoned[q]
    BY <1>1 DEF Boot, Types, Reasons
  <1>7. Established(p)'
    BY <1>3, <1>5 DEF Established, Writing, Ensured
  <1>8. Serving(p)'
    BY <1>3, <1>5 DEF Serving
  <1>9. r.pc \notin Gated /\ cas \subseteq Revisions /\ 0 \in Nat
    BY <1>1, <1>3 DEF Gated, Types
  <1>10. QED
    BY <1>3, <1>4, <1>6, <1>7, <1>8, <1>9, PubStep

LEMMA SnapshotKeeps == ASSUME CatalogInv, NEW p \in Procs, ReadStartupSnapshot(p) PROVE CatalogInv'
  <1>1. Types /\ Established(p) /\ Serving(p) /\ HeadGen \in Nat /\ pub[p] \in PubType
    BY Known
  <1>2. pub[p].pc = "snapshot" /\ pub[p].mode = "empty"
    BY <1>1 DEF ReadStartupSnapshot, At, Serving
  <1>3. PICK pc, mode, expected :
           /\ Step(p, [pub[p] EXCEPT !.pc = pc, !.mode = mode, !.expected = expected])
           /\ expected = HeadGen
           /\ \/ HeadGen = 0 /\ pc = "capture" /\ mode = "empty"
              \/ HeadGen > 0 /\ pc = "capture" /\ mode = "legacy"
              \/ HeadGen > 0 /\ pc = "prepare" /\ mode = "adopt" /\ ledger[HeadGen].content \subseteq bound
    BY DEF ReadStartupSnapshot, Bound
  <1>4. PICK r : r = [pub[p] EXCEPT !.pc = pc, !.mode = mode, !.expected = expected]
    OBVIOUS
  <1>5. r \in PubType /\ r.pc = pc /\ r.mode = mode /\ r.expected = expected
    BY <1>1, <1>3, <1>4 DEF PubType, PubStates
  <1>6. /\ pub' = [pub EXCEPT ![p] = r] /\ LockMoves(p)
        /\ UNCHANGED <<ledger, bound, lock, shared, start, orphan, lost, checkout, active, poisoned, cas>>
    BY <1>3, <1>4, StepFrame
  <1>7. pub'[p] = r /\ HeadGen' = HeadGen /\ cas \subseteq Revisions
    BY <1>1, <1>6, SameGrows DEF Types
  <1>8. Established(p)'
    <2>1. HeadGen > 0 => expected \in 1..HeadGen
      BY <1>1, <1>3
    <2>2. r.pc \in {"capture", "prepare"} /\ r.pc \notin Writing \cup Ensured \cup Reconciling
      BY <1>3, <1>5 DEF Writing, Ensured, Reconciling
    <2>3. QED
      BY <1>3, <1>5, <1>6, <1>7, <2>1, <2>2, SMTT(30) DEF Established, Writing, Ensured
  <1>9. /\ pub[p].pc \notin Reconciling /\ r.pc \notin Reconciling \cup {"idle", "down"} /\ r.pc \notin Gated
        /\ r.pc # "snapshot" /\ r.mode # "sync" /\ pub[p].mode # "sync"
    BY <1>2, <1>3, <1>5 DEF Reconciling, Gated
  <1>10. QED
    BY <1>5, <1>6, <1>7, <1>8, <1>9, StepKeeps
LEMMA PrepareKeeps == ASSUME CatalogInv, NEW p \in Procs, CandidateFromEntries(p) PROVE CatalogInv'
  <1>1. Types /\ Established(p) /\ Serving(p) /\ HeadGen \in Nat /\ pub[p] \in PubType
    BY Known
  <1>2. PICK c : c = ledger[pub[p].expected].content
    OBVIOUS
  <1>3. /\ pub[p].pc = "prepare" /\ pub[p].mode = "adopt" /\ pub[p].expected \in 1..HeadGen /\ c \subseteq bound
        /\ pub[p].pc \notin Reconciling
    BY <1>1, <1>2 DEF CandidateFromEntries, At, Established, Reconciling
  <1>4. CASE Return(p, FALSE)
    BY <1>3, <1>4, ReturnKeeps
  <1>5. CASE ~Return(p, FALSE)
    <2>1. PICK r : r = [pub[p] EXCEPT !.pc = "gate", !.content = c]
      OBVIOUS
    <2>2. /\ c \subseteq cas /\ pub' = [pub EXCEPT ![p] = r] /\ LockMoves(p)
          /\ UNCHANGED <<ledger, bound, lock, shared, start, orphan, lost, checkout, active, poisoned, cas>>
      BY <1>1, <1>2, <1>5, <2>1 DEF CandidateFromEntries, dbVars, boundVars, LockMoves, Types
    <2>3. c \in Contents /\ cas \subseteq Revisions
      <3>1. ledger[pub[p].expected] \in EntryType
        BY <1>1, <1>3 DEF Types, HeadGen
      <3>2. QED
        BY <1>1, <1>2, <3>1 DEF Types, EntryType
    <2>4. r \in PubType /\ r.pc = "gate" /\ r.mode = pub[p].mode /\ r.expected = pub[p].expected /\ r.content = c
      BY <1>1, <2>1, <2>3 DEF PubType, PubStates
    <2>5. pub'[p] = r /\ HeadGen' = HeadGen
      BY <1>1, <2>2, SameGrows DEF Types
    <2>6. Established(p)'
      BY <1>2, <1>3, <2>2, <2>4, <2>5 DEF Established, Writing, Ensured
    <2>7. r.pc \notin Reconciling \cup {"idle", "down"} /\ r.pc \notin Gated /\ r.pc # "snapshot" /\ r.mode # "sync"
      BY <1>3, <2>4 DEF Reconciling, Gated
    <2>8. QED
      BY <1>3, <2>2, <2>3, <2>4, <2>6, <2>7, StepKeeps
  <1>6. QED
    BY <1>4, <1>5

LEMMA SyncKeeps == ASSUME CatalogInv, NEW p \in Procs, Sync(p) PROVE CatalogInv'
  <1>1. Types /\ Serving(p) /\ pub[p].pc = "idle" /\ pub[p].mode = "sync"
    BY Known DEF Sync, At, Serving
  <1>2. PICK r : r = [Idle EXCEPT !.pc = "capture"]
    OBVIOUS
  <1>3. r \in PubType /\ r.pc = "capture" /\ r.mode = "sync"
    BY <1>2, Constants, RestFields DEF PubType, PubStates
  <1>4. /\ pub' = [pub EXCEPT ![p] = r] /\ LockMoves(p)
        /\ UNCHANGED <<ledger, bound, lock, shared, start, orphan, lost, checkout, active, poisoned, cas>>
    BY <1>2, StepFrame DEF Sync
  <1>5. pub'[p] = r /\ cas \subseteq Revisions
    BY <1>1, <1>4 DEF Types
  <1>6. Established(p)'
    BY <1>3, <1>5 DEF Established, Writing, Ensured
  <1>7. pub[p].pc \notin Reconciling /\ r.pc \notin Reconciling \cup {"idle", "down"} /\ r.pc \notin Gated
    BY <1>1, <1>3 DEF Reconciling, Gated
  <1>8. QED
    BY <1>1, <1>3, <1>4, <1>5, <1>6, <1>7, StepKeeps

LEMMA CaptureKeeps == ASSUME CatalogInv, NEW p \in Procs, Capture(p) PROVE CatalogInv'
  <1>1. Types /\ Established(p) /\ pub[p].pc = "capture" /\ pub[p] \in PubType /\ checkout \in Contents
    BY Known DEF Capture, At, Types
  <1>2. PICK r : r = [pub[p] EXCEPT !.pc = "recapture", !.content = checkout]
    OBVIOUS
  <1>3. r \in PubType /\ r.pc = "recapture" /\ r.mode = pub[p].mode /\ r.expected = pub[p].expected
    BY <1>1, <1>2 DEF PubType, PubStates
  <1>4. /\ pub' = [pub EXCEPT ![p] = r] /\ LockMoves(p)
        /\ UNCHANGED <<ledger, bound, lock, shared, start, orphan, lost, checkout, active, poisoned, cas>>
    BY <1>2, StepFrame DEF Capture
  <1>5. pub'[p] = r /\ cas \subseteq Revisions /\ HeadGen' = HeadGen
    BY <1>1, <1>4, SameGrows DEF Types
  <1>6. Established(p)'
    BY <1>1, <1>3, <1>4, <1>5 DEF Established, Writing, Ensured
  <1>7. pub[p].pc \notin Reconciling /\ r.pc \notin Reconciling \cup {"idle", "down"} /\ r.pc \notin Gated
    BY <1>1, <1>3 DEF Reconciling, Gated
  <1>8. QED
    BY <1>3, <1>4, <1>5, <1>6, <1>7, StepKeeps

LEMMA RecaptureKeeps == ASSUME CatalogInv, NEW p \in Procs, Recapture(p) PROVE CatalogInv'
  <1>1. Types /\ Established(p) /\ pub[p].pc = "recapture" /\ pub[p] \in PubType /\ pub[p].pc \notin Reconciling
    BY Known DEF Recapture, At, Reconciling
  <1>2. PICK r : r = [pub[p] EXCEPT !.pc = "ensure"]
    OBVIOUS
  <1>3. CASE Return(p, FALSE)
    BY <1>1, <1>3, ReturnKeeps
  <1>4. CASE Step(p, r)
    <2>1. r \in PubType /\ r.pc = "ensure" /\ r.mode = pub[p].mode /\ r.expected = pub[p].expected
      BY <1>1, <1>2 DEF PubType, PubStates
    <2>2. /\ pub' = [pub EXCEPT ![p] = r] /\ LockMoves(p)
          /\ UNCHANGED <<ledger, bound, lock, shared, start, orphan, lost, checkout, active, poisoned, cas>>
      BY <1>4, StepFrame
    <2>3. pub'[p] = r /\ cas \subseteq Revisions /\ HeadGen' = HeadGen
      BY <1>1, <2>2, SameGrows DEF Types
    <2>4. Established(p)'
      BY <1>1, <2>1, <2>2, <2>3 DEF Established, Writing, Ensured
    <2>5. r.pc \notin Reconciling \cup {"idle", "down"} /\ r.pc \notin Gated
      BY <2>1 DEF Reconciling, Gated
    <2>6. QED
      BY <1>1, <2>1, <2>2, <2>3, <2>4, <2>5, StepKeeps
  <1>5. QED
    BY <1>2, <1>3, <1>4 DEF Recapture

LEMMA EnsureKeeps == ASSUME CatalogInv, NEW p \in Procs, EnsureArtifacts(p) PROVE CatalogInv'
  <1>1. Types /\ Established(p) /\ pub[p].pc = "ensure" /\ pub[p] \in PubType /\ pub[p].pc \notin Reconciling
    BY Known DEF EnsureArtifacts, At, Reconciling
  <1>2. /\ cas' = cas \cup pub[p].content /\ LockMoves(p)
        /\ UNCHANGED <<ledger, bound, lock, shared, start, orphan, lost, checkout, active, poisoned>>
    BY DEF EnsureArtifacts, dbVars, boundVars, LockMoves
  <1>3. cas \subseteq cas' /\ cas' \subseteq Revisions /\ poisoned \in [Procs -> Reasons]
    BY <1>1, <1>2, CatalogBounds DEF Types, PubType
  <1>4. CASE pub' = Returned(p, FALSE)
    BY <1>1, <1>2, <1>3, <1>4, FailKeeps
  <1>5. CASE pub' # Returned(p, FALSE)
    <2>1. PICK r : r = [pub[p] EXCEPT !.pc = "gate"]
      OBVIOUS
    <2>2. /\ r \in PubType /\ r.pc = "gate" /\ r.mode = pub[p].mode /\ r.expected = pub[p].expected
          /\ r.content = pub[p].content
      BY <1>1, <2>1 DEF PubType, PubStates
    <2>3. pub' = [pub EXCEPT ![p] = r] /\ (r.mode = "legacy" => ledger[r.expected].content = r.content)
      BY <1>1, <1>5, <2>1, <2>2 DEF EnsureArtifacts, Types
    <2>4. pub'[p] = r /\ HeadGen' = HeadGen
      BY <1>1, <1>2, <2>3, SameGrows DEF Types
    <2>5. Established(p)'
      BY <1>1, <1>2, <2>2, <2>3, <2>4, SMTT(30) DEF Established, Writing, Ensured
    <2>6. r.pc \notin Reconciling \cup {"idle", "down"} /\ r.pc \notin Gated
      BY <2>2 DEF Reconciling, Gated
    <2>7. QED
      BY <1>1, <1>2, <1>3, <2>2, <2>3, <2>5, <2>6, StepKeeps
  <1>6. QED
    BY <1>4, <1>5
LEMMA EnterKeeps == ASSUME CatalogInv, NEW p \in Procs, EnterGate(p) PROVE CatalogInv'
  <1>1. Types /\ Established(p) /\ pub[p].pc = "gate" /\ pub[p] \in PubType /\ NoneAdmitted(p)
    BY Known, GatedAlone DEF EnterGate, At
  <1>2. PICK r : r = [pub[p] EXCEPT !.pc = "lease"]
    OBVIOUS
  <1>3. /\ r \in PubType /\ r.pc = "lease" /\ r.mode = pub[p].mode /\ r.expected = pub[p].expected
        /\ r.content = pub[p].content
    BY <1>1, <1>2 DEF PubType, PubStates, Gated
  <1>4. /\ pub' = [pub EXCEPT ![p] = r] /\ LockMoves(p)
        /\ UNCHANGED <<ledger, bound, lock, shared, start, orphan, lost, checkout, active, poisoned, cas>>
    BY <1>1, <1>2 DEF EnterGate, dbVars, boundVars, LockMoves, Types
  <1>5. pub'[p] = r /\ HeadGen' = HeadGen /\ cas \subseteq Revisions
    BY <1>1, <1>4, SameGrows DEF Types
  <1>6. Established(p)'
    BY <1>1, <1>3, <1>4, <1>5 DEF Established, Writing, Ensured
  <1>7. pub[p].pc \notin Reconciling /\ r.pc \notin Reconciling \cup {"idle", "down"}
    BY <1>1, <1>3 DEF Reconciling
  <1>8. QED
    BY <1>1, <1>3, <1>4, <1>5, <1>6, <1>7, StepKeeps

LEMMA LeaseKeeps == ASSUME CatalogInv, NEW p \in Procs, AcquireLease(p) PROVE CatalogInv'
  <1>1. Types /\ Established(p) /\ pub[p].pc = "lease" /\ pub[p] \in PubType
    BY Known DEF AcquireLease, At
  <1>2. PICK r : r = [pub[p] EXCEPT !.pc = "decide"]
    OBVIOUS
  <1>3. /\ r \in PubType /\ r.pc = "decide" /\ r.mode = pub[p].mode /\ r.expected = pub[p].expected
        /\ r.content = pub[p].content
    BY <1>1, <1>2 DEF PubType, PubStates, Gated
  <1>4. /\ pub' = [pub EXCEPT ![p] = r] /\ LockMoves(p) /\ lock' = p
        /\ UNCHANGED <<ledger, bound, shared, start, orphan, lost, checkout, active, poisoned, cas>>
    BY <1>1, <1>2 DEF AcquireLease, boundVars, LockMoves, Types
  <1>5. pub'[p] = r /\ HeadGen' = HeadGen /\ cas \subseteq Revisions
    BY <1>1, <1>4, SameGrows DEF Types
  <1>6. Established(p)'
    BY <1>1, <1>3, <1>4, <1>5 DEF Established, Writing, Ensured
  <1>7. pub[p].pc \notin Reconciling /\ r.pc \notin Reconciling \cup {"idle", "down"} /\ pub[p].pc \in Gated
    BY <1>1, <1>3 DEF Reconciling, Gated
  <1>8. QED
    BY <1>3, <1>4, <1>5, <1>6, <1>7, StepKeeps, GatedAlone

LEMMA RetryKeeps ==
    ASSUME CatalogInv, NEW p \in Procs, pub[p].pc = "decide", pub[p].mode # "sync", Retry(p) PROVE CatalogInv'
  <1>1. Types /\ pub[p].tries \in Nat /\ pub[p].pc \notin Reconciling
    BY Known DEF Reconciling
  <1>2. CASE Return(p, FALSE)
    BY <1>1, <1>2, ReturnKeeps
  <1>3. CASE ~Return(p, FALSE)
    <2>0. PICK n \in Nat : n = pub[p].tries + 1
      BY <1>1
    <2>1. PICK x, r : x = [Down EXCEPT !.pc = "snapshot"] /\ r = [x EXCEPT !.tries = n]
      OBVIOUS
    <2>2. x \in PubType /\ x.pc = "snapshot" /\ x.mode = "empty"
      BY <2>1, Constants, RestFields DEF PubType, PubStates
    <2>3. r \in PubType /\ r.pc = "snapshot" /\ r.mode = "empty"
      BY <2>1, <2>2 DEF PubType
    <2>4. /\ pub' = [pub EXCEPT ![p] = r] /\ LockMoves(p)
          /\ UNCHANGED <<ledger, bound, shared, start, orphan, lost, checkout, active, poisoned, cas>>
      <3>1. r = [Down EXCEPT !.pc = "snapshot", !.tries = pub[p].tries + 1]
        BY <2>0, <2>1
      <3>2. QED
        BY <1>3, <3>1 DEF Retry, boundVars, LockMoves
    <2>5. pub'[p] = r /\ cas \subseteq Revisions
      BY <1>1, <2>4 DEF Types
    <2>6. Established(p)'
      BY <2>3, <2>5 DEF Established, Writing, Ensured
    <2>7. r.pc \notin Reconciling \cup {"idle", "down"} /\ r.pc \notin Gated /\ r.pc \notin {"publish", "bind"}
      BY <2>3 DEF Reconciling, Gated
    <2>8. QED
      BY <1>1, <2>3, <2>4, <2>5, <2>6, <2>7, StepKeeps
  <1>4. QED
    BY <1>2, <1>3

LEMMA FinalizeKeeps == ASSUME CatalogInv, NEW p \in Procs, FinalizeStartup(p) PROVE CatalogInv'
  <1>1. /\ Types /\ LockInv /\ Established(p) /\ Serving(p) /\ pub[p].pc = "decide" /\ pub[p].mode # "sync"
        /\ pub[p] \in PubType /\ lock = p /\ HeadGen \in Nat
    BY Known DEF FinalizeStartup, At, Established, Writing
  <1>2. NoneAdmitted(p)
    BY <1>1, GatedAlone DEF Gated
  <1>3. CASE HeadGen # pub[p].expected /\ Retry(p)
    BY <1>1, <1>3, RetryKeeps
  <1>4. CASE /\ HeadGen = pub[p].expected /\ pub[p].mode = "adopt"
             /\ pub' = Returned(p, TRUE) /\ lock' = Unlocked(p) /\ Activate(p, HeadGen)
             /\ UNCHANGED <<ledger, bound, shared, orphan, cas, checkout, poisoned, start, queue, boundVars>>
    <2>1. HeadGen \in 1..HeadGen /\ ledger[HeadGen].content \subseteq bound
      BY <1>1, <1>4 DEF Established
    <2>2. orphan.by # p
      BY <1>1, Names, RestFields DEF LockInv
    <2>3. HeadGen # 0 /\ \A g \in HeadGen + 1..HeadGen : FALSE
      BY <1>1, <2>1
    <2>4. LockMoves(p) /\ active' = [active EXCEPT ![p] = HeadGen] /\ lost' = lost
      BY <1>4 DEF LockMoves, Activate, boundVars
    <2>5. poisoned \in [Procs -> Reasons] /\ cas \subseteq Revisions
      BY <1>1 DEF Types
    <2>6. QED
      BY <1>1, <1>2, <1>4, <2>1, <2>2, <2>3, <2>4, <2>5, RestKeeps
  <1>5. CASE /\ HeadGen = pub[p].expected /\ pub[p].mode # "adopt"
             /\ Step(p, [pub[p] EXCEPT !.pc = IF pub[p].mode = "legacy" THEN "bind" ELSE "publish"])
    <2>1. PICK c, r : /\ c = (IF pub[p].mode = "legacy" THEN "bind" ELSE "publish")
                      /\ r = [pub[p] EXCEPT !.pc = c]
      OBVIOUS
    <2>2. /\ r \in PubType /\ r.pc = c /\ r.mode = pub[p].mode /\ r.expected = pub[p].expected
          /\ r.content = pub[p].content
      BY <1>1, <2>1 DEF PubType, PubStates, Gated
    <2>3. /\ pub' = [pub EXCEPT ![p] = r] /\ LockMoves(p)
          /\ UNCHANGED <<ledger, bound, lock, shared, start, orphan, lost, checkout, active, poisoned, cas>>
      BY <1>5, <2>1, StepFrame
    <2>4. pub'[p] = r /\ HeadGen' = HeadGen /\ cas \subseteq Revisions
      BY <1>1, <2>3, SameGrows DEF Types
    <2>5. c = "publish" => pub[p].mode = "empty" /\ HeadGen = 0
      BY <1>1, <1>5, <2>1 DEF Established, PubType
    <2>6. \A g \in 1..0 : FALSE
      OBVIOUS
    <2>7. c = "publish" => \A g \in 1..HeadGen : ledger[g].content # r.content
      BY <2>5, <2>6
    <2>8. c = "bind" => r.expected \in 1..HeadGen /\ ledger[r.expected].content = r.content
      BY <1>1, <2>1, <2>2 DEF Established
    <2>9. r.pc \in {"publish", "bind"} /\ r.content \subseteq cas \cup lost /\ lock' = p
      BY <1>1, <2>1, <2>2, <2>3 DEF Established, Ensured
    <2>10. Established(p)'
      BY <1>5, <2>2, <2>3, <2>4, <2>7, <2>8, <2>9 DEF Established, Writing, Ensured, Published
    <2>11. pub[p].pc \notin Reconciling /\ r.pc \notin Reconciling \cup {"idle", "down"} /\ r.pc # "snapshot"
      BY <1>1, <2>9 DEF Reconciling
    <2>12. QED
      BY <1>1, <1>2, <2>2, <2>3, <2>4, <2>10, <2>11, StepKeeps
  <1>6. QED
    BY <1>3, <1>4, <1>5 DEF FinalizeStartup
LEMMA RefuseKeeps ==
    ASSUME CatalogInv, NEW p \in Procs, NEW why \in Reasons \ {"no"}, Refuse(p, why) PROVE CatalogInv'
  <1>1. Types /\ Serving(p)
    BY Known
  <1>2. /\ pub' = Returned(p, FALSE) /\ LockMoves(p) /\ cas' = cas /\ Poison(p, why)
        /\ UNCHANGED <<ledger, bound, shared, start, orphan, lost, checkout, active>>
    BY DEF Refuse, LockMoves
  <1>3. PICK a : a = active[p]
    OBVIOUS
  <1>4. a \in Nat /\ active' = [active EXCEPT ![p] = a] /\ cas \subseteq Revisions
    BY <1>1, <1>2, <1>3 DEF Types
  <1>5. pub[p].mode = "sync" => a \in 1..HeadGen
    BY <1>1, <1>3 DEF Serving
  <1>6. QED
    BY <1>2, <1>3, <1>4, <1>5, PoisonTyped, RestKeeps

LEMMA DecideKeeps == ASSUME CatalogInv, NEW p \in Procs, SyncCandidateUnderLease(p) PROVE CatalogInv'
  <1>1. /\ Types /\ Established(p) /\ Serving(p) /\ pub[p].pc = "decide" /\ pub[p].mode = "sync"
        /\ pub[p] \in PubType /\ lock = p /\ HeadGen \in Nat /\ pub[p].pc \notin Reconciling
    BY Known DEF SyncCandidateUnderLease, At, Established, Writing, Reconciling
  <1>2. NoneAdmitted(p)
    BY <1>1, GatedAlone DEF Gated
  <1>3. CASE Refuse(p, "heads")
    BY <1>3, RefuseKeeps DEF Reasons
  <1>4. CASE Return(p, TRUE)
    BY <1>1, <1>4, ReturnKeeps
  <1>5. CASE Return(p, FALSE)
    BY <1>1, <1>5, ReturnKeeps
  <1>6. ASSUME NEW c \in {"publish", "bind"}, active[p] = HeadGen,
               c = "publish" => ~Published(pub[p].content), c = "bind" => ledger[HeadGen].content = pub[p].content,
               Step(p, [pub[p] EXCEPT !.pc = c, !.expected = HeadGen])
        PROVE  CatalogInv'
    <2>1. PICK r : r = [pub[p] EXCEPT !.pc = c, !.expected = HeadGen]
      OBVIOUS
    <2>2. r \in PubType /\ r.pc = c /\ r.mode = "sync" /\ r.expected = HeadGen /\ r.content = pub[p].content
      BY <1>1, <1>6, <2>1 DEF PubType, PubStates, Gated
    <2>3. /\ pub' = [pub EXCEPT ![p] = r] /\ LockMoves(p)
          /\ UNCHANGED <<ledger, bound, lock, shared, start, orphan, lost, checkout, active, poisoned, cas>>
      BY <1>6, <2>1, StepFrame, ZenonT(30)
    <2>4. pub'[p] = r /\ HeadGen' = HeadGen /\ cas \subseteq Revisions
      BY <1>1, <2>3, SameGrows DEF Types
    <2>5. HeadGen \in 1..HeadGen /\ (poisoned[p] = "no" => ledger[HeadGen].content \subseteq bound)
      BY <1>1, <1>6 DEF Serving, Serves
    <2>6. r.pc \in {"publish", "bind"} /\ r.content \subseteq cas \cup lost /\ lock' = p
      BY <1>1, <1>6, <2>2, <2>3 DEF Established, Ensured
    <2>7. Established(p)'
      BY <1>6, <2>2, <2>3, <2>4, <2>5, <2>6 DEF Established, Writing, Ensured, Published
    <2>8. r.pc \notin Reconciling \cup {"idle", "down"} /\ r.pc # "snapshot"
      BY <2>6 DEF Reconciling
    <2>9. QED
      BY <1>1, <1>2, <1>6, <2>2, <2>3, <2>4, <2>5, <2>7, <2>8, StepKeeps
  <1>7. CASE /\ active[p] = HeadGen /\ ledger[HeadGen].content = pub[p].content
             /\ Step(p, [pub[p] EXCEPT !.pc = "bind", !.expected = HeadGen])
    BY <1>6, <1>7
  <1>8. CASE /\ active[p] = HeadGen /\ ~Published(pub[p].content)
             /\ Step(p, [pub[p] EXCEPT !.pc = "publish", !.expected = HeadGen])
    BY <1>6, <1>8
  <1>9. QED
    BY <1>3, <1>4, <1>5, <1>7, <1>8 DEF SyncCandidateUnderLease
-----------------------------------------------------------------------------
(***************************************************************************)
(* The transactions, and the reconciliation of one without an answer.      *)
(***************************************************************************)
\* A transaction that writes, and what its writer established.
Writes(tx) ==
    /\ tx \in TxType /\ tx.kind \in {"publish", "bind"} /\ tx.by \in Procs /\ tx.content \subseteq cas \cup lost
    /\ tx.kind = "publish" => ~Published(tx.content)
    /\ tx.expected = HeadGen

LEMMA ApplyWrites ==
    ASSUME Types, LedgerInv, NEW tx, Writes(tx), Apply(tx), cas' = cas, lost' = lost
    PROVE  /\ Grows /\ LedgerInv' /\ bound \subseteq bound' /\ bound' \subseteq Revisions /\ tx.content \subseteq bound'
           /\ \A g \in HeadGen + 1..HeadGen' : ledger'[g].by = tx.by /\ ledger'[g].content = tx.content
           /\ tx.kind = "publish" => HeadGen' = HeadGen + 1
           /\ tx.kind = "bind" => HeadGen' = HeadGen
  <1>1. HeadGen \in Nat /\ tx.content \in Contents /\ bound' = bound \cup tx.content
    BY HeadNat DEF Writes, TxType, Apply
  <1>2. bound \subseteq bound' /\ bound' \subseteq Revisions /\ tx.content \subseteq bound' /\ PublishedIsRecoverable'
    BY <1>1, CatalogBounds DEF Types, LedgerInv, PublishedIsRecoverable, Writes
  <1>3. CASE tx.kind = "publish"
    <2>1. PICK x : x = [content |-> tx.content, schema |-> 2, by |-> tx.by]
      OBVIOUS
    <2>2. x \in EntryType /\ x.schema = 2 /\ x.content = tx.content /\ x.by = tx.by /\ ledger' = Append(ledger, x)
      BY <1>1, <1>3, <2>1 DEF EntryType, Writes, Apply
    <2>3. Grows /\ HeadGen' = HeadGen + 1 /\ ledger'[HeadGen + 1] = x
      BY <2>2, AppendGrows
    <2>4. \A g \in 1..HeadGen' : (g \in 1..HeadGen /\ ledger'[g] = ledger[g]) \/ g = HeadGen + 1
      BY <1>1, <2>3, SMTT(30) DEF Grows
    <2>5. \A g \in HeadGen + 1..HeadGen' : g = HeadGen + 1
      BY <1>1, <2>3
    <2>6. \A g \in 1..HeadGen : ledger[g].content # tx.content
      BY <1>3 DEF Writes, Published
    <2>7. NeverRolledBack'
      BY <2>2, <2>3, <2>4, <2>6, SMTT(30) DEF NeverRolledBack, LedgerInv
    <2>8. \A g \in 1..HeadGen' : ledger'[g].schema = 2 => ledger'[g].content \subseteq bound'
      BY <1>2, <2>2, <2>3, <2>4 DEF LedgerInv
    <2>9. QED
      BY <1>2, <1>3, <2>2, <2>3, <2>5, <2>7, <2>8 DEF LedgerInv
  <1>4. CASE tx.kind = "bind"
    <2>1. ledger' = ledger
      BY <1>4 DEF Apply
    <2>2. Grows /\ HeadGen' = HeadGen
      BY <2>1, SameGrows
    <2>3. \A g \in HeadGen + 1..HeadGen' : FALSE
      BY <1>1, <2>2
    <2>4. LedgerInv'
      BY <1>2, <2>1, <2>2 DEF LedgerInv, NeverRolledBack
    <2>5. QED
      BY <1>2, <1>4, <2>2, <2>3, <2>4
  <1>5. QED
    BY <1>3, <1>4 DEF Writes
\* What the transaction of a publisher was decided on.
LEMMA TxWrites ==
    ASSUME CatalogInv, NEW p \in Procs, pub[p].pc \in {"publish", "bind"}
    PROVE  /\ Writes(Tx(p)) /\ Tx(p).by = p /\ Tx(p).kind = pub[p].pc /\ Tx(p).content = pub[p].content
           /\ Tx(p).expected = HeadGen /\ lock = p /\ orphan = NoTx /\ orphan.by # p
  <1>1. Types /\ LockInv /\ Established(p) /\ pub[p] \in PubType
    BY Known
  <1>2. /\ lock = p /\ pub[p].content \subseteq cas \cup lost /\ pub[p].expected = HeadGen
        /\ pub[p].pc = "publish" => ~Published(pub[p].content)
    BY <1>1 DEF Established, Writing, Ensured
  <1>3. /\ Tx(p).by = p /\ Tx(p).kind = pub[p].pc /\ Tx(p).content = pub[p].content /\ Tx(p).expected = pub[p].expected
        /\ Tx(p) \in TxType
    BY <1>1 DEF Tx, TxType, PubType
  <1>4. orphan = NoTx /\ orphan.by # p
    BY <1>1, <1>2, Names, RestFields DEF LockInv
  <1>5. QED
    BY <1>2, <1>3, <1>4 DEF Writes

LEMMA CommitKeeps == ASSUME CatalogInv, NEW p \in Procs, Commit(p) PROVE CatalogInv'
  <1>1. /\ Types /\ LockInv /\ LedgerInv /\ Established(p) /\ Serving(p) /\ HeadGen \in Nat /\ pub[p] \in PubType
        /\ pub[p].pc \in {"publish", "bind"} /\ NoneAdmitted(p)
    BY Known, GatedAlone DEF Commit, Gated
  <1>2. UNCHANGED <<shared, cas, checkout, poisoned, start, lost>>
    BY DEF Commit
  <1>3. /\ Writes(Tx(p)) /\ Tx(p).by = p /\ Tx(p).kind = pub[p].pc /\ Tx(p).content = pub[p].content
        /\ Tx(p).expected = HeadGen /\ lock = p /\ orphan = NoTx /\ orphan.by # p
    BY <1>1, TxWrites
  <1>4. shared = {} /\ lock # "none" /\ lock # "orphan"
    BY <1>1, <1>3, Names DEF LockInv
  <1>5. CASE Apply(Tx(p)) /\ Activate(p, Len(ledger')) /\ pub' = Returned(p, TRUE) /\ lock' = Unlocked(p)
             /\ UNCHANGED <<orphan, faults>>
    <2>1. /\ Grows /\ LedgerInv' /\ bound \subseteq bound' /\ bound' \subseteq Revisions /\ pub[p].content \subseteq bound'
          /\ \A g \in HeadGen + 1..HeadGen' : ledger'[g].by = p /\ ledger'[g].content = pub[p].content
          /\ pub[p].pc = "publish" => HeadGen' = HeadGen + 1
          /\ pub[p].pc = "bind" => HeadGen' = HeadGen
      BY <1>1, <1>2, <1>3, <1>5, ApplyWrites
    <2>2. pub' = [pub EXCEPT ![p] = Idle] /\ lock' = "none" /\ active' = [active EXCEPT ![p] = HeadGen']
      BY <1>3, <1>5 DEF Returned, Unlocked, Activate, HeadGen
    <2>3. /\ pub'[p] = Idle /\ active'[p] = HeadGen' /\ HeadGen' \in Nat
          /\ \A q \in Procs : q # p => pub'[q] = pub[q] /\ active'[q] = active[q]
      BY <1>1, <2>1, <2>2 DEF Types, Grows
    <2>4. HeadGen' \in 1..HeadGen' /\ ledger'[HeadGen'].content = pub[p].content
      <3>1. CASE pub[p].pc = "publish"
        <4>1. HeadGen' \in HeadGen + 1..HeadGen' /\ HeadGen' \in 1..HeadGen'
          BY <1>1, <2>1, <3>1
        <4>2. QED
          BY <2>1, <4>1
      <3>2. CASE pub[p].pc = "bind"
        <4>1. HeadGen \in 1..HeadGen /\ ledger[HeadGen].content = pub[p].content
          BY <1>1, <3>2 DEF Established
        <4>2. QED
          BY <2>1, <3>2, <4>1 DEF Grows
      <3>3. QED
        BY <1>1, <3>1, <3>2
    <2>5. Types'
      BY <1>1, <1>2, <1>5, <2>1, <2>2, <2>3, Constants DEF Types, Grows
    <2>6. LockInv'
      BY <1>2, <1>3, <1>4, <1>5, <2>2 DEF LockInv
    <2>7. Established(p)' /\ Serving(p)'
      <3>1. Established(p)'
        BY <2>3, RestFields DEF Established, Writing, Ensured
      <3>2. \A g \in HeadGen' + 1..HeadGen' : FALSE
        <4>1. \A n \in Nat : \A g \in n + 1..n : FALSE
          OBVIOUS
        <4>2. HeadGen' \in Nat
          BY <2>3
        <4>3. QED
          BY <4>1, <4>2
      <3>3. Serving(p)'
        <4>1. pub'[p].pc = "idle" /\ pub'[p].mode = "sync" /\ pub'[p].pc \notin {"publish", "bind"} \cup Reconciling
          BY <2>3, RestFields DEF Reconciling
        <4>2. Serves(p)'
          BY <1>3, <1>5, <2>1, <2>3, <2>4, <3>2 DEF Serves
        <4>3. QED
          BY <2>3, <2>4, <4>1, <4>2 DEF Serving
      <3>4. QED
        BY <3>1, <3>3
    <2>8. ASSUME NEW q \in Procs, q # p PROVE Established(q)' /\ Serving(q)'
      BY <1>2, <1>3, <1>5, <2>1, <2>3, <2>8, OthersKeep
    <2>9. StartInv'
      <3>1. \A q \in Procs : \/ NoneAdmitted(q) /\ (active'[q] = active[q] \/ active'[q] # 0)
                             \/ active'[q] = active[q] /\ (pub'[q].pc \in Gated => pub[q].pc \in Gated)
        BY <1>1, <2>3, <2>4, SMTT(30)
      <3>2. QED
        BY <1>2, <1>4, <2>1, <3>1, StartsKeep
    <2>10. QED
      BY <2>1, <2>5, <2>6, <2>7, <2>8, <2>9 DEF CatalogInv, PubInv
  <1>6. CASE pub' = Returned(p, FALSE) /\ lock' = Unlocked(p) /\ UNCHANGED <<ledger, bound, active, orphan>>
    <2>1. pub[p].pc \notin Reconciling /\ LockMoves(p) /\ poisoned \in [Procs -> Reasons] /\ cas \subseteq Revisions
      BY <1>1, <1>6 DEF Reconciling, LockMoves, Types
    <2>2. QED
      BY <1>2, <1>6, <2>1, FailKeeps
  <1>7. CASE /\ orphan' = Tx(p) /\ lock' = "orphan" /\ UNCHANGED <<ledger, bound, active>>
             /\ pub' = [pub EXCEPT ![p].pc = IF @ = "publish" THEN "reconcile" ELSE "reconcilebind"]
    <2>1. PICK c, r : /\ c = (IF pub[p].pc = "publish" THEN "reconcile" ELSE "reconcilebind")
                      /\ r = [pub[p] EXCEPT !.pc = c]
      OBVIOUS
    <2>2. /\ r \in PubType /\ r.pc = c /\ r.mode = pub[p].mode /\ r.expected = pub[p].expected
          /\ r.content = pub[p].content
      BY <1>1, <2>1 DEF PubType, PubStates, Gated
    <2>3. pub' = [pub EXCEPT ![p] = r] /\ pub'[p] = r /\ \A q \in Procs : q # p => pub'[q] = pub[q]
      BY <1>1, <1>7, <2>1 DEF Types
    <2>4. Grows /\ HeadGen' = HeadGen /\ \A g \in HeadGen + 1..HeadGen : FALSE
      BY <1>1, <1>7, SameGrows
    <2>5. Types'
      BY <1>1, <1>2, <1>3, <1>7, <2>2, <2>3 DEF Types, Writes
    <2>6. LockInv'
      BY <1>2, <1>3, <1>4, <1>7, <2>4 DEF LockInv, Writes, Published
    <2>7. LedgerInv'
      BY <1>1, <1>2, <1>7, <2>4 DEF LedgerInv, NeverRolledBack, PublishedIsRecoverable
    <2>8. Established(p)'
      <3>1. /\ r.pc \in {"reconcile", "reconcilebind"} /\ r.content \subseteq cas \cup lost /\ r.expected = HeadGen
            /\ r.pc = "reconcilebind" => r.expected \in 1..HeadGen /\ ledger[r.expected].content = r.content
        BY <1>1, <1>3, <2>1, <2>2, SMTT(30) DEF Established, Ensured
      <3>2. HeadGen <= HeadGen
        BY <1>1
      <3>3. QED
        BY <1>2, <1>7, <2>3, <2>4, <3>1, <3>2 DEF Established, Writing, Ensured
    <2>9. Serving(p)'
      <3>1. r.pc \in Reconciling /\ r.pc \notin {"idle", "down", "snapshot"}
        BY <2>1, <2>2, SMTT(30) DEF Reconciling
      <3>2. QED
        BY <1>1, <1>2, <1>7, <2>2, <2>3, <2>4, <3>1 DEF Serving
    <2>10. ASSUME NEW q \in Procs, q # p PROVE Established(q)' /\ Serving(q)'
      BY <1>2, <1>3, <1>7, <2>3, <2>4, <2>10, OthersKeep
    <2>11. StartInv'
      <3>1. \A q \in Procs : \/ NoneAdmitted(q) /\ (active'[q] = active[q] \/ active'[q] # 0)
                             \/ active'[q] = active[q] /\ (pub'[q].pc \in Gated => pub[q].pc \in Gated)
        BY <1>1, <1>7, <2>3
      <3>2. QED
        BY <1>2, <1>4, <1>7, <2>4, <3>1, StartsKeep
    <2>12. QED
      BY <2>5, <2>6, <2>7, <2>8, <2>9, <2>10, <2>11 DEF CatalogInv, PubInv
  <1>8. QED
    BY <1>5, <1>6, <1>7 DEF Commit

\* The session of a lost COMMIT ends.  Its process, if it is still there, is
\* at the reconciliation, and the lock kept everybody else from writing.
LEMMA OrphanKeeps == ASSUME CatalogInv, OrphanEnds PROVE CatalogInv'
  <1>1. /\ Types /\ LockInv /\ LedgerInv /\ HeadGen \in Nat
        /\ orphan' = NoTx /\ lock' = "none" /\ lock = "orphan" /\ shared = {}
        /\ UNCHANGED <<shared, cas, checkout, active, poisoned, pub, start, lost>>
    BY HeadNat DEF CatalogInv, OrphanEnds, LockInv, boundVars
  <1>2. /\ Grows /\ LedgerInv' /\ bound \subseteq bound' /\ bound' \subseteq Revisions
        /\ \A g \in HeadGen + 1..HeadGen' : ledger'[g].by = orphan.by
    <2>1. CASE Apply(orphan)
      BY <1>1, <2>1, ApplyWrites DEF LockInv, Types, Writes
    <2>2. CASE UNCHANGED <<ledger, bound>>
      <3>1. Grows /\ HeadGen' = HeadGen /\ \A g \in HeadGen + 1..HeadGen : FALSE
        BY <1>1, <2>2, SameGrows
      <3>2. LedgerInv'
        BY <1>1, <2>2, <3>1 DEF LedgerInv, NeverRolledBack, PublishedIsRecoverable
      <3>3. QED
        BY <1>1, <2>2, <3>1, <3>2 DEF Types
    <2>3. QED
      BY <2>1, <2>2 DEF OrphanEnds
  <1>3. Types'
    BY <1>1, <1>2, Constants DEF Types, Grows
  <1>4. LockInv'
    BY <1>1, Names DEF LockInv
  <1>5. ASSUME NEW q \in Procs PROVE Established(q)' /\ Serving(q)'
    <2>1. lock # q /\ orphan'.by # q
      BY <1>1, Names, RestFields
    <2>2. QED
      BY <1>1, <1>2, <1>5, <2>1, OthersKeep
  <1>6. StartInv'
    BY <1>1, <1>2, StartsKeep
  <1>7. QED
    BY <1>2, <1>3, <1>4, <1>5, <1>6 DEF CatalogInv, PubInv
LEMMA ReconcileKeeps == ASSUME CatalogInv, NEW p \in Procs, Reconcile(p) PROVE CatalogInv'
  <1>1. /\ Types /\ LockInv /\ LedgerInv /\ Established(p) /\ Serving(p) /\ HeadGen \in Nat /\ pub[p] \in PubType
        /\ pub[p].pc = "reconcile" /\ NoneAdmitted(p) /\ LockFree /\ pub[p].expected \in Nat
        /\ poisoned \in [Procs -> Reasons] /\ cas \subseteq Revisions /\ active \in [Procs -> Nat]
    BY Known, GatedAlone DEF Reconcile, At, Gated, Types
  <1>2. orphan.by # p
    BY <1>1, Names, RestFields DEF LockInv, LockFree
  <1>3. \A g \in HeadGen + 1..HeadGen : FALSE
    BY <1>1
  <1>4. CASE /\ HeadGen = pub[p].expected + 1 /\ Activate(p, pub[p].expected + 1) /\ pub' = Returned(p, TRUE)
             /\ UNCHANGED <<dbVars, cas, checkout, poisoned, start, queue, boundVars>>
    <2>1. HeadGen \in 1..HeadGen /\ HeadGen \in pub[p].expected + 1..HeadGen /\ HeadGen # 0
      BY <1>1, <1>4
    <2>2. ledger[HeadGen].content \subseteq bound
      BY <1>1, <2>1 DEF Established, LedgerInv
    <2>3. /\ active' = [active EXCEPT ![p] = HeadGen] /\ LockMoves(p)
          /\ UNCHANGED <<ledger, bound, shared, start, orphan, lost, checkout, cas, poisoned>>
      BY <1>4 DEF Activate, dbVars, boundVars, LockMoves
    <2>4. QED
      BY <1>1, <1>2, <1>3, <1>4, <2>1, <2>2, <2>3, RestKeeps
  <1>5. CASE HeadGen = pub[p].expected /\ Return(p, FALSE)
    <2>1. PICK a : a = active[p]
      OBVIOUS
    <2>2. /\ a \in Nat /\ active' = [active EXCEPT ![p] = a] /\ LockMoves(p) /\ pub' = Returned(p, FALSE)
          /\ UNCHANGED <<ledger, bound, shared, start, orphan, lost, checkout, cas, poisoned>>
      BY <1>1, <1>5, <2>1 DEF Return, LockMoves
    <2>3. pub[p].mode = "sync" => a \in 1..HeadGen
      BY <1>1, <2>1 DEF Serving
    <2>4. pub[p].mode = "sync" /\ poisoned[p] = "no" => a = HeadGen /\ ledger[a].content \subseteq bound
      BY <1>1, <1>5, <2>1 DEF Serving, Reconciling
    <2>5. pub[p].mode = "sync" /\ poisoned[p] = "no" => \A g \in a + 1..HeadGen : ledger[g].by # p
      BY <1>3, <2>4
    <2>6. QED
      BY <1>1, <1>2, <2>1, <2>2, <2>3, <2>4, <2>5, RestKeeps
  <1>6. CASE Refuse(p, "commit")
    BY <1>6, RefuseKeeps DEF Reasons
  <1>7. QED
    BY <1>4, <1>5, <1>6 DEF Reconcile

LEMMA ReconcileBindKeeps == ASSUME CatalogInv, NEW p \in Procs, ReconcileBind(p) PROVE CatalogInv'
  <1>1. /\ Types /\ LockInv /\ LedgerInv /\ Established(p) /\ Serving(p) /\ HeadGen \in Nat /\ pub[p] \in PubType
        /\ pub[p].pc = "reconcilebind" /\ NoneAdmitted(p) /\ LockFree
        /\ poisoned \in [Procs -> Reasons] /\ cas \subseteq Revisions /\ active \in [Procs -> Nat]
    BY Known, GatedAlone DEF ReconcileBind, At, Gated, Types
  <1>2. orphan.by # p
    BY <1>1, Names, RestFields DEF LockInv, LockFree
  <1>3. \A g \in HeadGen + 1..HeadGen : FALSE
    BY <1>1
  <1>4. CASE Refuse(p, "commit")
    BY <1>4, RefuseKeeps DEF Reasons
  <1>5. ASSUME HeadGen = pub[p].expected
        PROVE  HeadGen \in 1..HeadGen /\ ledger[HeadGen].content = pub[p].content
    BY <1>1, <1>5 DEF Established
  <1>6. CASE /\ HeadGen = pub[p].expected /\ pub[p].content \subseteq bound
             /\ Activate(p, HeadGen) /\ pub' = Returned(p, TRUE)
             /\ UNCHANGED <<dbVars, cas, checkout, poisoned, start, queue, boundVars>>
    <2>1. HeadGen \in 1..HeadGen /\ HeadGen # 0 /\ ledger[HeadGen].content \subseteq bound
      BY <1>1, <1>5, <1>6
    <2>2. /\ active' = [active EXCEPT ![p] = HeadGen] /\ LockMoves(p)
          /\ UNCHANGED <<ledger, bound, shared, start, orphan, lost, checkout, cas, poisoned>>
      BY <1>6 DEF Activate, dbVars, boundVars, LockMoves
    <2>3. QED
      BY <1>1, <1>2, <1>3, <1>6, <2>1, <2>2, RestKeeps
  <1>7. CASE /\ HeadGen = pub[p].expected /\ lock' = p /\ pub' = [pub EXCEPT ![p].pc = "bind"]
             /\ UNCHANGED <<ledger, bound, shared, orphan, cas, checkout, active, poisoned, start, queue, boundVars>>
    <2>1. PICK r, a : r = [pub[p] EXCEPT !.pc = "bind"] /\ a = active[p]
      OBVIOUS
    <2>2. /\ r \in PubType /\ r.pc = "bind" /\ r.mode = pub[p].mode /\ r.expected = pub[p].expected
          /\ r.content = pub[p].content
      BY <1>1, <2>1 DEF PubType, PubStates, Gated
    <2>3. /\ pub' = [pub EXCEPT ![p] = r] /\ LockMoves(p) /\ a \in Nat /\ active' = [active EXCEPT ![p] = a]
          /\ UNCHANGED <<ledger, bound, shared, start, orphan, lost, checkout, poisoned, cas>>
      BY <1>1, <1>7, <2>1 DEF boundVars, LockMoves, Types
    <2>4. pub'[p] = r /\ active'[p] = a /\ HeadGen' = HeadGen
      BY <1>1, <2>3, SameGrows DEF Types
    <2>5. Established(p)'
      <3>1. r.content \subseteq cas \cup lost /\ r.expected = HeadGen
        BY <1>1, <1>7, <2>2 DEF Established, Ensured
      <3>2. QED
        BY <1>5, <1>7, <2>2, <2>3, <2>4, <3>1 DEF Established, Writing, Ensured
    <2>6. Serving(p)'
      <3>1. pub[p].mode = "sync" /\ poisoned[p] = "no" => a = HeadGen /\ ledger[a].content \subseteq bound
        BY <1>1, <1>7, <2>1 DEF Serving, Reconciling
      <3>2. pub[p].mode = "sync" /\ poisoned[p] = "no" => Serves(p)'
        BY <1>2, <1>3, <2>3, <2>4, <3>1, SMTT(30) DEF Serves
      <3>3. (pub[p].mode = "sync" => a \in 1..HeadGen) /\ (pub[p].mode # "sync" => a = 0)
        BY <1>1, <2>1 DEF Serving
      <3>4. QED
        BY <1>7, <2>2, <2>3, <2>4, <3>1, <3>2, <3>3 DEF Serving
    <2>7. QED
      BY <1>1, <2>1, <2>2, <2>3, <2>5, <2>6, PubStep
  <1>8. QED
    BY <1>4, <1>6, <1>7 DEF ReconcileBind, Bound
LEMMA ExpiresKeeps == ASSUME CatalogInv, NEW p \in Procs, ReconcileExpires(p) PROVE CatalogInv'
  <1>1. Types /\ Serving(p)
    BY Known
  <1>2. /\ pub' = Returned(p, FALSE) /\ LockMoves(p) /\ cas' = cas /\ Poison(p, "commit")
        /\ UNCHANGED <<ledger, bound, shared, start, orphan, lost, checkout, active>>
    BY DEF ReconcileExpires, LockMoves, dbVars
  <1>3. PICK a : a = active[p]
    OBVIOUS
  <1>4. a \in Nat /\ active' = [active EXCEPT ![p] = a] /\ cas \subseteq Revisions /\ "commit" \in Reasons \ {"no"}
    BY <1>1, <1>2, <1>3 DEF Types, Reasons
  <1>5. pub[p].mode = "sync" => a \in 1..HeadGen
    BY <1>1, <1>3 DEF Serving
  <1>6. QED
    BY <1>2, <1>3, <1>4, <1>5, PoisonTyped, RestKeeps

LEMMA CrashKeeps == ASSUME CatalogInv, NEW p \in Procs, Crash(p) PROVE CatalogInv'
  <1>1. Types /\ LockInv /\ LedgerInv /\ HeadGen \in Nat /\ Established(p)
    BY Known
  <1>2. /\ pub' = [pub EXCEPT ![p] = Down] /\ shared' = {t \in shared : t[1] # p}
        /\ start' = [t \in Threads |-> IF t[1] = p THEN NoStart ELSE start[t]]
        /\ active' = [active EXCEPT ![p] = 0] /\ poisoned' = [poisoned EXCEPT ![p] = "no"]
        /\ UNCHANGED <<ledger, bound, checkout, lost>> /\ cas \subseteq cas' /\ cas' \subseteq Revisions
    BY <1>1, SomeStored DEF Crash
  <1>3. Grows /\ HeadGen' = HeadGen /\ \A g \in HeadGen + 1..HeadGen : FALSE
    BY <1>1, <1>2, SameGrows
  <1>4. /\ pub'[p] = Down /\ active'[p] = 0
        /\ \A q \in Procs : q # p => pub'[q] = pub[q] /\ active'[q] = active[q] /\ poisoned'[q] = poisoned[q]
        /\ \A t \in Threads : start'[t] = IF t[1] = p THEN NoStart ELSE start[t]
    BY <1>1, <1>2 DEF Types
  <1>5. /\ lock' \in Procs \cup {"none", "orphan"} /\ orphan' \in TxType /\ LockInv'
        /\ \A q \in Procs : q # p => (lock = q => lock' = q) /\ (orphan'.by = q => orphan.by = q)
    <2>1. CASE pub[p].pc \in {"publish", "bind"}
      <3>1. /\ Writes(Tx(p)) /\ Tx(p).by = p /\ lock = p
            /\ orphan' = Tx(p) /\ lock' = "orphan"
        BY <2>1, TxWrites DEF Crash
      <3>2. shared = {} /\ shared' = {}
        BY <1>1, <1>2, <3>1, Names DEF LockInv
      <3>3. LockInv'
        BY <1>2, <1>3, <3>1, <3>2 DEF LockInv, Writes, Published
      <3>4. QED
        BY <3>1, <3>3 DEF Writes
    <2>2. CASE pub[p].pc \notin {"publish", "bind"}
      <3>1. lock' = Unlocked(p) /\ orphan' = orphan
        BY <2>2 DEF Crash
      <3>2. shared = {} => shared' = {}
        BY <1>2
      <3>3. (lock = p /\ lock' = "none") \/ (lock # p /\ lock' = lock)
        BY <3>1 DEF Unlocked
      <3>4. LockInv'
        BY <1>1, <1>2, <1>3, <3>1, <3>2, <3>3, Names DEF LockInv, Published
      <3>5. QED
        BY <1>1, <3>1, <3>3, <3>4 DEF Types
    <2>3. QED
      BY <2>1, <2>2
  <1>6. Types'
    <2>1. start' \in [Threads -> StartType] /\ shared' \subseteq Threads
      BY <1>1, <1>2, Constants DEF Types
    <2>2. poisoned' \in [Procs -> Reasons] /\ active' \in [Procs -> Nat] /\ pub' \in [Procs -> PubType]
      BY <1>1, <1>2, Constants DEF Types, Reasons
    <2>3. QED
      BY <1>1, <1>2, <1>5, <2>1, <2>2 DEF Types
  <1>7. LedgerInv'
    BY <1>1, <1>2, <1>3 DEF LedgerInv, NeverRolledBack, PublishedIsRecoverable
  <1>8. ASSUME NEW q \in Procs PROVE Established(q)' /\ Serving(q)'
    <2>1. CASE q = p
      BY <1>4, <2>1, RestFields DEF Established, Serving, Writing, Ensured
    <2>2. CASE q # p
      BY <1>2, <1>3, <1>4, <1>5, <1>8, <2>2, OthersKeep
    <2>3. QED
      BY <2>1, <2>2
  <1>9. StartInv'
    <2> SUFFICES ASSUME NEW t \in Threads
                 PROVE  /\ start'[t].pc # "idle" => active'[t[1]] # 0
                        /\ start'[t].pc \in {"validate", "reserve", "commit"} => Selected(start[t], t[1])'
                        /\ start'[t].pc = "commit" => t \in shared' /\ start'[t].gen = HeadGen'
                        /\ start'[t].pc \in InGate => pub'[t[1]].pc \notin Gated
      BY DEF StartInv
    <2>1. CASE t[1] = p
      <3>1. start'[t].pc = "idle" /\ "idle" \notin InGate
        BY <1>4, <2>1, RestFields DEF InGate
      <3>2. QED
        BY <3>1
    <2>2. CASE t[1] # p
      <3>1. start'[t] = start[t] /\ active'[t[1]] = active[t[1]] /\ pub'[t[1]] = pub[t[1]] /\ (t \in shared => t \in shared')
        BY <1>2, <1>4, <2>2, ThreadProc
      <3>2. QED
        BY <1>2, <1>3, <3>1 DEF CatalogInv, StartInv, Selected
    <2>3. QED
      BY <2>1, <2>2
  <1>10. QED
    BY <1>5, <1>6, <1>7, <1>8, <1>9 DEF CatalogInv, PubInv
-----------------------------------------------------------------------------
(***************************************************************************)
(* The steps of a start.                                                   *)
(***************************************************************************)
LEMMA KnownStart ==
    ASSUME CatalogInv, NEW t \in Threads
    PROVE  /\ Types /\ LockInv /\ LedgerInv /\ HeadGen \in Nat /\ t[1] \in Procs /\ start[t] \in StartType
           /\ start[t].pc # "idle" => active[t[1]] # 0
           /\ start[t].pc \in {"validate", "reserve", "commit"} => Selected(start[t], t[1])
           /\ start[t].pc = "commit" => t \in shared /\ start[t].gen = HeadGen
           /\ start[t].pc \in InGate => pub[t[1]].pc \notin Gated
           /\ active[t[1]] # 0 => active[t[1]] \in 1..HeadGen
  <1>1. Types /\ Serving(t[1]) /\ t[1] \in Procs
    BY ThreadProc DEF CatalogInv, PubInv
  <1>2. active[t[1]] # 0 => active[t[1]] \in 1..HeadGen
    BY <1>1 DEF Serving
  <1>3. QED
    BY <1>1, <1>2, HeadNat DEF CatalogInv, Types, StartInv

\* A start that goes on or ends, and holds no reservation.
LEMMA StartGoesOn ==
    ASSUME CatalogInv, NEW t \in Threads, NEW r \in StartType, start' = [start EXCEPT ![t] = r],
           UNCHANGED <<ledger, bound, lock, shared, orphan, cas, checkout, active, pub, lost>>,
           poisoned' = poisoned \/ Poison(t[1], "artifact"),
           r.pc # "idle" => active[t[1]] # 0,
           r.pc \in {"validate", "reserve", "commit"} => Selected(r, t[1]),
           r.pc # "commit", r.pc \in InGate => pub[t[1]].pc \notin Gated
    PROVE  CatalogInv'
  <1>1. Types /\ LockInv /\ t[1] \in Procs
    BY KnownStart
  <1>2. poisoned' \in [Procs -> Reasons] /\ \A q \in Procs : poisoned'[q] = poisoned[q] \/ poisoned'[q] # "no"
    <2>1. "artifact" \in Reasons \ {"no"}
      BY DEF Reasons
    <2>2. QED
      BY <1>1, <2>1, PoisonTyped DEF Types
  <1>3. shared' \subseteq Threads /\ (lock # "none" => shared' = {})
    BY <1>1 DEF Types, LockInv
  <1>4. QED
    BY <1>2, <1>3, StartStepKeeps
LEMMA StartKeeps ==
    ASSUME CatalogInv, NEW t \in Threads, AcquireActiveProblem(t) \/ StartStep(t) \/ StartFails(t) PROVE CatalogInv'
  <1>1. /\ Types /\ LockInv /\ LedgerInv /\ HeadGen \in Nat /\ t[1] \in Procs /\ start[t] \in StartType
        /\ start \in [Threads -> StartType]
        /\ start[t].pc # "idle" => active[t[1]] # 0
        /\ start[t].pc \in {"validate", "reserve", "commit"} => Selected(start[t], t[1])
        /\ start[t].pc = "commit" => t \in shared /\ start[t].gen = HeadGen
        /\ start[t].pc \in InGate => pub[t[1]].pc \notin Gated
        /\ active[t[1]] # 0 => active[t[1]] \in 1..HeadGen
    BY KnownStart DEF Types
  <1>2. \A pc \in {"idle", "gate"} \cup InGate : \A r :
           r = [start[t] EXCEPT !.pc = pc] =>
               r \in StartType /\ r.pc = pc /\ r.gen = start[t].gen /\ r.ref = start[t].ref
    BY <1>1 DEF StartType
  <1>3. NoStart \in StartType /\ NoStart.pc = "idle" /\ NoStart.pc \notin InGate
    BY Constants, RestFields DEF InGate
  <1>4. CASE AcquireActiveProblem(t)
    <2>1. PICK r : r = [start[t] EXCEPT !.pc = "gate"]
      OBVIOUS
    <2>2. r \in StartType /\ r.pc = "gate" /\ r.pc \notin InGate /\ active[t[1]] # 0
      BY <1>2, <1>4, <2>1 DEF InGate, AcquireActiveProblem
    <2>3. /\ start' = [start EXCEPT ![t] = r] /\ poisoned' = poisoned
          /\ UNCHANGED <<ledger, bound, lock, shared, orphan, cas, checkout, active, pub, lost>>
      BY <1>1, <1>4, <2>1 DEF AcquireActiveProblem, dbVars, boundVars
    <2>4. QED
      BY <2>2, <2>3, StartGoesOn
  <1>5. CASE Admit(t)
    <2>1. PICK c, r : c = (IF poisoned[t[1]] = "no" THEN "lookup" ELSE "idle") /\ r = [start[t] EXCEPT !.pc = c]
      OBVIOUS
    <2>2. c \in {"idle", "gate"} \cup InGate /\ c \in {"idle", "lookup"}
      BY <2>1 DEF InGate
    <2>3. /\ r \in StartType /\ r.pc \in {"idle", "lookup"} /\ active[t[1]] # 0 /\ pub[t[1]].pc \notin Gated
      BY <1>1, <1>2, <1>5, <2>1, <2>2 DEF Admit, Publishing
    <2>4. /\ start' = [start EXCEPT ![t] = r] /\ poisoned' = poisoned
          /\ UNCHANGED <<ledger, bound, lock, shared, orphan, cas, checkout, active, pub, lost>>
      BY <1>1, <1>5, <2>1 DEF Admit, dbVars, boundVars
    <2>5. QED
      BY <2>3, <2>4, StartGoesOn
  <1>6. CASE FindActiveCatalogProblem(t)
    <2>1. /\ poisoned' = poisoned
          /\ UNCHANGED <<ledger, bound, lock, shared, orphan, cas, checkout, active, pub, lost>>
      BY <1>6 DEF FindActiveCatalogProblem, dbVars, boundVars
    <2>2. CASE start' = [start EXCEPT ![t] = NoStart]
      BY <1>3, <2>1, <2>2, StartGoesOn
    <2>3. ASSUME NEW ref \in Startable(t[1]),
                 start' = [start EXCEPT ![t] = [pc |-> "validate", gen |-> HeadGen, ref |-> ref]]
          PROVE  CatalogInv'
      <3>1. PICK r : r = [pc |-> "validate", gen |-> HeadGen, ref |-> ref]
        OBVIOUS
      <3>2. ref \in Revisions
        BY <1>1, <2>3 DEF Startable, Types
      <3>3. r \in StartType /\ r.pc = "validate" /\ r.gen = HeadGen /\ r.ref = ref
        BY <1>1, <3>1, <3>2 DEF StartType, InGate
      <3>4. active[t[1]] # 0 /\ active[t[1]] \in 1..HeadGen /\ pub[t[1]].pc \notin Gated
        BY <1>1, <1>6 DEF FindActiveCatalogProblem, InGate
      <3>5. HeadGen \in 1..HeadGen
        BY <1>1, <3>4, SMTT(30)
      <3>6. Selected(r, t[1])
        BY <2>3, <3>3, <3>5 DEF Selected, Startable
      <3>7. QED
        BY <2>1, <2>3, <3>1, <3>3, <3>4, <3>6, StartGoesOn
    <2>4. QED
      BY <1>6, <2>2, <2>3 DEF FindActiveCatalogProblem
  <1>7. CASE LoadHistoricalBundle(t)
    <2>1. start[t].pc = "validate" /\ pub[t[1]].pc \notin Gated
      BY <1>1, <1>7 DEF LoadHistoricalBundle, InGate
    <2>2. CASE Thread(t, "reserve")
      <3>1. PICK r : r = [start[t] EXCEPT !.pc = "reserve"]
        OBVIOUS
      <3>2. r \in StartType /\ r.pc = "reserve" /\ Selected(r, t[1])
        BY <1>1, <1>2, <2>1, <3>1 DEF InGate, Selected
      <3>3. /\ start' = [start EXCEPT ![t] = r] /\ poisoned' = poisoned
            /\ UNCHANGED <<ledger, bound, lock, shared, orphan, cas, checkout, active, pub, lost>>
        BY <1>1, <2>2, <3>1 DEF Thread, dbVars, boundVars
      <3>4. QED
        BY <1>1, <2>1, <3>2, <3>3, StartGoesOn
    <2>3. CASE Poison(t[1], "artifact") /\ start' = [start EXCEPT ![t] = NoStart]
               /\ UNCHANGED <<dbVars, cas, checkout, active, pub, queue, lost>>
      <3>1. UNCHANGED <<ledger, bound, lock, shared, orphan, cas, checkout, active, pub, lost>>
        BY <2>3 DEF dbVars
      <3>2. QED
        BY <1>3, <2>3, <3>1, StartGoesOn
    <2>4. QED
      BY <1>7, <2>2, <2>3 DEF LoadHistoricalBundle
  <1>8. CASE ReserveSession(t)
    <2>1. start[t].pc = "reserve" /\ lock = "none" /\ pub[t[1]].pc \notin Gated
      BY <1>1, <1>8 DEF ReserveSession, InGate
    <2>2. CASE Finish(t)
      <3>1. /\ start' = [start EXCEPT ![t] = NoStart] /\ poisoned' = poisoned
            /\ UNCHANGED <<ledger, bound, lock, shared, orphan, cas, checkout, active, pub, lost>>
        BY <2>2 DEF Finish, dbVars, boundVars
      <3>2. QED
        BY <1>3, <3>1, StartGoesOn
    <2>3. CASE ~Finish(t)
      <3>1. PICK r : r = [start[t] EXCEPT !.pc = "commit"]
        OBVIOUS
      <3>2. r \in StartType /\ r.pc = "commit" /\ r.gen = start[t].gen /\ Selected(r, t[1])
        BY <1>1, <1>2, <2>1, <3>1 DEF InGate, Selected
      <3>3. /\ start' = [start EXCEPT ![t] = r] /\ poisoned' = poisoned /\ shared' = shared \cup {t}
            /\ start[t].gen = HeadGen
            /\ UNCHANGED <<ledger, bound, lock, orphan, cas, checkout, active, pub, lost>>
        BY <1>1, <1>8, <2>3, <3>1 DEF ReserveSession, SelectionCurrent, boundVars
      <3>4. shared' \subseteq Threads /\ t \in shared' /\ poisoned \in [Procs -> Reasons]
        BY <1>1, <3>3 DEF Types
      <3>5. QED
        BY <1>1, <2>1, <3>2, <3>3, <3>4, StartStepKeeps
    <2>4. QED
      BY <2>2, <2>3
  <1>9. CASE EndReservation(t)
    <2>1. /\ start' = [start EXCEPT ![t] = NoStart] /\ poisoned' = poisoned /\ shared' = shared \ {t}
          /\ UNCHANGED <<ledger, bound, lock, orphan, cas, checkout, active, pub, lost>>
      BY <1>9 DEF EndReservation, boundVars
    <2>2. /\ shared' \subseteq Threads /\ (lock # "none" => shared' = {}) /\ poisoned \in [Procs -> Reasons]
          /\ \A u \in shared : u # t => u \in shared'
      BY <1>1, <2>1 DEF Types, LockInv
    <2>3. QED
      BY <1>3, <2>1, <2>2, StartStepKeeps
  <1>10. CASE StartFails(t)
    <2>1. /\ start' = [start EXCEPT ![t] = NoStart] /\ poisoned' = poisoned
          /\ UNCHANGED <<ledger, bound, lock, shared, orphan, cas, checkout, active, pub, lost>>
      BY <1>10 DEF StartFails, dbVars
    <2>2. QED
      BY <1>3, <2>1, StartGoesOn
  <1>11. QED
    BY <1>4, <1>5, <1>6, <1>7, <1>8, <1>9, <1>10 DEF StartStep
-----------------------------------------------------------------------------
\* The checkout, the artifact store, and a step of something else.
LEMMA SurroundingsKeep ==
    ASSUME CatalogInv, UNCHANGED <<ledger, bound, lock, shared, orphan, active, poisoned, pub, start>>,
           checkout' \in Contents, cas' \subseteq Revisions, lost' \subseteq Revisions,
           cas \cup lost \subseteq cas' \cup lost'
    PROVE  CatalogInv'
  <1>1. Types /\ LockInv /\ LedgerInv
    BY DEF CatalogInv
  <1>2. Grows /\ HeadGen' = HeadGen /\ \A g \in HeadGen + 1..HeadGen : FALSE
    BY <1>1, SameGrows, HeadNat
  <1>3. Types'
    BY <1>1 DEF Types
  <1>4. LockInv'
    BY <1>1, <1>2 DEF LockInv, Published
  <1>5. LedgerInv'
    BY <1>1, <1>2 DEF LedgerInv, NeverRolledBack, PublishedIsRecoverable
  <1>6. PubInv'
    BY <1>2, OthersKeep DEF PubInv
  <1>7. StartInv'
    BY <1>2, StartsKeep
  <1>8. QED
    BY <1>3, <1>4, <1>5, <1>6, <1>7 DEF CatalogInv

LEMMA CatalogNext == CatalogInv /\ [Next]_vars => CatalogInv'
  <1> SUFFICES ASSUME CatalogInv, [Next]_vars PROVE CatalogInv'
    OBVIOUS
  <1>1. Types
    BY DEF CatalogInv
  <1>2. ASSUME NEW p \in Procs, PublisherStep(p) PROVE CatalogInv'
    BY <1>2, SnapshotKeeps, PrepareKeeps, CaptureKeeps, RecaptureKeeps, EnsureKeeps, EnterKeeps, LeaseKeeps,
       FinalizeKeeps, DecideKeeps, CommitKeeps, ReconcileKeeps, ReconcileBindKeeps DEF PublisherStep
  <1>3. ASSUME NEW p \in Procs, PublisherFails(p) \/ ReconcileExpires(p) \/ Boot(p) \/ Sync(p) \/ Crash(p)
        PROVE  CatalogInv'
    BY <1>3, FailsKeeps, ExpiresKeeps, BootKeeps, SyncKeeps, CrashKeeps
  <1>4. ASSUME NEW t \in Threads, AcquireActiveProblem(t) \/ StartStep(t) \/ StartFails(t) PROVE CatalogInv'
    BY <1>4, StartKeeps
  <1>5. CASE OrphanEnds
    BY <1>5, OrphanKeeps
  <1>6. CASE EditCheckout
    <2>1. /\ UNCHANGED <<ledger, bound, lock, shared, orphan, active, poisoned, pub, start, cas, lost>>
          /\ checkout' \in Contents
      BY <1>6 DEF EditCheckout, dbVars, boundVars
    <2>2. QED
      BY <1>1, <2>1, SurroundingsKeep DEF Types
  <1>7. CASE LoseArtifact
    <2>1. PICK c \in cas : cas' = cas \ {c} /\ lost' = lost \cup {c}
      BY <1>7 DEF LoseArtifact
    <2>2. UNCHANGED <<ledger, bound, lock, shared, orphan, active, poisoned, pub, start, checkout>>
      BY <1>7 DEF LoseArtifact, dbVars
    <2>3. cas' \subseteq Revisions /\ lost' \subseteq Revisions /\ cas \cup lost \subseteq cas' \cup lost'
      BY <1>1, <2>1 DEF Types
    <2>4. QED
      BY <1>1, <2>2, <2>3, SurroundingsKeep DEF Types
  <1>8. CASE UNCHANGED vars
    <2>1. UNCHANGED <<ledger, bound, lock, shared, orphan, active, poisoned, pub, start, checkout, cas, lost>>
      BY <1>8 DEF vars
    <2>2. QED
      BY <1>1, <2>1, SurroundingsKeep DEF Types
  <1>9. QED
    BY <1>2, <1>3, <1>4, <1>5, <1>6, <1>7, <1>8 DEF Next
-----------------------------------------------------------------------------
(***************************************************************************)
(* The theorems.                                                           *)
(***************************************************************************)
LEMMA CatalogAlways == Spec => []CatalogInv
  BY CatalogInit, CatalogNext, PTL DEF Spec

\* The state keeps its types, a process serves a generation that the ledger
\* has, and a publication never runs beside an admitted start of its process:
\* the admission gate, which both acquire, holds across crashes and lost answers.
THEOREM CatalogTypes == Spec => []TypeOK
  <1>1. ASSUME CatalogInv PROVE TypeOK
    <2>1. Types /\ HeadGen \in Nat
      BY <1>1, HeadNat DEF CatalogInv
    <2>2. \A p \in Procs : active[p] \in 0..HeadGen
      <3> SUFFICES ASSUME NEW p \in Procs PROVE active[p] \in 0..HeadGen
        OBVIOUS
      <3>1. active[p] = 0 \/ active[p] \in 1..HeadGen
        BY <1>1 DEF CatalogInv, PubInv, Serving
      <3>2. QED
        BY <2>1, <3>1
    <2>3. active \in [Procs -> 0..HeadGen]
      BY <2>1, <2>2 DEF Types
    <2>4. \A p \in Procs : Publishing(p) => Admitted(p) = {}
      BY <1>1 DEF CatalogInv, StartInv, Publishing, Admitted
    <2>5. \A p \in Procs : poisoned[p] \in {"no", "heads", "commit", "artifact"}
      BY <2>1 DEF Types, Reasons
    <2>6. QED
      BY <2>1, <2>3, <2>4, <2>5 DEF TypeOK, Types, EntryType
  <1>2. QED
    BY <1>1, CatalogAlways, PTL

\* However publishers of several processes, lost COMMIT answers and crashes
\* interleave, no inventory is published twice: FindPublication is asked under
\* the lease whose transaction then appends, or whose session outlives it.
THEOREM LedgerNeverRollsBack == Spec => []NeverRolledBack
  <1>1. CatalogInv => NeverRolledBack
    BY DEF CatalogInv, LedgerInv
  <1>2. QED
    BY <1>1, CatalogAlways, PTL

\* ensureArtifacts runs before the transaction that binds a content, and what
\* it stored is still there at the COMMIT, answered or not, unless the store lost it.
THEOREM PublicationsAreRecoverable == Spec => []PublishedIsRecoverable
  <1>1. CatalogInv => PublishedIsRecoverable
    BY DEF CatalogInv, LedgerInv
  <1>2. QED
    BY <1>1, CatalogAlways, PTL

\* A process whose publisher is at rest and which was not poisoned serves a
\* bound publication and none of its own is newer, also after a reconciliation:
\* the outcome of a COMMIT without an answer is read only once its session ended.
THEOREM OwnPublicationIsServed == Spec => []ServesOwnPublication
  <1>1. ASSUME CatalogInv PROVE ServesOwnPublication
    <2> SUFFICES ASSUME NEW p \in Procs, pub[p].pc = "idle", poisoned[p] = "no"
                 PROVE  active[p] > 0 /\ Serves(p)
      BY DEF ServesOwnPublication, Serves, Bound
    <2>1. Serving(p) /\ HeadGen \in Nat
      BY <1>1, Known
    <2>2. active[p] \in 1..HeadGen /\ Serves(p)
      BY <2>1 DEF Serving, Reconciling
    <2>3. QED
      BY <2>1, <2>2
  <1>2. QED
    BY <1>1, CatalogAlways, PTL

\* A reservation in its transaction has the head of the ledger as its
\* generation, where its problem has the revision that its own process serves,
\* although that process may serve an older publication: the shared lock that
\* ReserveSession takes keeps every publication out, and the admission gate
\* keeps its process from serving another one.
THEOREM ReservationsAreCurrent == Spec => []ReservationIsCurrent
  <1>1. ASSUME CatalogInv PROVE ReservationIsCurrent
    <2> SUFFICES ASSUME NEW t \in Threads, start[t].pc = "commit"
                 PROVE  /\ start[t].gen = HeadGen /\ start[t].ref \in ledger[HeadGen].content
                        /\ start[t].ref \in ledger[active[t[1]]].content
                        /\ start[t].ref \in bound \cap (cas \cup lost)
      BY DEF ReservationIsCurrent
    <2>1. start[t].gen = HeadGen /\ Selected(start[t], t[1]) /\ LedgerInv
      BY <1>1, KnownStart
    <2>2. QED
      BY <2>1 DEF Selected, LedgerInv, PublishedIsRecoverable
  <1>2. QED
    BY <1>1, CatalogAlways, PTL
=============================================================================
