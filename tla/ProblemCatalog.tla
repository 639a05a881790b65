--------------------------- MODULE ProblemCatalog ---------------------------
(***************************************************************************)
(* The problem catalog: a ledger of publications in PostgreSQL, the        *)
(* artifacts that they bind, and the copy of the active publication that   *)
(* each server process holds.  A publisher per process starts up (adopting *)
(* the ledger, binding a legacy head, or bootstrapping an empty ledger)    *)
(* and later synchronizes the checkout; other threads start sessions from  *)
(* the active catalog.  A catalog is a set of revisions, at most one of    *)
(* each problem, which also stands for its digest; a revision stands for   *)
(* its artifact.  The artifact store is represented by what ArtifactStore  *)
(* shows of it.                                                            *)
(***************************************************************************)
EXTENDS Naturals, Sequences, FiniteSets

CONSTANTS
    Procs,
    Revisions,         \* of all the problems
    ProblemOf,         \* the problem of a revision
    Contents,          \* the catalogs that the checkout may hold
    StartsPerProcess,  \* bound: concurrent starts in a process
    MaxPublications,   \* bound: generations of the ledger
    MaxFaults          \* bound: failed calls, cancelled requests, commits whose answer
                       \* is lost, artifacts lost by the store, deaths of a process,
                       \* together with the starts that are under way

ASSUME CatalogBounds ==
    /\ IsFiniteSet(Procs) /\ IsFiniteSet(Contents) /\ Contents # {}
    /\ \A c \in Contents :
          /\ c \subseteq Revisions /\ c # {}
          /\ \A r, o \in c : ProblemOf[r] = ProblemOf[o] => r = o
    /\ {"none", "orphan"} \cap Procs = {}
    /\ {StartsPerProcess, MaxPublications, MaxFaults} \subseteq Nat

Threads == Procs \X (1..StartsPerProcess)
First == CHOOSE c \in Contents : TRUE
StartupAttempts == 3    \* catalogStartupSnapshotAttempts
Problems == {ProblemOf[r] : r \in Revisions}

VARIABLES
    ledger,     \* problem_catalog_publications; the head is the last one
    bound,      \* problem_artifacts: the revisions with an artifact binding
    cas,        \* the artifacts that the store can return
    checkout,   \* the content of the mutable checkout
    lock,       \* exclusive holder of the advisory lock
    shared,     \* its shared holders: reservations in a transaction
    orphan,     \* a transaction whose COMMIT was sent and not answered
    active,     \* generation that each process serves, 0 before startup
    poisoned,   \* why each process refuses admission
    pub,        \* the publisher of each process
    start,      \* the starts of each process
    queue,      \* waiters of the admission gate, in order
    lost,       \* history: the artifacts that the store lost
    faults

dbVars == <<ledger, bound, lock, shared, orphan>>
boundVars == <<lost, faults>>
vars == <<ledger, bound, cas, checkout, lock, shared, orphan, active, poisoned,
          pub, start, queue, lost, faults>>

Down == [pc |-> "down", mode |-> "empty", content |-> First, expected |-> 0, tries |-> 0]
Idle == [Down EXCEPT !.pc = "idle", !.mode = "sync"]
NoStart == [pc |-> "idle", gen |-> 0, ref |-> "none"]
NoTx == [kind |-> "none", content |-> First, expected |-> 0, by |-> "none"]

HeadGen == Len(ledger)
Bound(c) == c \subseteq bound
Gated == {"lease", "decide", "publish", "bind", "reconcile", "reconcilebind"}
InGate == {"lookup", "validate", "reserve", "commit"}
Publishing(p) == pub[p].pc \in Gated
Admitted(p) == {t \in Threads : t[1] = p /\ start[t].pc \in InGate}

(* The types; a publication and an admitted start exclude one another.     *)
TypeOK ==
    /\ ledger \in Seq([content : Contents, schema : {1, 2}, by : Procs \cup {"none"}])
    /\ bound \subseteq Revisions /\ cas \subseteq Revisions /\ lost \subseteq Revisions
    /\ checkout \in Contents /\ lock \in Procs \cup {"none", "orphan"}
    /\ shared \subseteq Threads /\ active \in [Procs -> 0..HeadGen]
    /\ \A p \in Procs : poisoned[p] \in {"no", "heads", "commit", "artifact"}
    /\ \A p \in Procs : Publishing(p) => Admitted(p) = {}

Init ==
    /\ ledger \in {<<>>, <<[content |-> First, schema |-> 1, by |-> "none"]>>}
    /\ bound = {} /\ cas = {} /\ checkout = First
    /\ lock = "none" /\ shared = {} /\ orphan = NoTx
    /\ active = [p \in Procs |-> 0] /\ poisoned = [p \in Procs |-> "no"]
    /\ pub = [p \in Procs |-> Down]
    /\ start = [t \in Threads |-> NoStart]
    /\ queue = [p \in Procs |-> <<>>]
    /\ lost = {} /\ faults = 0

-----------------------------------------------------------------------------
(* The publisher.  A failed startup ends the process; a failed sync is an  *)
(* error of its request.  Leaving gives up the gate with the lease.        *)
At(p, pc) == pub[p].pc = pc
Room == faults + Cardinality({t \in Threads : start[t].pc # "idle"}) < MaxFaults
Fault == Room /\ faults' = faults + 1
LockFree == lock = "none" /\ shared = {}
Unlocked(p) == IF lock = p THEN "none" ELSE lock
Returned(p, ok) == [pub EXCEPT ![p] = IF ok \/ @.mode = "sync" THEN Idle ELSE Down]
Poison(p, why) == poisoned' = [poisoned EXCEPT ![p] = IF @ = "no" THEN why ELSE @]

Return(p, ok) ==
    /\ pub' = Returned(p, ok) /\ lock' = Unlocked(p)
    /\ UNCHANGED <<ledger, bound, cas, checkout, shared, orphan, active, poisoned,
                   start, queue, lost, faults>>

Refuse(p, why) ==
    /\ pub' = Returned(p, FALSE) /\ lock' = Unlocked(p) /\ Poison(p, why)
    /\ UNCHANGED <<ledger, bound, cas, checkout, shared, orphan, active,
                   start, queue, lost, faults>>

Step(p, f) ==
    /\ pub' = [pub EXCEPT ![p] = f]
    /\ UNCHANGED <<dbVars, cas, checkout, active, poisoned, start, queue, boundVars>>

(* ensureArtifacts that does not return has stored some of the artifacts.  *)
StoresSome(p) ==
    IF At(p, "ensure") THEN \E S \in SUBSET pub[p].content : cas' = cas \cup S
    ELSE UNCHANGED cas

PublisherFails_Queued(p) ==
    /\ pub[p].pc \in {"snapshot", "prepare", "capture", "recapture", "ensure",
                      "gate", "lease", "decide"}
    /\ Fault /\ pub' = Returned(p, FALSE) /\ lock' = Unlocked(p) /\ StoresSome(p)
    /\ UNCHANGED <<ledger, bound, checkout, shared, orphan, active, poisoned, start,
                   queue, lost>>

(* A database call, a capture or an artifact call fails, or the context is *)
(* done.  A waiter leaves the queue of the gate.                           *)
PublisherFails(p) ==
    /\ pub[p].pc \in {"snapshot", "prepare", "capture", "recapture", "ensure",
                      "gate", "lease", "decide"}
    /\ Fault /\ pub' = Returned(p, FALSE) /\ lock' = Unlocked(p)
    /\ queue' = [queue EXCEPT ![p] = SelectSeq(@, LAMBDA w : w # <<p, 0>>)]
    /\ StoresSome(p)
    /\ UNCHANGED <<ledger, bound, checkout, shared, orphan, active, poisoned, start, lost>>

Boot(p) ==
    /\ At(p, "down")
    /\ pub' = [pub EXCEPT ![p] = [Down EXCEPT !.pc = "snapshot"]]
    /\ active' = [active EXCEPT ![p] = 0] /\ poisoned' = [poisoned EXCEPT ![p] = "no"]
    /\ UNCHANGED <<dbVars, cas, checkout, start, queue, boundVars>>

(* readStartupSnapshot, under a short lease.                               *)
ReadStartupSnapshot(p) ==
    /\ At(p, "snapshot") /\ LockFree
    /\ \/ /\ HeadGen = 0
          /\ Step(p, [pub[p] EXCEPT !.pc = "capture", !.mode = "empty", !.expected = 0])
       \/ /\ HeadGen > 0
          /\ LET unbound == ~Bound(ledger[HeadGen].content) IN
             Step(p, [pub[p] EXCEPT !.pc = IF unbound THEN "capture" ELSE "prepare",
                                    !.mode = IF unbound THEN "legacy" ELSE "adopt",
                                    !.expected = HeadGen])

Enqueue(p) ==
    queue' = [queue EXCEPT ![p] = Append(@, <<p, 0>>)]

(* prepareStartupSnapshot of a bound head rebuilds it from its artifacts.  *)
CandidateFromEntries(p) ==
    LET c == ledger[pub[p].expected].content IN
    /\ At(p, "prepare")
    /\ \/ /\ c \subseteq cas /\ Enqueue(p)
          /\ pub' = [pub EXCEPT ![p].pc = "gate", ![p].content = c]
          /\ UNCHANGED <<dbVars, cas, checkout, active, poisoned, start, boundVars>>
       \/ ~(c \subseteq cas) /\ Return(p, FALSE)

(* Sync refuses when admission is poisoned.                                *)
Sync(p) ==
    /\ At(p, "idle") /\ poisoned[p] = "no" /\ HeadGen < MaxPublications
    /\ Step(p, [Idle EXCEPT !.pc = "capture"])

(* BuildCandidate captures the checkout twice.                             *)
Capture(p) ==
    /\ At(p, "capture")
    /\ Step(p, [pub[p] EXCEPT !.pc = "recapture", !.content = checkout])

Recapture(p) ==
    /\ At(p, "recapture")
    /\ \/ checkout = pub[p].content /\ Step(p, [pub[p] EXCEPT !.pc = "ensure"])
       \/ checkout # pub[p].content /\ Return(p, FALSE)

(* ensureArtifacts stores every artifact and reads it back.  A legacy head *)
(* is adopted only by a candidate with its exact identity.                 *)
EnsureArtifacts_Later(p) ==
    /\ At(p, "ensure") /\ Enqueue(p)
    /\ pub' = [pub EXCEPT ![p].pc = "gate"]
    /\ UNCHANGED <<dbVars, cas, checkout, active, poisoned, start, boundVars>>

EnsureArtifacts(p) ==
    LET c == pub[p].content
        mismatch == pub[p].mode = "legacy" /\ ledger[pub[p].expected].content # c
    IN
    /\ At(p, "ensure") /\ cas' = cas \cup c
    /\ IF mismatch THEN pub' = Returned(p, FALSE) /\ UNCHANGED queue
       ELSE pub' = [pub EXCEPT ![p].pc = "gate"] /\ Enqueue(p)
    /\ UNCHANGED <<dbVars, checkout, active, poisoned, start, boundVars>>

(* admissionGate.Acquire(capacity): in the order of arrival.               *)
EnterGate(p) ==
    /\ At(p, "gate") /\ queue[p] # <<>> /\ queue[p][1] = <<p, 0>> /\ Admitted(p) = {}
    /\ queue' = [queue EXCEPT ![p] = Tail(@)]
    /\ pub' = [pub EXCEPT ![p].pc = "lease"]
    /\ UNCHANGED <<dbVars, cas, checkout, active, poisoned, start, boundVars>>

AcquireLease_IgnoresShared(p) ==
    /\ At(p, "lease") /\ lock = "none"
    /\ lock' = p /\ pub' = [pub EXCEPT ![p].pc = "decide"]
    /\ UNCHANGED <<ledger, bound, shared, orphan, cas, checkout, active, poisoned, start,
                   queue, boundVars>>

(* AcquireCatalogPublicationLease: the exclusive advisory lock.            *)
AcquireLease(p) ==
    /\ At(p, "lease") /\ LockFree
    /\ lock' = p /\ pub' = [pub EXCEPT ![p].pc = "decide"]
    /\ UNCHANGED <<ledger, bound, shared, orphan, cas, checkout, active, poisoned, start,
                   queue, boundVars>>

(* activateCandidate: the process serves the generation.                   *)
Activate(p, g) == active' = [active EXCEPT ![p] = g]

(* finalizeEmptyStartup and finalizeStartupSnapshot.                       *)
Retry(p) ==
    IF pub[p].tries + 1 = StartupAttempts THEN Return(p, FALSE)
    ELSE /\ pub' = [pub EXCEPT ![p] = [Down EXCEPT !.pc = "snapshot", !.tries = pub[p].tries + 1]]
         /\ lock' = Unlocked(p)
         /\ UNCHANGED <<ledger, bound, shared, orphan, cas, checkout, active, poisoned,
                        start, queue, boundVars>>

FinalizeStartup(p) ==
    /\ At(p, "decide") /\ pub[p].mode # "sync"
    /\ \/ HeadGen # pub[p].expected /\ Retry(p)
       \/ /\ HeadGen = pub[p].expected /\ pub[p].mode = "adopt"
          /\ pub' = Returned(p, TRUE) /\ lock' = Unlocked(p) /\ Activate(p, HeadGen)
          /\ UNCHANGED <<ledger, bound, shared, orphan, cas, checkout, poisoned, start,
                         queue, boundVars>>
       \/ /\ HeadGen = pub[p].expected /\ pub[p].mode # "adopt"
          /\ Step(p, [pub[p] EXCEPT !.pc = IF pub[p].mode = "legacy"
                                           THEN "bind" ELSE "publish"])

(* FindPublication, for the identity and for the legacy identity.          *)
Published_Head(c) == HeadGen > 0 /\ ledger[HeadGen].content = c
Published_SchemaTwo(c) == \E g \in 1..HeadGen : ledger[g].content = c /\ ledger[g].schema = 2
Published(c) == \E g \in 1..HeadGen : ledger[g].content = c

(* syncCandidateUnderLease.                                                *)
SyncCandidateUnderLease(p) ==
    LET c == pub[p].content IN
    /\ At(p, "decide") /\ pub[p].mode = "sync"
    /\ \/ active[p] # HeadGen /\ Refuse(p, "heads")
       \/ active[p] = HeadGen /\ ledger[HeadGen].content = c /\ ledger[HeadGen].schema = 2 /\ Return(p, TRUE)
       \/ /\ active[p] = HeadGen /\ ledger[HeadGen].content = c /\ ledger[HeadGen].schema = 1
          /\ Step(p, [pub[p] EXCEPT !.pc = "bind", !.expected = HeadGen])
       \/ active[p] = HeadGen /\ ledger[HeadGen].content # c /\ Published(c) /\ Return(p, FALSE)
       \/ /\ active[p] = HeadGen /\ ledger[HeadGen].content # c /\ ~Published(c)
          /\ Step(p, [pub[p] EXCEPT !.pc = "publish", !.expected = HeadGen])

-----------------------------------------------------------------------------
(* The transactions.  Publish appends after the head that it locked; a     *)
(* binding is idempotent.                                                  *)
Tx(p) == [kind |-> pub[p].pc, content |-> pub[p].content,
          expected |-> pub[p].expected, by |-> p]

Apply(tx) ==
    /\ HeadGen = tx.expected
    /\ bound' = bound \cup tx.content
    /\ ledger' = IF tx.kind = "publish"
                 THEN Append(ledger, [content |-> tx.content, schema |-> 2, by |-> tx.by])
                 ELSE ledger

(* publishCandidate and bindLegacyArtifacts: committed, refused, or sent   *)
(* without an answer.                                                      *)
Commit(p) ==
    /\ pub[p].pc \in {"publish", "bind"}
    /\ \/ /\ Apply(Tx(p)) /\ Activate(p, Len(ledger'))
          /\ pub' = Returned(p, TRUE) /\ lock' = Unlocked(p)
          /\ UNCHANGED <<orphan, faults>>
       \/ /\ Fault /\ pub' = Returned(p, FALSE) /\ lock' = Unlocked(p)
          /\ UNCHANGED <<ledger, bound, active, orphan>>
       \/ /\ Fault
          /\ orphan' = Tx(p) /\ lock' = "orphan"
          /\ pub' = [pub EXCEPT ![p].pc = IF @ = "publish" THEN "reconcile" ELSE "reconcilebind"]
          /\ UNCHANGED <<ledger, bound, active>>
    /\ UNCHANGED <<shared, cas, checkout, poisoned, start, queue, lost>>

(* The session that sent the COMMIT ends, with or without it; only then is *)
(* its lock released.                                                      *)
OrphanEnds ==
    /\ orphan # NoTx
    /\ Apply(orphan) \/ UNCHANGED <<ledger, bound>>
    /\ orphan' = NoTx /\ lock' = "none"
    /\ UNCHANGED <<shared, cas, checkout, active, poisoned, pub, start, queue, boundVars>>

(* The outcome is read under a fresh lease: the exact publication is then  *)
(* activated, a missing one is an error, anything else poisons admission.  *)
Reconcile_AsFailed(p) ==
    /\ At(p, "reconcile") /\ LockFree /\ Return(p, FALSE)

Reconcile(p) ==
    LET recorded == Published(pub[p].content)
        target == pub[p].expected + 1
        exact == recorded /\ HeadGen = target /\ ledger[target].content = pub[p].content
    IN
    /\ At(p, "reconcile") /\ LockFree
    /\ \/ /\ exact /\ Activate(p, target) /\ pub' = Returned(p, TRUE)
          /\ UNCHANGED <<dbVars, cas, checkout, poisoned, start, queue, boundVars>>
       \/ ~recorded /\ HeadGen = pub[p].expected /\ Return(p, FALSE)
       \/ ~exact /\ (recorded \/ HeadGen # pub[p].expected) /\ Refuse(p, "commit")

ReconcileBind(p) ==
    /\ At(p, "reconcilebind") /\ LockFree
    /\ \/ HeadGen # pub[p].expected /\ Refuse(p, "commit")
       \/ /\ HeadGen = pub[p].expected /\ Bound(pub[p].content)
          /\ Activate(p, HeadGen) /\ pub' = Returned(p, TRUE)
          /\ UNCHANGED <<dbVars, cas, checkout, poisoned, start, queue, boundVars>>
       \/ /\ HeadGen = pub[p].expected /\ ~Bound(pub[p].content)
          /\ lock' = p /\ pub' = [pub EXCEPT ![p].pc = "bind"]
          /\ UNCHANGED <<ledger, bound, shared, orphan, cas, checkout, active, poisoned,
                         start, queue, boundVars>>

(* The time allowed for the outcome runs out.                              *)
ReconcileExpires(p) ==
    /\ pub[p].pc \in {"reconcile", "reconcilebind"} /\ Fault
    /\ Poison(p, "commit") /\ pub' = Returned(p, FALSE)
    /\ UNCHANGED <<dbVars, cas, checkout, active, start, queue, lost>>

-----------------------------------------------------------------------------
(* A start, from AcquireActiveProblem to the release of its admission.     *)
Thread(t, pc) ==
    /\ start' = [start EXCEPT ![t].pc = pc]
    /\ UNCHANGED <<dbVars, cas, checkout, active, poisoned, pub, queue, boundVars>>

Finish(t) ==
    /\ start' = [start EXCEPT ![t] = NoStart]
    /\ UNCHANGED <<dbVars, cas, checkout, active, poisoned, pub, queue, boundVars>>

AcquireActiveProblem(t) ==
    /\ start[t].pc = "idle" /\ active[t[1]] # 0 /\ Room
    /\ start' = [start EXCEPT ![t].pc = "gate"]
    /\ queue' = [queue EXCEPT ![t[1]] = Append(@, t)]
    /\ UNCHANGED <<dbVars, cas, checkout, active, poisoned, pub, boundVars>>

Admit_Barges(t) ==
    /\ start[t].pc = "gate" /\ ~Publishing(t[1])
    /\ queue' = [queue EXCEPT ![t[1]] = SelectSeq(@, LAMBDA w : w # t)]
    /\ start' = [start EXCEPT ![t].pc = "lookup"]
    /\ UNCHANGED <<dbVars, cas, checkout, active, poisoned, pub, boundVars>>

Admit_Unfenced(t) ==
    /\ start[t].pc = "gate" /\ queue[t[1]][1] = t
    /\ queue' = [queue EXCEPT ![t[1]] = Tail(@)]
    /\ start' = [start EXCEPT ![t].pc = IF poisoned[t[1]] = "no" THEN "lookup" ELSE "idle"]
    /\ UNCHANGED <<dbVars, cas, checkout, active, poisoned, pub, boundVars>>

(* The gate, and the health of the catalog behind it.                      *)
Admit(t) ==
    /\ start[t].pc = "gate" /\ queue[t[1]][1] = t /\ ~Publishing(t[1])
    /\ queue' = [queue EXCEPT ![t[1]] = Tail(@)]
    /\ start' = [start EXCEPT ![t].pc = IF poisoned[t[1]] = "no" THEN "lookup" ELSE "idle"]
    /\ UNCHANGED <<dbVars, cas, checkout, active, poisoned, pub, boundVars>>

(* FindActiveCatalogProblem reads a problem's bound revision in the head,  *)
(* and ResolveActiveProblem requires that this process serves the same     *)
(* revision of it: another generation may have it too.                     *)
Startable(p) == ledger[HeadGen].content \cap bound \cap ledger[active[p]].content

FindActiveCatalogProblem(t) ==
    LET found == Startable(t[1]) IN
    /\ start[t].pc = "lookup"
    /\ \/ \E ref \in found :
             start' = [start EXCEPT ![t] = [pc |-> "validate", gen |-> HeadGen, ref |-> ref]]
       \/ /\ \E x \in Problems : \A ref \in found : ProblemOf[ref] # x
          /\ start' = [start EXCEPT ![t] = NoStart]
    /\ UNCHANGED <<dbVars, cas, checkout, active, poisoned, pub, queue, boundVars>>

(* loadHistoricalBundle reads the artifact back; any error poisons.        *)
LoadHistoricalBundle(t) ==
    /\ start[t].pc = "validate"
    /\ \/ start[t].ref \in cas /\ Thread(t, "reserve")
       \/ /\ start[t].ref \notin cas /\ UNCHANGED faults
          /\ Poison(t[1], "artifact") /\ start' = [start EXCEPT ![t] = NoStart]
          /\ UNCHANGED <<dbVars, cas, checkout, active, pub, queue, lost>>
       \/ /\ Fault
          /\ Poison(t[1], "artifact") /\ start' = [start EXCEPT ![t] = NoStart]
          /\ UNCHANGED <<dbVars, cas, checkout, active, pub, queue, lost>>

(* ReserveSession: the shared lock and validateCatalogSelectionTx.         *)
SelectionCurrent(t) ==
    start[t].gen = HeadGen /\ start[t].ref \in ledger[HeadGen].content

ReserveSession(t) ==
    /\ start[t].pc = "reserve" /\ lock = "none"
    /\ \/ /\ SelectionCurrent(t) /\ shared' = shared \cup {t}
          /\ start' = [start EXCEPT ![t].pc = "commit"]
          /\ UNCHANGED <<ledger, bound, lock, orphan, cas, checkout, active, poisoned,
                         pub, queue, boundVars>>
       \/ ~SelectionCurrent(t) /\ Finish(t)

(* Its commit, or its rollback, which release the lock; then the gate.     *)
EndReservation(t) ==
    /\ start[t].pc = "commit"
    /\ shared' = shared \ {t} /\ start' = [start EXCEPT ![t] = NoStart]
    /\ UNCHANGED <<ledger, bound, lock, orphan, cas, checkout, active, poisoned,
                   pub, queue, boundVars>>

(* A waiter gives up, a lookup fails, or the reservation fails.            *)
StartFails(t) ==
    /\ start[t].pc \in {"gate", "lookup", "reserve"} /\ Fault
    /\ start' = [start EXCEPT ![t] = NoStart]
    /\ queue' = [queue EXCEPT ![t[1]] = SelectSeq(@, LAMBDA w : w # t)]
    /\ UNCHANGED <<dbVars, cas, checkout, active, poisoned, pub, lost>>

-----------------------------------------------------------------------------
EditCheckout ==
    /\ \E c \in Contents \ {checkout} : checkout' = c
    /\ UNCHANGED <<dbVars, cas, active, poisoned, pub, start, queue, boundVars>>

LoseArtifact ==
    /\ Fault
    /\ \E c \in cas : cas' = cas \ {c} /\ lost' = lost \cup {c}
    /\ UNCHANGED <<dbVars, checkout, active, poisoned, pub, start, queue>>

(* A process dies.  Its sessions end: a transaction rolls back, unless its *)
(* COMMIT is on the way.                                                   *)
Crash(p) ==
    /\ Fault /\ ~At(p, "down")
    /\ pub' = [pub EXCEPT ![p] = Down]
    /\ start' = [t \in Threads |-> IF t[1] = p THEN NoStart ELSE start[t]]
    /\ shared' = {t \in shared : t[1] # p}
    /\ queue' = [queue EXCEPT ![p] = <<>>]
    /\ active' = [active EXCEPT ![p] = 0] /\ poisoned' = [poisoned EXCEPT ![p] = "no"]
    /\ IF pub[p].pc \in {"publish", "bind"}
       THEN orphan' = Tx(p) /\ lock' = "orphan"
       ELSE lock' = Unlocked(p) /\ UNCHANGED orphan
    /\ StoresSome(p)
    /\ UNCHANGED <<ledger, bound, checkout, lost>>

PublisherStep(p) ==
    \/ ReadStartupSnapshot(p)
    \/ CandidateFromEntries(p)
    \/ Capture(p)
    \/ Recapture(p)
    \/ EnsureArtifacts(p)
    \/ EnterGate(p)
    \/ AcquireLease(p)
    \/ FinalizeStartup(p)
    \/ SyncCandidateUnderLease(p)
    \/ Commit(p)
    \/ Reconcile(p)
    \/ ReconcileBind(p)

StartStep(t) ==
    \/ Admit(t)
    \/ FindActiveCatalogProblem(t)
    \/ LoadHistoricalBundle(t)
    \/ ReserveSession(t)
    \/ EndReservation(t)

Next ==
    \/ \E p \in Procs : PublisherStep(p)
    \/ \E p \in Procs : PublisherFails(p)
    \/ \E p \in Procs : ReconcileExpires(p)
    \/ \E p \in Procs : Boot(p)
    \/ \E p \in Procs : Sync(p)
    \/ \E p \in Procs : Crash(p)
    \/ \E t \in Threads : AcquireActiveProblem(t)
    \/ \E t \in Threads : StartStep(t)
    \/ \E t \in Threads : StartFails(t)
    \/ OrphanEnds
    \/ EditCheckout
    \/ LoseArtifact

Spec == Init /\ [][Next]_vars

(* Threads run, a lost session ends, and a waiter for the advisory lock is *)
(* served in its turn, as PostgreSQL queues lock requests.                 *)
FairSpec ==
    /\ Spec
    /\ \A p \in Procs : WF_vars(PublisherStep(p)) /\ SF_vars(AcquireLease(p))
                        /\ SF_vars(ReadStartupSnapshot(p)) /\ SF_vars(Reconcile(p))
                        /\ SF_vars(ReconcileBind(p))
    /\ \A t \in Threads : WF_vars(StartStep(t)) /\ SF_vars(ReserveSession(t))
    /\ WF_vars(OrphanEnds)

-----------------------------------------------------------------------------
(* No inventory is published twice, under either digest schema: the ledger *)
(* never goes back to an earlier catalog.                                  *)
NeverRolledBack ==
    \A g, h \in 1..HeadGen : ledger[g].content = ledger[h].content => g = h

(* Every revision that the database binds can be rebuilt from its stored   *)
(* artifact, unless the store itself lost it.                              *)
PublishedIsRecoverable == bound \subseteq cas \cup lost

(* A healthy process whose publisher is at rest serves the newest          *)
(* publication that it made, whatever became of its COMMIT's answer.       *)
ServesOwnPublication ==
    \A p \in Procs :
        pub[p].pc = "idle" /\ poisoned[p] = "no" =>
            /\ active[p] > 0 /\ Bound(ledger[active[p]].content)
            /\ \A g \in active[p] + 1..HeadGen : ledger[g].by # p
            /\ orphan.by # p

(* While a reservation is in its transaction, its generation is the head   *)
(* of the ledger, and its problem has the same revision there and in the   *)
(* catalog that its own process serves, possibly an older one; the         *)
(* revision can be rebuilt later, unless the store loses its artifact.     *)
ReservationIsCurrent ==
    \A t \in Threads : start[t].pc = "commit" =>
        /\ start[t].gen = HeadGen
        /\ start[t].ref \in ledger[HeadGen].content
        /\ start[t].ref \in ledger[active[t[1]]].content
        /\ start[t].ref \in bound \cap (cas \cup lost)

(* Every startup and every sync comes to an end, although starts keep      *)
(* coming and answers get lost.                                            *)
PublishersSettle ==
    \A p \in Procs : (pub[p].pc \notin {"idle", "down"}) ~> (pub[p].pc \in {"idle", "down"})
(* Every start comes to an end, admitted or refused, although publishers   *)
(* wait for the same gate and lock.                                        *)
StartsSettle ==
    \A t \in Threads : (start[t].pc # "idle") ~> (start[t].pc = "idle")

(* Admission is closed for a missing artifact only if one was lost.        *)
PoisonMeansLoss == \A p \in Procs : poisoned[p] = "artifact" => lost # {}
=============================================================================
