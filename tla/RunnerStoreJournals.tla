------------------------ MODULE RunnerStoreJournals -------------------------
(***************************************************************************)
(* The journal of an allocation is only appended to and tells its story in *)
(* order, and the first outcome stands, for every value of the constants.  *)
(* First, journals as sequences and what a journal says of the rows of its *)
(* allocation; then what each transaction appends.                         *)
(***************************************************************************)
EXTENDS RunnerStoreOutcomes

\* The provers for the leaves that name none, and their time limits.
USE ZenonT(4), SMTT(30)

-----------------------------------------------------------------------------
(***************************************************************************)
(* Journals as sequences.                                                  *)
(***************************************************************************)
WorkTypes == {"vm_created", "setup_running", "ready", "verify_started", "verify_finished"}
TerminalTypes == {"failed", "timed_out", "provider_lost", "destroying"}
KeyedTypes == {"verify_started", "verify_finished", "predecessor_destroyed"}

\* JournalInOrder of one journal, in terms of positions.
Ordered(es) ==
    /\ \A i, j \in 1..Len(es) : es[i] = es[j] => i = j
    /\ \A i, j \in 1..Len(es) : es[i][1] = "setup_running" /\ es[j][1] = "ready" => i < j
    /\ \A i \in 1..Len(es) : es[i][1] = "verify_started" =>
          \E j \in 1..Len(es) : j < i /\ es[j][1] = "ready"
    /\ \A i \in 1..Len(es) : es[i][1] = "verify_finished" =>
          \E j \in 1..Len(es) : j < i /\ es[j] = <<"verify_started", es[i][2]>>
    /\ \A i, j \in 1..Len(es) : es[i][1] \in TerminalTypes /\ i <= j => es[j][1] \notin WorkTypes
    /\ \A i, j \in 1..Len(es) : es[i][1] = "destroyed" /\ i < j => es[j][1] = "predecessor_destroyed"

\* An event that may be appended to an ordered journal.
MayFollow(es, e) ==
    /\ \A i \in 1..Len(es) : es[i] # e
    /\ e[1] = "setup_running" => ~Has(es, "ready")
    /\ e[1] = "verify_started" => Has(es, "ready")
    /\ e[1] = "verify_finished" => \E i \in 1..Len(es) : es[i] = <<"verify_started", e[2]>>
    /\ e[1] \in WorkTypes => \A t \in TerminalTypes : ~Has(es, t)
    /\ e[1] # "predecessor_destroyed" => ~Has(es, "destroyed")

Extends(es, fs) == \A i \in 1..Len(es) : i <= Len(fs) /\ fs[i] = es[i]

\* A journal that grew in order: fs extends es by events of the types in T.
Grown(es, fs, T) ==
    /\ fs \in Seq(Events) /\ Ordered(fs) /\ Extends(es, fs)
    /\ \A t \in EventTypes : Has(fs, t) <=> Has(es, t) \/ t \in T

-----------------------------------------------------------------------------
(***************************************************************************)
(* What a journal says of the rows of its allocation.                      *)
(***************************************************************************)
Clean(es) == ~Has(es, "destroyed") /\ \A t \in TerminalTypes : ~Has(es, t)

Contains(es, e) == \E i \in 1..Len(es) : es[i] = e

Link(a) ==
    /\ desired[a] = "none" => events[a] = <<>>
    /\ desired[a] = "active" =>
          /\ Clean(events[a])
          /\ Has(events[a], "ready") <=> sessState[a[1]] \in {"ready", "verifying"}
    /\ Has(events[a], "destroyed") => observed[a] = "absent"
    /\ IsCurrent(a) /\ observed[a] = "absent" => sessState[a[1]] = "destroyed"
    /\ outcome[a] # "none" => Has(events[a], "destroying")
    /\ IsCurrent(a) /\ outcome[a] \in DestroyOutcomes => Has(events[a], outcome[a])

\* The strengthening of JournalInOrder.
Linked ==
    /\ \A a \in Allocs : Ordered(events[a]) /\ Link(a)
    /\ \A k \in ClientOps : opState[k] = "running" =>
          Contains(events[opAlloc[k]], <<"verify_started", k>>)

\* What a step does to the journal of an allocation.
JournalStep(x) ==
    Ordered(events'[x]) /\ Extends(events[x], events'[x]) /\ Link(x)'

Told == \A x \in Allocs : JournalStep(x)

\* A step that changes nothing an allocation's journal depends on.
SameSession(x) ==
    \/ /\ IsCurrent(x)' <=> IsCurrent(x)
       /\ sessState'[x[1]] \in {"ready", "verifying"} <=> sessState[x[1]] \in {"ready", "verifying"}
       /\ sessState[x[1]] = "destroyed" => sessState'[x[1]] = "destroyed"
    \/ desired[x] # "active" /\ ~IsCurrent(x)'

LEMMA JournalTypes ==
    ASSUME TypeOK, Linked, NEW x \in Allocs
    PROVE  events[x] \in Seq(Events) /\ Ordered(events[x]) /\ Link(x)
  BY DEF TypeOK, Linked

LEMMA EmptyJournal == <<>> \in Seq(Events) /\ Ordered(<<>>) /\ Clean(<<>>)
                      /\ \A t : ~Has(<<>>, t)
  BY DEF Ordered, Clean, Has

LEMMA NextTold ==
    Base /\ Verdicts /\ Linked /\ [Next]_vars =>
           Told /\ Linked'
  <1>Appended. ASSUME NEW S, NEW es \in Seq(S), NEW e
               PROVE  /\ Len(es) \in Nat /\ Len(Append(es, e)) = Len(es) + 1
                      /\ \A i \in 1..Len(es) : Append(es, e)[i] = es[i]
                      /\ Append(es, e)[Len(es) + 1] = e
    BY <1>Appended
  <1>AppendOrdered. ASSUME NEW S, NEW es \in Seq(S), NEW e, Ordered(es), MayFollow(es, e)
                    PROVE  Ordered(Append(es, e))
    <2> USE <1>AppendOrdered
    <2> PICK n : n = Len(es)
      OBVIOUS
    <2> PICK fs : fs = Append(es, e)
      OBVIOUS
    <2>1. /\ n \in Nat /\ Len(fs) = n + 1
          /\ \A i \in 1..n : fs[i] = es[i]
          /\ fs[n + 1] = e
      BY <1>Appended, SMTT(30)
    <2>2. 1..Len(fs) = (1..n) \cup {n + 1}
      BY <2>1
    <2>3. \A i, j \in 1..Len(fs) : fs[i] = fs[j] => i = j
      BY <2>1, <2>2, SMTT(30) DEF Ordered, MayFollow
    <2>4. \A i, j \in 1..Len(fs) : fs[i][1] = "setup_running" /\ fs[j][1] = "ready" => i < j
      BY <2>1, <2>2, SMTT(30) DEF Ordered, MayFollow, Has
    <2>5. \A i \in 1..Len(fs) : fs[i][1] = "verify_started" =>
             \E j \in 1..Len(fs) : j < i /\ fs[j][1] = "ready"
      BY <2>1, <2>2, SMTT(30) DEF Ordered, MayFollow, Has
    <2>6. ASSUME NEW i \in 1..Len(fs), fs[i][1] = "verify_finished"
          PROVE  \E j \in 1..Len(fs) : j < i /\ fs[j] = <<"verify_started", fs[i][2]>>
      <3>1. PICK j \in 1..n : j < i /\ es[j] = <<"verify_started", fs[i][2]>>
        <4>1. CASE i \in 1..n
          <5>1. es[i][1] = "verify_finished" /\ fs[i] = es[i]
            BY <2>1, <2>6, <4>1
          <5>2. \E j \in 1..n : j < i /\ es[j] = <<"verify_started", es[i][2]>>
            BY <4>1, <5>1, Zenon DEF Ordered
          <5>3. QED
            BY <5>1, <5>2
        <4>2. CASE i = n + 1
          <5>1. \E j \in 1..n : es[j] = <<"verify_started", fs[i][2]>>
            BY <2>1, <2>6, <4>2 DEF MayFollow
          <5>2. QED
            BY <2>1, <4>2, <5>1
        <4>3. QED
          BY <2>2, <4>1, <4>2
      <3>2. j \in 1..Len(fs) /\ fs[j] = es[j]
        BY <2>1, <2>2
      <3>3. QED
        BY <3>1, <3>2
    <2>7. \A i, j \in 1..Len(fs) :
             fs[i][1] \in TerminalTypes /\ i <= j => fs[j][1] \notin WorkTypes
      BY <2>1, <2>2, SMTT(30) DEF Ordered, MayFollow, Has, TerminalTypes, WorkTypes
    <2>8. \A i, j \in 1..Len(fs) :
             fs[i][1] = "destroyed" /\ i < j => fs[j][1] = "predecessor_destroyed"
      BY <2>1, <2>2, SMTT(30) DEF Ordered, MayFollow, Has
    <2>9. Ordered(fs)
      BY <2>3, <2>4, <2>5, <2>6, <2>7, <2>8 DEF Ordered
    <2>10. QED
      BY <2>9
  <1>HasAppended. ASSUME NEW S, NEW es \in Seq(S), NEW e, NEW t
                  PROVE  Has(Append(es, e), t) <=> Has(es, t) \/ e[1] = t
    <2> USE <1>HasAppended
    <2> PICK n : n = Len(es)
      OBVIOUS
    <2>1. /\ n \in Nat /\ Len(Append(es, e)) = n + 1
          /\ \A i \in 1..n : Append(es, e)[i] = es[i]
          /\ Append(es, e)[n + 1] = e
      BY <1>Appended, SMTT(30)
    <2>2. 1..(n + 1) = (1..n) \cup {n + 1}
      BY <2>1
    <2>3. QED
      BY <2>1, <2>2 DEF Has
  <1>GrownAppend. ASSUME NEW es \in Seq(Events), NEW e \in Events, Ordered(es), MayFollow(es, e)
                  PROVE  Grown(es, Append(es, e), {e[1]})
    <2> USE <1>GrownAppend
    <2>1. Append(es, e) \in Seq(Events)
      OBVIOUS
    <2>2. Extends(es, Append(es, e))
      BY <1>Appended, SMTT(30) DEF Extends
    <2>3. QED
      BY <2>1, <2>2, <1>AppendOrdered, <1>HasAppended DEF Grown
  <1>GrownSame. ASSUME NEW es \in Seq(Events), Ordered(es), NEW T, \A t \in T : Has(es, t)
                PROVE  Grown(es, es, T)
    BY <1>GrownSame DEF Grown, Extends
  <1>GrownTwice. ASSUME NEW es, NEW fs, NEW gs, NEW T, NEW U, Grown(es, fs, T), Grown(fs, gs, U),
                        es \in Seq(Events)
                 PROVE  Grown(es, gs, T \cup U)
    <2> USE <1>GrownTwice
    <2>1. Extends(es, gs)
      <3>1. Len(es) \in Nat /\ Len(fs) \in Nat /\ Len(gs) \in Nat
        BY DEF Grown
      <3>2. QED
        BY <3>1 DEF Grown, Extends
    <2>2. QED
      BY <2>1 DEF Grown
  <1>SingletonEvent. ASSUME NEW t \in EventTypes
                     PROVE  <<t>> \in Events /\ <<t>>[1] = t
    BY <1>SingletonEvent DEF Events
  \* EnsureEvent grows a journal in order unless the event comes too late.
  <1>EnsureGrown. ASSUME NEW es \in Seq(Events), Ordered(es), NEW t \in EventTypes \ KeyedTypes,
                         \/ Has(es, t)
                         \/ /\ t \in WorkTypes => \A u \in TerminalTypes : ~Has(es, u)
                            /\ t = "setup_running" => ~Has(es, "ready")
                            /\ ~Has(es, "destroyed")
                  PROVE  Grown(es, EnsureEvent(es, t), {t})
    <2> USE <1>EnsureGrown
    <2>1. CASE Has(es, t)
      BY <2>1, <1>GrownSame DEF EnsureEvent
    <2>2. CASE ~Has(es, t)
      <3>1. <<t>> \in Events /\ <<t>>[1] = t
        BY <1>SingletonEvent
      <3>2. \A i \in 1..Len(es) : es[i] # <<t>>
        BY <2>2, <3>1 DEF Has
      <3>3. MayFollow(es, <<t>>)
        BY <2>2, <3>1, <3>2 DEF MayFollow, KeyedTypes
      <3>4. QED
        BY <2>2, <3>1, <3>3, <1>GrownAppend DEF EnsureEvent
    <2>3. QED
      BY <2>1, <2>2
  <1>EnsureKeyedGrown. ASSUME NEW es \in Seq(Events), Ordered(es), NEW t, NEW key, <<t, key>> \in Events,
                              t = "verify_started" => Has(es, "ready"),
                              t = "verify_finished" => \E i \in 1..Len(es) : es[i] = <<"verify_started", key>>,
                              t # "predecessor_destroyed" =>
                                 ~Has(es, "destroyed") /\ \A u \in TerminalTypes : ~Has(es, u),
                              t \in KeyedTypes
                       PROVE  /\ Grown(es, EnsureKeyedEvent(es, t, key), {t})
                              /\ \E i \in 1..Len(EnsureKeyedEvent(es, t, key)) :
                                    EnsureKeyedEvent(es, t, key)[i] = <<t, key>>
    <2> USE <1>EnsureKeyedGrown
    <2> PICK e : e = <<t, key>>
      OBVIOUS
    <2>1. e[1] = t /\ e[2] = key
      OBVIOUS
    <2>2. Range(es) = {es[i] : i \in 1..Len(es)}
      BY SMTT(30) DEF Range
    <2>3. CASE e \in Range(es)
      <3>1. EnsureKeyedEvent(es, t, key) = es
        BY <2>3 DEF EnsureKeyedEvent
      <3>2. PICK i \in 1..Len(es) : es[i] = e
        BY <2>2, <2>3
      <3>3. Has(es, t)
        BY <2>1, <3>2 DEF Has
      <3>4. QED
        BY <3>1, <3>2, <3>3, <1>GrownSame
    <2>4. CASE e \notin Range(es)
      <3>1. EnsureKeyedEvent(es, t, key) = Append(es, e)
        BY <2>4 DEF EnsureKeyedEvent
      <3>2. MayFollow(es, e)
        BY <2>1, <2>2, <2>4 DEF MayFollow, KeyedTypes, WorkTypes
      <3>3. Grown(es, Append(es, e), {t})
        BY <2>1, <3>2, <1>GrownAppend
      <3>4. Len(es) + 1 \in 1..Len(Append(es, e)) /\ Append(es, e)[Len(es) + 1] = e
        BY <1>Appended, SMTT(30)
      <3>5. QED
        BY <3>1, <3>3, <3>4
    <2>5. QED
      BY <2>3, <2>4
  \* An allocation that a step keeps, whose journal it may add to.
  <1>KeptTold. ASSUME Linked, TypeOK, NEW x \in Allocs, NEW T, Grown(events[x], events'[x], T),
                      T \cap (TerminalTypes \cup {"ready", "destroyed"}) = {},
                      desired[x] # "none" \/ events'[x] = events[x],
                      desired'[x] = desired[x], outcome'[x] = outcome[x],
                      observed'[x] = "absent" <=> observed[x] = "absent",
                      SameSession(x)
               PROVE  JournalStep(x)
    <2> USE <1>KeptTold
    <2>1. \A t \in TerminalTypes \cup {"ready", "destroyed"} : Has(events'[x], t) <=> Has(events[x], t)
      BY DEF Grown, TerminalTypes, EventTypes
    <2>2. Link(x)
      BY DEF Linked
    <2>3. DestroyOutcomes \subseteq TerminalTypes /\ "destroying" \in TerminalTypes
      BY DEF DestroyOutcomes, TerminalTypes
    <2>4. Clean(events'[x]) <=> Clean(events[x])
      BY <2>1 DEF Clean
    <2>5. desired'[x] = "none" => events'[x] = <<>>
      BY <2>2 DEF Link
    <2>6. desired'[x] = "active" =>
            /\ Clean(events'[x])
            /\ Has(events'[x], "ready") <=> sessState'[x[1]] \in {"ready", "verifying"}
      BY <2>1, <2>2, <2>4 DEF Link, SameSession
    <2>7. Has(events'[x], "destroyed") => observed'[x] = "absent"
      BY <2>1, <2>2 DEF Link
    <2>8. IsCurrent(x)' /\ observed'[x] = "absent" => sessState'[x[1]] = "destroyed"
      <3>1. CASE desired[x] # "active" /\ ~IsCurrent(x)'
        BY <3>1
      <3>2. CASE (IsCurrent(x)' <=> IsCurrent(x))
                 /\ (sessState[x[1]] = "destroyed" => sessState'[x[1]] = "destroyed")
        BY <2>2, <3>2 DEF Link
      <3>3. QED
        BY <3>1, <3>2 DEF SameSession
    <2>9. outcome'[x] # "none" => Has(events'[x], "destroying")
      BY <2>1, <2>2, <2>3 DEF Link
    <2>10. IsCurrent(x)' /\ outcome'[x] \in DestroyOutcomes => Has(events'[x], outcome'[x])
      BY <2>1, <2>2, <2>3 DEF Link, SameSession
    <2>11. Link(x)'
      BY <2>5, <2>6, <2>7, <2>8, <2>9, <2>10 DEF Link
    <2>12. QED
      BY <2>11 DEF JournalStep, Grown
  <1>UntouchedTold. ASSUME Linked, TypeOK, NEW x \in Allocs, events'[x] = events[x], desired'[x] = desired[x],
                           outcome'[x] = outcome[x], observed'[x] = observed[x], SameSession(x)
                    PROVE  JournalStep(x)
    <2> USE <1>UntouchedTold
    <2>1. Grown(events[x], events'[x], {})
      BY JournalTypes, <1>GrownSame
    <2>2. QED
      BY <2>1, <1>KeptTold
  \* An allocation that is given up, or was.
  <1>GivenUpTold. ASSUME Linked, TypeOK, NEW x \in Allocs, NEW T, Grown(events[x], events'[x], T),
                         desired'[x] = "absent",
                         "destroyed" \in T \/ Has(events[x], "destroyed") => observed'[x] = "absent",
                         IsCurrent(x)' /\ observed'[x] = "absent" => sessState'[x[1]] = "destroyed",
                         outcome'[x] # "none" => outcome[x] # "none" \/ "destroying" \in T,
                         IsCurrent(x)' /\ outcome'[x] \in DestroyOutcomes =>
                            outcome'[x] \in T \/ (IsCurrent(x) /\ outcome'[x] = outcome[x])
                  PROVE  JournalStep(x)
    <2> USE <1>GivenUpTold
    <2>1. \A t \in EventTypes : Has(events'[x], t) <=> Has(events[x], t) \/ t \in T
      BY DEF Grown
    <2>2. Link(x)
      BY DEF Linked
    <2>3. DestroyOutcomes \cup {"destroying", "destroyed"} \subseteq EventTypes
      BY DEF DestroyOutcomes, EventTypes
    <2>4. Has(events'[x], "destroyed") => observed'[x] = "absent"
      BY <2>1, <2>3
    <2>5. outcome'[x] # "none" => Has(events'[x], "destroying")
      BY <2>1, <2>2, <2>3 DEF Link
    <2>6. IsCurrent(x)' /\ outcome'[x] \in DestroyOutcomes => Has(events'[x], outcome'[x])
      BY <2>1, <2>2, <2>3 DEF Link
    <2>7. Link(x)'
      BY <2>4, <2>5, <2>6 DEF Link
    <2>8. QED
      BY <2>7 DEF JournalStep, Grown
  \* A step on one allocation.
  <1>OneTold. ASSUME Base, Linked, NEW a \in Allocs, JournalStep(a), currentGen' = currentGen,
                     \A x \in Allocs \ {a} : events'[x] = events[x] /\ desired'[x] = desired[x]
                                             /\ outcome'[x] = outcome[x] /\ observed'[x] = observed[x],
                     \A s \in Sessions : s # a[1] \/ ~IsCurrent(a) => sessState'[s] = sessState[s]
              PROVE  Told
    <2> USE <1>OneTold
    <2> SUFFICES ASSUME NEW x \in Allocs \ {a} PROVE JournalStep(x)
      BY DEF Told
    <2>1. IsCurrent(x)' <=> IsCurrent(x)
      BY DEF IsCurrent
    <2>2. CASE sessState'[x[1]] = sessState[x[1]]
      <3>1. SameSession(x)
        BY <2>1, <2>2 DEF SameSession
      <3>2. QED
        BY <3>1, <1>UntouchedTold DEF Base, IInv
    <2>3. CASE sessState'[x[1]] # sessState[x[1]]
      <3>1. x[1] = a[1] /\ IsCurrent(a)
        BY <2>3, AllocParts
      <3>2. ~IsCurrent(x)
        BY <3>1, AllocParts, SMTT(30) DEF IsCurrent
      <3>3. SameSession(x)
        BY <2>1, <3>2 DEF SameSession, Base, Rows
      <3>4. QED
        BY <3>3, <1>UntouchedTold DEF Base, IInv
    <2>4. QED
      BY <2>2, <2>3
  <1>QuietTold. ASSUME Base, Linked, UNCHANGED <<sessState, currentGen, desired, observed, events, outcome>>
                PROVE  Told
    <2> USE <1>QuietTold
    <2> SUFFICES ASSUME NEW x \in Allocs PROVE JournalStep(x)
      BY DEF Told
    <2>1. SameSession(x)
      BY DEF SameSession, IsCurrent
    <2>2. QED
      BY <2>1, <1>UntouchedTold DEF Base, IInv
  <1>CleanEnsured. ASSUME NEW es \in Seq(Events), Ordered(es), Clean(es), NEW t \in EventTypes \ KeyedTypes,
                          t # "setup_running" \/ ~Has(es, "ready") \/ Has(es, t)
                   PROVE  Grown(es, EnsureEvent(es, t), {t})
    <2> USE <1>CleanEnsured
    <2>1. /\ t \in WorkTypes => \A u \in TerminalTypes : ~Has(es, u)
          /\ ~Has(es, "destroyed")
      BY DEF Clean
    <2>2. QED
      BY <2>1, <1>EnsureGrown
  \* Two events of an end, which an old journal has already.
  <1>LateEnsured. ASSUME NEW es \in Seq(Events), Ordered(es),
                         NEW t \in EventTypes \ (KeyedTypes \cup WorkTypes),
                         NEW u \in EventTypes \ (KeyedTypes \cup WorkTypes),
                         t # "destroyed", Has(es, "destroyed") => Has(es, t) /\ (Has(es, u) \/ u = "destroyed")
                  PROVE  Grown(es, EnsureEvent(EnsureEvent(es, t), u), {t, u})
    <2> USE <1>LateEnsured
    <2> PICK fs : fs = EnsureEvent(es, t)
      OBVIOUS
    <2>1. "setup_running" \in WorkTypes
      BY DEF WorkTypes
    <2>2. Grown(es, fs, {t})
      BY <2>1, <1>EnsureGrown
    <2>3. fs \in Seq(Events) /\ Ordered(fs)
      BY <2>2 DEF Grown
    <2>4. "destroyed" \in EventTypes
      BY DEF EventTypes
    <2>5. Has(fs, "destroyed") <=> Has(es, "destroyed")
      BY <2>2, <2>4 DEF Grown
    <2>6. Has(es, u) => Has(fs, u)
      BY <2>2 DEF Grown
    <2>7. Has(fs, u) \/ ~Has(fs, "destroyed")
      BY <2>5, <2>6
    <2>8. Grown(fs, EnsureEvent(fs, u), {u})
      BY <2>1, <2>3, <2>7, <1>EnsureGrown
    <2>9. {t} \cup {u} = {t, u}
      OBVIOUS
    <2>10. QED
      BY <2>2, <2>8, <2>9, <1>GrownTwice, SMTT(30)
  <1>PairJournal. ASSUME NEW e \in Events, NEW f \in Events, e # f, NEW t, NEW u, e[1] = t, f[1] = u,
                         {t, u} \cap (WorkTypes \cup TerminalTypes \cup {"destroyed"}) = {}
                  PROVE  Grown(<<>>, <<e, f>>, {t, u})
    <2> USE <1>PairJournal
    <2> PICK es : es = <<e, f>>
      OBVIOUS
    <2>1. es \in Seq(Events) /\ Len(es) = 2 /\ es[1] = e /\ es[2] = f
      OBVIOUS
    <2>2. 1..2 = {1, 2}
      OBVIOUS
    <2>3. \A v : Has(es, v) <=> v \in {t, u}
      BY <2>1, <2>2 DEF Has
    <2>4. \A i \in 1..Len(es) : es[i] \in {e, f} /\ es[i][1] \in {t, u}
      BY <2>1, <2>2
    <2>5. \A i, j \in 1..Len(es) : es[i] = es[j] => i = j
      BY <2>1, <2>2, SMTT(30)
    <2>6. \A i \in 1..Len(es) : es[i][1] \notin WorkTypes \cup TerminalTypes \cup {"destroyed"}
      BY <2>4
    <2>7. Ordered(es)
      BY <2>5, <2>6 DEF Ordered, WorkTypes
    <2>8. Extends(<<>>, es)
      BY DEF Extends
    <2>9. Grown(<<>>, es, {t, u})
      BY <2>1, <2>3, <2>7, <2>8, EmptyJournal DEF Grown
    <2>10. QED
      BY <2>9
  <1>ReserveSessionTold. ASSUME Base, Verdicts, Linked, NEW s \in Sessions, ReserveSession(s)
                         PROVE  Told
    <2> USE <1>ReserveSessionTold
    <2> PICK a : a = <<s, 1>>
      OBVIOUS
    <2>1. /\ sessState[s] = "none"
          /\ sessState' = [sessState EXCEPT ![s] = "queued"]
          /\ currentGen' = [currentGen EXCEPT ![s] = 1]
          /\ desired' = [desired EXCEPT ![a] = "active"]
          /\ observed' = [observed EXCEPT ![a] = "unknown"]
          /\ events' = [events EXCEPT ![a] = << <<"allocation_reserved">> >>]
          /\ outcome' = outcome
      BY DEF ReserveSession
    <2>2. a \in Allocs /\ a[1] = s /\ a[2] = 1
      BY AllocMade, BoundsAssumption DEF Generations
    <2>3. currentGen[s] = 0 /\ currentGen'[s] = 1 /\ \A t \in Sessions \ {s} : currentGen'[t] = currentGen[t]
      BY <2>1, ZenonT(30) DEF Base, IInv, TypeOK, GenerationsReserved
    <2>4. \A x \in Allocs : x[1] = s => desired[x] = "none"
      BY <2>3, AllocParts, SMTT(30) DEF Base, Rows
    <2>5. sessState'[s] = "queued" /\ \A t \in Sessions \ {s} : sessState'[t] = sessState[t]
      BY <2>1 DEF Base, IInv, TypeOK
    <2>6. JournalStep(a)
      <3>1. events[a] = <<>> /\ outcome[a] = "none"
        BY <2>2, <2>4 DEF Linked, Link, Verdicts
      <3>2. /\ events'[a] = << <<"allocation_reserved">> >> /\ desired'[a] = "active"
            /\ observed'[a] = "unknown" /\ outcome'[a] = "none"
        BY <2>1, <2>2, <3>1 DEF Base, IInv, TypeOK
      <3>3. events'[a] = EnsureEvent(<<>>, "allocation_reserved")
        BY <3>2, EmptyJournal DEF EnsureEvent
      <3>4. "allocation_reserved" \in EventTypes \ KeyedTypes
        BY DEF EventTypes, KeyedTypes
      <3>5. Grown(<<>>, events'[a], {"allocation_reserved"})
        BY <3>3, <3>4, EmptyJournal, <1>CleanEnsured
      <3>6. \A t \in TerminalTypes \cup {"ready", "destroyed"} : ~Has(events'[a], t)
        BY <3>5, EmptyJournal DEF Grown, TerminalTypes, EventTypes
      <3>7. Link(a)'
        BY <2>2, <2>5, <3>2, <3>6 DEF Link, Clean, DestroyOutcomes
      <3>8. QED
        BY <3>1, <3>5, <3>7 DEF JournalStep, Grown
    <2>7. ASSUME NEW x \in Allocs \ {a} PROVE JournalStep(x)
      <3>1. events'[x] = events[x] /\ desired'[x] = desired[x] /\ outcome'[x] = outcome[x]
            /\ observed'[x] = observed[x]
        BY <2>1 DEF Base, IInv, TypeOK
      <3>2. SameSession(x)
        <4>1. CASE x[1] = s
          BY <2>2, <2>3, <2>4, <4>1, AllocParts, SMTT(30) DEF SameSession, IsCurrent
        <4>2. CASE x[1] # s
          BY <2>3, <2>5, <4>2, AllocParts DEF SameSession, IsCurrent
        <4>3. QED
          BY <4>1, <4>2
      <3>3. QED
        BY <3>1, <3>2, <1>UntouchedTold DEF Base, IInv
    <2>8. QED
      BY <2>6, <2>7 DEF Told
  <1>ReserveResetTold. ASSUME Base, Verdicts, Linked, NEW s \in Sessions, ReserveReset(s)
                       PROVE  Told
    <2> USE <1>ReserveResetTold
    <2> PICK a : a = <<s, currentGen[s]>>
      OBVIOUS
    <2> PICK b : b = <<s, currentGen[s] + 1>>
      OBVIOUS
    <2>1. /\ currentGen[s] \in 1..(MaxGen - 1) /\ desired[a] = "active" /\ observed[a] = "running"
          /\ sessState' = [sessState EXCEPT ![s] = "queued"]
          /\ currentGen' = [currentGen EXCEPT ![s] = @ + 1]
          /\ desired' = [desired EXCEPT ![a] = "absent", ![b] = "active"]
          /\ observed' = [observed EXCEPT ![a] = Deleting(@), ![b] = "unknown"]
          /\ outcome' = [outcome EXCEPT ![a] = FirstOutcome(@, "reset")]
          /\ events' = [events EXCEPT
                ![a] = EnsureEvent(EnsureEvent(@, "reset_requested"), "destroying"),
                ![b] = << <<"allocation_reserved">>, <<"reset_requested">> >>]
      BY DEF ReserveReset, Gradable, Serviceable
    <2>2. /\ a \in Allocs /\ a[1] = s /\ a[2] = currentGen[s]
          /\ b \in Allocs /\ b[1] = s /\ b[2] = currentGen[s] + 1 /\ a # b
      BY <2>1, AllocMade, BoundsAssumption DEF Generations
    <2>3. /\ currentGen[s] \in Nat /\ currentGen'[s] = currentGen[s] + 1
          /\ \A t \in Sessions \ {s} : currentGen'[t] = currentGen[t]
          /\ sessState'[s] = "queued" /\ \A t \in Sessions \ {s} : sessState'[t] = sessState[t]
      BY <2>1, SMTT(30) DEF Base, IInv, TypeOK
    <2>4. JournalStep(a)
      <3>1. /\ events'[a] = EnsureEvent(EnsureEvent(events[a], "reset_requested"), "destroying")
            /\ desired'[a] = "absent" /\ observed'[a] = "deleting"
        BY <2>1, <2>2 DEF Base, IInv, TypeOK, Deleting
      <3>2. events[a] \in Seq(Events) /\ Ordered(events[a]) /\ Clean(events[a])
        BY <2>1, <2>2, JournalTypes DEF Link, Base, IInv
      <3>3. {"reset_requested", "destroying"} \subseteq EventTypes \ (KeyedTypes \cup WorkTypes)
        BY DEF EventTypes, KeyedTypes, WorkTypes
      <3>4. ~Has(events[a], "destroyed")
        BY <3>2 DEF Clean
      <3>5. Grown(events[a], events'[a], {"reset_requested", "destroying"})
        BY <3>1, <3>2, <3>3, <3>4, <1>LateEnsured
      <3>6. ~IsCurrent(a)'
        BY <2>2, <2>3 DEF IsCurrent
      <3>7. QED
        BY <2>2, <3>1, <3>4, <3>5, <3>6, <1>GivenUpTold DEF Base, IInv
    <2>5. JournalStep(b)
      <3>1. desired[b] = "none"
        BY <2>2, <2>3, SMTT(30) DEF Base, Rows
      <3>2. events[b] = <<>> /\ outcome[b] = "none"
        BY <2>2, <3>1 DEF Linked, Link, Verdicts
      <3>3. /\ events'[b] = << <<"allocation_reserved">>, <<"reset_requested">> >>
            /\ desired'[b] = "active" /\ observed'[b] = "unknown" /\ outcome'[b] = "none"
        BY <2>1, <2>2, <3>2 DEF Base, IInv, TypeOK
      <3>4. /\ <<"allocation_reserved">> \in Events /\ <<"reset_requested">> \in Events
            /\ <<"allocation_reserved">> # <<"reset_requested">>
        BY <1>SingletonEvent DEF EventTypes
      <3>5. {"allocation_reserved", "reset_requested"}
               \cap (WorkTypes \cup TerminalTypes \cup {"destroyed"}) = {}
        BY DEF WorkTypes, TerminalTypes
      <3>6. <<"allocation_reserved">>[1] = "allocation_reserved" /\ <<"reset_requested">>[1] = "reset_requested"
        OBVIOUS
      <3>8. Grown(<<>>, events'[b], {"allocation_reserved", "reset_requested"})
        BY <3>3, <3>4, <3>5, <3>6, <1>PairJournal, SMTT(30)
      <3>9. \A t \in TerminalTypes \cup {"ready", "destroyed"} : ~Has(events'[b], t)
        BY <3>8, EmptyJournal DEF Grown, TerminalTypes, EventTypes
      <3>10. Link(b)'
        BY <2>2, <2>3, <3>3, <3>9 DEF Link, Clean, DestroyOutcomes
      <3>11. QED
        BY <3>2, <3>8, <3>10 DEF JournalStep, Grown
    <2>6. ASSUME NEW x \in Allocs \ {a, b} PROVE JournalStep(x)
      <3>1. events'[x] = events[x] /\ desired'[x] = desired[x] /\ outcome'[x] = outcome[x]
            /\ observed'[x] = observed[x]
        BY <2>1 DEF Base, IInv, TypeOK
      <3>2. SameSession(x)
        <4>1. CASE x[1] = s
          <5>1. ~IsCurrent(x) /\ ~IsCurrent(x)'
            BY <2>2, <2>3, <4>1, AllocParts, SMTT(30) DEF IsCurrent
          <5>2. QED
            BY <5>1 DEF SameSession, Base, Rows
        <4>2. CASE x[1] # s
          BY <2>3, <4>2, AllocParts DEF SameSession, IsCurrent
        <4>3. QED
          BY <4>1, <4>2
      <3>3. QED
        BY <3>1, <3>2, <1>UntouchedTold DEF Base, IInv
    <2>7. QED
      BY <2>4, <2>5, <2>6 DEF Told
  <1>CreateSucceededTold. ASSUME Base, Linked, NEW a \in Allocs, NEW token, MarkClaimedCreateSucceeded(a, token)
                          PROVE  Told
    <2> USE <1>CreateSucceededTold
    <2>1. /\ desired[a] = "active"
          /\ observed' = [observed EXCEPT ![a] = IF @ = "unknown" THEN "provisioning" ELSE @]
          /\ sessState' = [sessState EXCEPT ![a[1]] = IF @ = "queued" THEN "booting" ELSE @]
          /\ events' = [events EXCEPT ![a] = EnsureEvent(@, "vm_created")]
          /\ UNCHANGED <<currentGen, desired, outcome>> /\ IsCurrent(a)
      BY DEF MarkClaimedCreateSucceeded, Serviceable
    <2>2. /\ events'[a] = EnsureEvent(events[a], "vm_created")
          /\ observed'[a] = "absent" <=> observed[a] = "absent"
          /\ sessState'[a[1]] \in {"ready", "verifying"} <=> sessState[a[1]] \in {"ready", "verifying"}
          /\ sessState[a[1]] = "destroyed" => sessState'[a[1]] = "destroyed"
      BY <2>1, AllocParts DEF Base, IInv, TypeOK
    <2>3. events[a] \in Seq(Events) /\ Ordered(events[a]) /\ Clean(events[a])
      BY <2>1, JournalTypes DEF Link, Base, IInv
    <2>4. "vm_created" \in EventTypes \ KeyedTypes
      BY DEF EventTypes, KeyedTypes
    <2>5. Grown(events[a], events'[a], {"vm_created"})
      BY <2>2, <2>3, <2>4, <1>CleanEnsured
    <2>6. JournalStep(a)
      BY <2>1, <2>2, <2>5, <1>KeptTold DEF SameSession, IsCurrent, TerminalTypes, Base, IInv
    <2>7. \A x \in Allocs \ {a} : events'[x] = events[x] /\ desired'[x] = desired[x]
                                  /\ outcome'[x] = outcome[x] /\ observed'[x] = observed[x]
      BY <2>1 DEF Base, IInv, TypeOK
    <2>8. \A t \in Sessions : t # a[1] => sessState'[t] = sessState[t]
      BY <2>1 DEF Base, IInv, TypeOK
    <2>9. QED
      BY <2>1, <2>6, <2>7, <2>8, <1>OneTold
  <1>CreateFailedTold. ASSUME Base, Verdicts, Linked, NEW a \in Allocs, NEW token, MarkClaimedCreateFailed(a, token)
                       PROVE  Told
    <2> USE <1>CreateFailedTold
    <2>1. /\ desired[a] = "active" /\ IsCurrent(a)
          /\ desired' = [desired EXCEPT ![a] = "absent"]
          /\ observed' = [observed EXCEPT ![a] = "error"]
          /\ sessState' = [sessState EXCEPT ![a[1]] = "failed"]
          /\ events' = [events EXCEPT ![a] =
                          EnsureEvent(EnsureEvent(@, "failed"), "cleanup_required")]
          /\ UNCHANGED <<currentGen, outcome>>
      BY DEF MarkClaimedCreateFailed, Serviceable
    <2>2. /\ events'[a] = EnsureEvent(EnsureEvent(events[a], "failed"), "cleanup_required")
          /\ desired'[a] = "absent" /\ observed'[a] = "error"
      BY <2>1 DEF Base, IInv, TypeOK
    <2>3. events[a] \in Seq(Events) /\ Ordered(events[a]) /\ ~Has(events[a], "destroyed")
      BY <2>1, JournalTypes DEF Link, Base, IInv, Clean
    <2>4. {"failed", "cleanup_required"} \subseteq EventTypes \ (KeyedTypes \cup WorkTypes)
      BY DEF EventTypes, KeyedTypes, WorkTypes
    <2>5. Grown(events[a], events'[a], {"failed", "cleanup_required"})
      BY <2>2, <2>3, <2>4, <1>LateEnsured
    <2>6. outcome'[a] = "none"
      BY <2>1 DEF Verdicts
    <2>7. JournalStep(a)
      BY <2>2, <2>3, <2>5, <2>6, <1>GivenUpTold DEF DestroyOutcomes, Base, IInv
    <2>8. \A x \in Allocs \ {a} : events'[x] = events[x] /\ desired'[x] = desired[x]
                                  /\ outcome'[x] = outcome[x] /\ observed'[x] = observed[x]
      BY <2>1 DEF Base, IInv, TypeOK
    <2>9. \A t \in Sessions : t # a[1] => sessState'[t] = sessState[t]
      BY <2>1 DEF Base, IInv, TypeOK
    <2>10. QED
      BY <2>1, <2>7, <2>8, <2>9, <1>OneTold, ZenonT(30)
  <1>SettingUpTold. ASSUME Base, Linked, NEW a \in Allocs, MarkSettingUp(a)
                    PROVE  Told
    <2> USE <1>SettingUpTold
    <2>1. /\ desired[a] = "active" /\ IsCurrent(a)
          /\ SetupReplayable(a)
          /\ sessState[a[1]] \in {"booting", "setting_up", "ready", "verifying"}
          /\ sessState' = [sessState EXCEPT ![a[1]] = IF SetupAdvanced(a) THEN @ ELSE "setting_up"]
          /\ events' = [events EXCEPT ![a] = EnsureEvent(@, "setup_running")]
          /\ UNCHANGED <<currentGen, desired, observed, outcome>>
      BY DEF MarkSettingUp, Serviceable, allocVars
    <2>2. /\ events'[a] = EnsureEvent(events[a], "setup_running")
          /\ sessState'[a[1]] \in {"ready", "verifying"} <=> sessState[a[1]] \in {"ready", "verifying"}
          /\ sessState[a[1]] # "destroyed"
      BY <2>1, AllocParts, ZenonT(30) DEF Base, IInv, TypeOK, SetupAdvanced
    <2>3. events[a] \in Seq(Events) /\ Ordered(events[a]) /\ Link(a)
      BY JournalTypes DEF Base, IInv
    <2>4. ~Has(events[a], "ready") \/ Has(events[a], "setup_running")
      BY <2>1, <2>3 DEF Link, SetupReplayable, SetupAdvanced
    <2>5. "setup_running" \in EventTypes \ KeyedTypes
      BY DEF EventTypes, KeyedTypes
    <2>6. Clean(events[a])
      BY <2>1, <2>3 DEF Link
    <2>7. Grown(events[a], events'[a], {"setup_running"})
      BY <2>2, <2>3, <2>4, <2>5, <2>6, <1>CleanEnsured
    <2>8. SameSession(a)
      BY <2>1, <2>2 DEF SameSession, IsCurrent
    <2>9. JournalStep(a)
      BY <2>1, <2>7, <2>8, <1>KeptTold DEF TerminalTypes, Base, IInv
    <2>10. \A x \in Allocs \ {a} : events'[x] = events[x] /\ desired'[x] = desired[x]
                                   /\ outcome'[x] = outcome[x] /\ observed'[x] = observed[x]
      BY <2>1 DEF Base, IInv, TypeOK
    <2>11. \A t \in Sessions : t # a[1] => sessState'[t] = sessState[t]
      BY <2>1 DEF Base, IInv, TypeOK
    <2>12. QED
      BY <2>1, <2>9, <2>10, <2>11, <1>OneTold
  <1>ReadyTold. ASSUME Base, Verdicts, Linked, NEW a \in Allocs, MarkReady(a)
                PROVE  Told
    <2> USE <1>ReadyTold
    <2>1. /\ desired[a] = "active" /\ IsCurrent(a)
          /\ sessState' = [sessState EXCEPT ![a[1]] = "ready"]
          /\ observed' = [observed EXCEPT ![a] = "running"]
          /\ events' = [events EXCEPT ![a] = EnsureEvent(@, "ready")]
          /\ UNCHANGED <<currentGen, desired, outcome>>
      BY DEF MarkReady, Serviceable
    <2>2. /\ events'[a] = EnsureEvent(events[a], "ready") /\ observed'[a] = "running"
          /\ sessState'[a[1]] = "ready" /\ desired'[a] = "active"
      BY <2>1, AllocParts, ZenonT(30) DEF Base, IInv, TypeOK
    <2>3. events[a] \in Seq(Events) /\ Ordered(events[a]) /\ Clean(events[a])
      BY <2>1, JournalTypes DEF Link, Base, IInv
    <2>4. "ready" \in EventTypes \ KeyedTypes
      BY DEF EventTypes, KeyedTypes
    <2>5. Grown(events[a], events'[a], {"ready"})
      BY <2>2, <2>3, <2>4, <1>CleanEnsured
    <2>6. Clean(events'[a]) /\ Has(events'[a], "ready")
      BY <2>3, <2>5 DEF Clean, Grown, TerminalTypes, EventTypes
    <2>7. outcome'[a] = "none"
      BY <2>1 DEF Verdicts
    <2>8. Link(a)'
      BY <2>2, <2>6, <2>7 DEF Link, Clean, DestroyOutcomes
    <2>9. JournalStep(a)
      BY <2>5, <2>8 DEF JournalStep, Grown
    <2>10. \A x \in Allocs \ {a} : events'[x] = events[x] /\ desired'[x] = desired[x]
                                   /\ outcome'[x] = outcome[x] /\ observed'[x] = observed[x]
      BY <2>1 DEF Base, IInv, TypeOK
    <2>11. \A t \in Sessions : t # a[1] => sessState'[t] = sessState[t]
      BY <2>1 DEF Base, IInv, TypeOK
    <2>12. QED
      BY <2>1, <2>9, <2>10, <2>11, <1>OneTold, ZenonT(30)
  <1>CreateTold. ASSUME Base, Verdicts, Linked, NEW a \in Allocs, Create(a)
                 PROVE  Told
    <2> USE <1>CreateTold
    <2>1. CASE ClaimProvisionableCreate(a) \/ CreateLeaseExpires(a)
      BY <2>1, <1>QuietTold DEF ClaimProvisionableCreate, CreateLeaseExpires, sessVars, allocVars,
         journalVars
    <2>2. QED
      BY <2>1, <1>CreateSucceededTold, <1>CreateFailedTold, <1>SettingUpTold, <1>ReadyTold,
         ZenonT(30) DEF Create
  \* An allocation whose absence is proven and that no reason was recorded for is
  \* the current one of a session that is over, so no reason comes late.
  <1>RequestDestroyTold. ASSUME Base, Verdicts, Linked, NEW a \in Allocs, NEW o \in DestroyOutcomes, RequestDestroy(a, o)
                         PROVE  Told
    <2> USE <1>RequestDestroyTold
    <2>1. /\ desired[a] # "none" /\ OutcomeAcceptable(a, o)
          /\ sessState' = [sessState EXCEPT ![a[1]] =
                             IF IsCurrent(a) /\ outcome[a] = "none" THEN o ELSE @]
          /\ desired' = [desired EXCEPT ![a] = "absent"]
          /\ observed' = [observed EXCEPT ![a] = IF desired[a] = "absent" THEN @ ELSE Deleting(@)]
          /\ events' = [events EXCEPT ![a] =
                EnsureEvent(IF IsCurrent(a) THEN EnsureEvent(@, o) ELSE @, "destroying")]
          /\ outcome' = [outcome EXCEPT ![a] = FirstOutcome(@, o)]
          /\ UNCHANGED currentGen
      BY DEF RequestDestroy
    <2>2. /\ desired'[a] = "absent" /\ outcome'[a] = FirstOutcome(outcome[a], o)
          /\ sessState'[a[1]] = IF IsCurrent(a) /\ outcome[a] = "none" THEN o ELSE sessState[a[1]]
          /\ observed'[a] = IF desired[a] = "absent" THEN observed[a] ELSE Deleting(observed[a])
          /\ events'[a] = EnsureEvent(IF IsCurrent(a) THEN EnsureEvent(events[a], o) ELSE events[a],
                                      "destroying")
          /\ desired[a] \in {"active", "absent"}
      <3>1. /\ a[1] \in Sessions /\ DOMAIN desired = Allocs /\ DOMAIN outcome = Allocs
            /\ DOMAIN sessState = Sessions /\ DOMAIN observed = Allocs /\ DOMAIN events = Allocs
            /\ desired[a] \in {"none", "active", "absent"}
        BY AllocParts DEF Base, IInv, TypeOK
      <3>2. desired'[a] = "absent" /\ outcome'[a] = FirstOutcome(outcome[a], o)
        BY <2>1, <3>1
      <3>3. sessState'[a[1]] = IF IsCurrent(a) /\ outcome[a] = "none" THEN o ELSE sessState[a[1]]
        BY <2>1, <3>1
      <3>4. observed'[a] = IF desired[a] = "absent" THEN observed[a] ELSE Deleting(observed[a])
        BY <2>1, <3>1
      <3>5. events'[a] = EnsureEvent(IF IsCurrent(a) THEN EnsureEvent(events[a], o) ELSE events[a],
                                     "destroying")
        BY <2>1, <3>1
      <3>6. QED
        BY <2>1, <3>1, <3>2, <3>3, <3>4, <3>5, ZenonT(30)
    <2>3. IsCurrent(a)' <=> IsCurrent(a)
      BY <2>1 DEF IsCurrent
    <2>4. outcome'[a] = o /\ outcome[a] \in {"none", o}
      BY <2>1, <2>2 DEF OutcomeAcceptable, FirstOutcome
    <2>5. events[a] \in Seq(Events) /\ Ordered(events[a]) /\ Link(a)
      BY JournalTypes DEF Base, IInv
    <2>6. observed'[a] = "absent" <=> observed[a] = "absent"
      BY <2>2 DEF Deleting
    <2>7. observed[a] = "absent" => outcome[a] # "none"
      <3>1. CASE IsCurrent(a)
        <4>1. outcome[a] = "none" => sessState[a[1]] \in ActiveStates \cup {o}
          BY <2>1, <3>1 DEF OutcomeAcceptable
        <4>2. "destroyed" \notin ActiveStates \cup DestroyOutcomes
          BY DEF ActiveStates, DestroyOutcomes
        <4>3. QED
          BY <2>5, <3>1, <4>1, <4>2 DEF Link
      <3>2. CASE ~IsCurrent(a)
        <4>1. desired[a] = "absent"
          BY <2>2, <3>2 DEF Base, Rows
        <4>2. QED
          BY <3>2, <4>1 DEF Verdicts
      <3>3. QED
        BY <3>1, <3>2
    <2>8. Has(events[a], "destroyed") =>
             Has(events[a], "destroying") /\ (IsCurrent(a) => Has(events[a], o))
      BY <2>4, <2>5, <2>7 DEF Link
    <2>9. o \in EventTypes \ (KeyedTypes \cup WorkTypes) /\ o # "destroyed"
          /\ "destroying" \in EventTypes \ (KeyedTypes \cup WorkTypes)
          /\ "setup_running" \in WorkTypes
      BY DEF DestroyOutcomes, EventTypes, KeyedTypes, WorkTypes
    <2>10. CASE IsCurrent(a)
      <3>1. events'[a] = EnsureEvent(EnsureEvent(events[a], o), "destroying")
        BY <2>2, <2>10
      <3>2. Grown(events[a], events'[a], {o, "destroying"})
        BY <2>5, <2>8, <2>9, <2>10, <3>1, <1>LateEnsured, ZenonT(30)
      <3>3. observed'[a] = "absent" => sessState'[a[1]] = "destroyed"
        BY <2>2, <2>5, <2>6, <2>7, <2>10, ZenonT(30) DEF Link
      <3>4. Has(events[a], "destroyed") => observed'[a] = "absent"
        BY <2>5, <2>6 DEF Link
      <3>5. JournalStep(a)
        BY <2>2, <2>4, <2>9, <3>2, <3>3, <3>4, <1>GivenUpTold, ZenonT(30) DEF Base, IInv
      <3>6. \A x \in Allocs \ {a} : events'[x] = events[x] /\ desired'[x] = desired[x]
                                    /\ outcome'[x] = outcome[x] /\ observed'[x] = observed[x]
        BY <2>1, ZenonT(30) DEF Base, IInv, TypeOK
      <3>7. \A t \in Sessions : t # a[1] => sessState'[t] = sessState[t]
        BY <2>1 DEF Base, IInv, TypeOK
      <3>8. QED
        BY <2>1, <2>10, <3>5, <3>6, <3>7, <1>OneTold, ZenonT(30)
    <2>11. CASE ~IsCurrent(a)
      <3>1. events'[a] = EnsureEvent(events[a], "destroying")
        BY <2>2, <2>11
      <3>2. Grown(events[a], events'[a], {"destroying"})
        BY <2>5, <2>8, <2>9, <3>1, <1>EnsureGrown, ZenonT(30)
      <3>4. Has(events[a], "destroyed") => observed'[a] = "absent"
        BY <2>5, <2>6 DEF Link
      <3>5. JournalStep(a)
        BY <2>2, <2>3, <2>11, <3>2, <3>4, <1>GivenUpTold, ZenonT(30) DEF Base, IInv
      <3>6. \A x \in Allocs \ {a} : events'[x] = events[x] /\ desired'[x] = desired[x]
                                    /\ outcome'[x] = outcome[x] /\ observed'[x] = observed[x]
        BY <2>1 DEF Base, IInv, TypeOK
      <3>7. sessState' = sessState
        BY <2>1, <2>11 DEF Base, IInv, TypeOK
      <3>8. QED
        BY <2>1, <3>5, <3>6, <3>7, <1>OneTold
    <2>12. QED
      BY <2>10, <2>11
  <1>RetryDestroyTold. ASSUME Base, Linked, NEW a \in Allocs, NEW token, RetryDestroyWork(a, token)
                       PROVE  Told
    <2> USE <1>RetryDestroyTold
    <2>1. /\ destroyOp[a] = "running"
          /\ events' = [events EXCEPT ![a] = EnsureEvent(@, "cleanup_required")]
          /\ UNCHANGED <<sessState, currentGen, desired, observed, outcome>>
      BY DEF RetryDestroyWork, HoldsLease, sessVars, allocVars
    <2>2. desired[a] = "absent" /\ observed[a] # "absent"
      BY <2>1 DEF Base, IInv, CleanupNeverLost, Unfinished
    <2>3. events[a] \in Seq(Events) /\ Ordered(events[a]) /\ ~Has(events[a], "destroyed")
      BY <2>2, JournalTypes DEF Base, IInv, Link
    <2>4. "cleanup_required" \in EventTypes \ (KeyedTypes \cup WorkTypes) /\ "setup_running" \in WorkTypes
      BY DEF EventTypes, KeyedTypes, WorkTypes
    <2>5. events'[a] = EnsureEvent(events[a], "cleanup_required")
      BY <2>1 DEF Base, IInv, TypeOK
    <2>6. Grown(events[a], events'[a], {"cleanup_required"})
      BY <2>3, <2>4, <2>5, <1>EnsureGrown
    <2>7. SameSession(a)
      BY <2>1 DEF SameSession, IsCurrent
    <2>8. JournalStep(a)
      BY <2>1, <2>2, <2>6, <2>7, <1>KeptTold DEF TerminalTypes, Base, IInv
    <2>9. \A x \in Allocs \ {a} : events'[x] = events[x]
      BY <2>1 DEF Base, IInv, TypeOK
    <2>10. QED
      BY <2>1, <2>8, <2>9, <1>OneTold
  <1>EnsureDestroyed. ASSUME NEW es \in Seq(Events), Ordered(es)
                      PROVE  Grown(es, EnsureEvent(es, "destroyed"), {"destroyed"})
    <2> USE <1>EnsureDestroyed
    <2>1. "destroyed" \in EventTypes \ KeyedTypes /\ "destroyed" \notin WorkTypes
      BY DEF EventTypes, KeyedTypes, WorkTypes
    <2>2. QED
      BY <2>1, <1>EnsureGrown
  <1>DestroyedTold. ASSUME Base, Linked, NEW a \in Allocs, NEW token, MarkClaimedDestroyed(a, token)
                    PROVE  Told
    <2> USE <1>DestroyedTold
    <2> PICK cur : cur = <<a[1], currentGen[a[1]]>>
      OBVIOUS
    <2>1. /\ desired[a] = "absent"
          /\ observed' = [observed EXCEPT ![a] = "absent"]
          /\ sessState' = [sessState EXCEPT ![a[1]] = IF IsCurrent(a) THEN "destroyed" ELSE @]
          /\ events' = DestroyedEvents(a)
          /\ UNCHANGED <<currentGen, desired, outcome>>
      BY DEF MarkClaimedDestroyed
    <2>2. /\ cur \in Allocs /\ cur[1] = a[1] /\ cur[2] = currentGen[a[1]] /\ desired[cur] # "none"
          /\ IsCurrent(a) <=> cur = a
      <3>1. a[1] \in Sessions /\ a[2] \in 1..MaxGen /\ currentGen[a[1]] \in 0..MaxGen /\ a = <<a[1], a[2]>>
        BY AllocParts DEF Base, IInv, TypeOK, Generations
      <3>2. a[2] <= currentGen[a[1]]
        BY <2>1, <3>1, BoundsAssumption, SMTT(30) DEF Base, Rows
      <3>3. cur \in Allocs /\ cur[1] = a[1] /\ cur[2] = currentGen[a[1]]
        BY <3>1, <3>2, AllocMade, BoundsAssumption, SMTT(30) DEF Generations
      <3>4. desired[cur] # "none"
        BY <3>1, <3>3, BoundsAssumption, SMTT(30) DEF Base, Rows
      <3>5. QED
        BY <3>1, <3>3, <3>4 DEF IsCurrent
    <2>3. /\ events'[a] = EnsureEvent(events[a], "destroyed") /\ observed'[a] = "absent"
          /\ IsCurrent(a) => sessState'[a[1]] = "destroyed"
      <3>1. observed'[a] = "absent" /\ (IsCurrent(a) => sessState'[a[1]] = "destroyed")
        BY <2>1, AllocParts DEF Base, IInv, TypeOK
      <3>2. CASE cur = a
        BY <2>1, <2>2, <3>1, <3>2, ZenonT(30) DEF DestroyedEvents, Base, IInv, TypeOK
      <3>3. CASE cur # a
        BY <2>1, <2>2, <3>1, <3>3, ZenonT(30) DEF DestroyedEvents, Base, IInv, TypeOK
      <3>4. QED
        BY <3>2, <3>3
    <2>4. events[a] \in Seq(Events) /\ Ordered(events[a])
      BY JournalTypes DEF Base, IInv
    <2>5. Grown(events[a], events'[a], {"destroyed"})
      BY <2>3, <2>4, <1>EnsureDestroyed
    <2>6. JournalStep(a)
      BY <2>1, <2>3, <2>5, <1>GivenUpTold DEF Base, IInv, IsCurrent
    <2>7. CASE IsCurrent(a)
      <3>1. \A x \in Allocs \ {a} : events'[x] = events[x] /\ observed'[x] = observed[x]
        BY <2>1, <2>7 DEF DestroyedEvents, Base, IInv, TypeOK
      <3>2. \A t \in Sessions : t # a[1] => sessState'[t] = sessState[t]
        BY <2>1 DEF Base, IInv, TypeOK
      <3>3. QED
        BY <2>1, <2>6, <2>7, <3>1, <3>2, <1>OneTold, ZenonT(30)
    <2>8. CASE ~IsCurrent(a)
      <3>1. sessState' = sessState
        BY <2>1, <2>8 DEF Base, IInv, TypeOK
      <3>2. /\ events'[cur] = EnsureKeyedEvent(events[cur], "predecessor_destroyed", a[2])
            /\ \A x \in Allocs \ {a, cur} : events'[x] = events[x]
            /\ \A x \in Allocs \ {a} : observed'[x] = observed[x]
        BY <2>1, <2>2, <2>8 DEF DestroyedEvents, Base, IInv, TypeOK
      <3>3. <<"predecessor_destroyed", a[2]>> \in Events
        BY AllocParts DEF Events
      <3>4. events[cur] \in Seq(Events) /\ Ordered(events[cur])
        BY <2>2, JournalTypes DEF Base, IInv
      <3>5. Grown(events[cur], events'[cur], {"predecessor_destroyed"})
        BY <3>2, <3>3, <3>4, <1>EnsureKeyedGrown, ZenonT(30) DEF KeyedTypes
      <3>6. \A x \in Allocs : SameSession(x)
        BY <2>1, <3>1 DEF SameSession, IsCurrent
      <3>7. JournalStep(cur)
        BY <2>1, <2>2, <2>8, <3>2, <3>5, <3>6, <1>KeptTold, SMTT(30) DEF TerminalTypes, Base, IInv
      <3>8. \A x \in Allocs \ {a, cur} : JournalStep(x)
        BY <2>1, <3>2, <3>6, <1>UntouchedTold DEF Base, IInv
      <3>9. QED
        BY <2>6, <3>7, <3>8 DEF Told
    <2>9. QED
      BY <2>7, <2>8
  <1>ConvergeTold. ASSUME Base, Linked, NEW a \in Allocs, ConvergeLocalRestart(a)
                   PROVE  Told
    <2> USE <1>ConvergeTold
    <2> PICK caused : caused = (IsCurrent(a) /\ attempt[a] = "in_progress")
      OBVIOUS
    <2>1. /\ desired' = [desired EXCEPT ![a] = "absent"]
          /\ observed' = [observed EXCEPT ![a] = "absent"]
          /\ sessState' = [sessState EXCEPT ![a[1]] = IF IsCurrent(a) THEN "destroyed" ELSE @]
          /\ events' = [events EXCEPT ![a] =
                EnsureEvent(IF caused THEN EnsureEvent(events[a], "failed") ELSE events[a], "destroyed")]
          /\ UNCHANGED <<currentGen, outcome>>
      BY DEF ConvergeLocalRestart
    <2>2. /\ desired'[a] = "absent" /\ observed'[a] = "absent"
          /\ IsCurrent(a) => sessState'[a[1]] = "destroyed"
          /\ events'[a] =
                EnsureEvent(IF caused THEN EnsureEvent(events[a], "failed") ELSE events[a], "destroyed")
      BY <2>1, AllocParts, SMTT(30) DEF Base, IInv, TypeOK
    <2>3. events[a] \in Seq(Events) /\ Ordered(events[a]) /\ Link(a)
      BY JournalTypes DEF Base, IInv
    <2>4. \E T \in {{"destroyed"}, {"failed", "destroyed"}} : Grown(events[a], events'[a], T)
      <3>1. CASE caused
        <4>1. ~Has(events[a], "destroyed")
          BY <2>3, <3>1 DEF Link, Clean, Base, Rows
        <4>2. {"failed", "destroyed"} \subseteq EventTypes \ (KeyedTypes \cup WorkTypes)
          BY DEF EventTypes, KeyedTypes, WorkTypes
        <4>3. events'[a] = EnsureEvent(EnsureEvent(events[a], "failed"), "destroyed")
          BY <2>2, <3>1
        <4>4. Grown(events[a], events'[a], {"failed", "destroyed"})
          BY <2>3, <4>1, <4>2, <4>3, <1>LateEnsured
        <4>5. QED
          BY <4>4
      <3>2. CASE ~caused
        <4>1. Grown(events[a], events'[a], {"destroyed"})
          BY <2>2, <2>3, <3>2, <1>EnsureDestroyed
        <4>2. QED
          BY <4>1
      <3>3. QED
        BY <3>1, <3>2
    <2>5. PICK T : Grown(events[a], events'[a], T)
      BY <2>4
    <2>6. JournalStep(a)
      BY <2>1, <2>2, <2>5, <1>GivenUpTold DEF Base, IInv, IsCurrent
    <2>7. \A x \in Allocs \ {a} : events'[x] = events[x] /\ desired'[x] = desired[x]
                                  /\ outcome'[x] = outcome[x] /\ observed'[x] = observed[x]
      BY <2>1 DEF Base, IInv, TypeOK
    <2>8. \A t \in Sessions : t # a[1] \/ ~IsCurrent(a) => sessState'[t] = sessState[t]
      BY <2>1 DEF Base, IInv, TypeOK
    <2>9. QED
      BY <2>1, <2>6, <2>7, <2>8, <1>OneTold, ZenonT(30)
  <1>DestroyTold. ASSUME Base, Verdicts, Linked, NEW a \in Allocs, Destroy(a)
                  PROVE  Told
    <2> USE <1>DestroyTold
    <2>1. CASE ClaimDestroyWork(a) \/ DestroyLeaseExpires(a)
      BY <2>1, <1>QuietTold DEF ClaimDestroyWork, DestroyLeaseExpires, sessVars, allocVars, journalVars
    <2>2. QED
      BY <2>1, <1>RequestDestroyTold, <1>RetryDestroyTold, <1>DestroyedTold, <1>ConvergeTold,
         ZenonT(30) DEF Destroy
  \* A running verification has been announced in its journal, and what a journal
  \* contains it keeps.
  <1>KeptEvents. ASSUME Told, NEW x \in Allocs, NEW e, Contains(events[x], e)
                 PROVE  Contains(events'[x], e)
    <2> USE <1>KeptEvents
    <2>1. PICK i \in 1..Len(events[x]) : events[x][i] = e
      BY DEF Contains
    <2>2. i <= Len(events'[x]) /\ events'[x][i] = e
      BY <2>1 DEF Told, JournalStep, Extends
    <2>3. i \in 1..Len(events'[x])
      BY <2>1, <2>2
    <2>4. QED
      BY <2>2, <2>3 DEF Contains
  \* The journal of a graded allocation, before a passing grade gives it up.
  <1>FinishedGrown. ASSUME NEW es \in Seq(Events), Ordered(es), Clean(es), NEW k \in ClientOps,
                           Contains(es, <<"verify_started", k>>), NEW result \in Results
                    PROVE  Grown(es, FinishedEvents(es, k, result),
                                 IF result = "passed" THEN {"verify_finished", "destroying"}
                                 ELSE {"verify_finished"})
    <2> USE <1>FinishedGrown
    <2> PICK fs : fs = EnsureKeyedEvent(es, "verify_finished", k)
      OBVIOUS
    <2>1. <<"verify_finished", k>> \in Events
      BY DEF Events
    <2>2. Grown(es, fs, {"verify_finished"})
      BY <2>1, <1>EnsureKeyedGrown DEF KeyedTypes, Clean, Contains
    <2>3. CASE result # "passed"
      BY <2>2, <2>3 DEF FinishedEvents
    <2>4. CASE result = "passed"
      <3>1. fs \in Seq(Events) /\ Ordered(fs) /\ ~Has(fs, "destroyed")
        BY <2>2 DEF Grown, Clean, EventTypes
      <3>2. "destroying" \in EventTypes \ (KeyedTypes \cup WorkTypes) /\ "setup_running" \in WorkTypes
        BY DEF EventTypes, KeyedTypes, WorkTypes
      <3>3. Grown(fs, EnsureEvent(fs, "destroying"), {"destroying"})
        BY <3>1, <3>2, <1>EnsureGrown
      <3>4. {"verify_finished"} \cup {"destroying"} = {"verify_finished", "destroying"}
        OBVIOUS
      <3>5. Grown(es, EnsureEvent(fs, "destroying"), {"verify_finished", "destroying"})
        BY <2>2, <3>3, <3>4, <1>GrownTwice, SMTT(30)
      <3>6. QED
        BY <2>4, <3>5 DEF FinishedEvents
    <2>5. QED
      BY <2>3, <2>4
  <1>StartedGrown. ASSUME NEW es \in Seq(Events), Ordered(es), Clean(es), Has(es, "ready"), NEW k \in ClientOps
                   PROVE  /\ Grown(es, EnsureKeyedEvent(es, "verify_started", k), {"verify_started"})
                          /\ Contains(EnsureKeyedEvent(es, "verify_started", k), <<"verify_started", k>>)
    <2> USE <1>StartedGrown
    <2>1. <<"verify_started", k>> \in Events
      BY DEF Events
    <2>2. QED
      BY <2>1, <1>EnsureKeyedGrown DEF KeyedTypes, Clean, Contains
  \* A grade keeps the allocation or gives it up.
  <1>GradedTold. ASSUME Base, Linked, NEW a \in Allocs, IsCurrent(a), desired[a] = "active",
                        sessState[a[1]] \in {"ready", "verifying"}, NEW result \in Results,
                        IF result = "passed" THEN GradePassed(a) ELSE GradeNotPassed(a),
                        Verdicts, UNCHANGED currentGen, NEW T, Grown(events[a], events'[a], T),
                        T \subseteq {"verify_started", "verify_finished", "destroying"},
                        "destroying" \in T <=> result = "passed",
                        \A x \in Allocs \ {a} : events'[x] = events[x]
                 PROVE  Told
    <2> USE <1>GradedTold
    <2>1. CASE result = "passed"
      <3>1. /\ sessState' = [sessState EXCEPT ![a[1]] = "completed"]
            /\ desired' = [desired EXCEPT ![a] = "absent"]
            /\ observed' = [observed EXCEPT ![a] = Deleting(@)]
            /\ outcome' = [outcome EXCEPT ![a] = FirstOutcome(@, "completed")]
        BY <2>1 DEF GradePassed
      <3>2. desired'[a] = "absent" /\ outcome'[a] = "completed" /\ observed'[a] = Deleting(observed[a])
        BY <3>1, SMTT(30) DEF Verdicts, FirstOutcome, Base, IInv, TypeOK
      <3>3. observed'[a] # "absent" /\ ~Has(events[a], "destroyed")
        <4>1. observed[a] # "absent"
          BY DEF Base, IInv, CleanupNeverLost, Absent
        <4>2. QED
          BY <3>2, <4>1 DEF Deleting, Linked, Link
      <3>4. JournalStep(a)
        BY <2>1, <3>2, <3>3, <1>GivenUpTold DEF DestroyOutcomes, Base, IInv
      <3>5. \A x \in Allocs \ {a} : desired'[x] = desired[x] /\ outcome'[x] = outcome[x]
                                    /\ observed'[x] = observed[x]
        BY <3>1, SMTT(30) DEF Base, IInv, TypeOK
      <3>6. \A t \in Sessions : t # a[1] => sessState'[t] = sessState[t]
        BY <3>1, ZenonT(30) DEF Base, IInv, TypeOK
      <3>7. QED
        BY <3>4, <3>5, <3>6, <1>OneTold
    <2>2. CASE result # "passed"
      <3>1. /\ sessState' = [sessState EXCEPT ![a[1]] = "ready"]
            /\ UNCHANGED <<desired, observed, outcome>>
        BY <2>2 DEF GradeNotPassed
      <3>2. sessState'[a[1]] = "ready"
        BY <3>1, AllocParts DEF Base, IInv, TypeOK
      <3>3. SameSession(a)
        BY <3>2 DEF SameSession, IsCurrent
      <3>4. T \cap (TerminalTypes \cup {"ready", "destroyed"}) = {}
        BY <2>2 DEF TerminalTypes
      <3>5. JournalStep(a)
        BY <3>1, <3>3, <3>4, <1>KeptTold DEF Base, IInv
      <3>6. \A t \in Sessions : t # a[1] => sessState'[t] = sessState[t]
        BY <3>1, ZenonT(30) DEF Base, IInv, TypeOK
      <3>7. QED
        BY <3>1, <3>5, <3>6, <1>OneTold
    <2>3. QED
      BY <2>1, <2>2
  <1>BeginVerifyTold. ASSUME Base, Verdicts, Linked, NEW k \in ClientOps, NEW a \in Allocs, BeginVerify(k, a)
                      PROVE  Told /\ Contains(events'[a], <<"verify_started", k>>)
    <2> USE <1>BeginVerifyTold
    <2>1. /\ IsCurrent(a) /\ desired[a] = "active" /\ sessState[a[1]] = "ready"
          /\ sessState' = [sessState EXCEPT ![a[1]] = "verifying"]
          /\ events' = [events EXCEPT ![a] = EnsureKeyedEvent(@, "verify_started", k)]
          /\ UNCHANGED <<currentGen, desired, observed, outcome>>
      BY DEF BeginVerify, Gradable, Serviceable, allocVars
    <2>2. events[a] \in Seq(Events) /\ Ordered(events[a]) /\ Clean(events[a]) /\ Has(events[a], "ready")
      BY <2>1, JournalTypes DEF Base, IInv, Link
    <2>3. events'[a] = EnsureKeyedEvent(events[a], "verify_started", k)
          /\ sessState'[a[1]] = "verifying"
      BY <2>1, AllocParts, ZenonT(30) DEF Base, IInv, TypeOK
    <2>4. /\ Grown(events[a], events'[a], {"verify_started"})
          /\ Contains(events'[a], <<"verify_started", k>>)
      BY <2>2, <2>3, <1>StartedGrown
    <2>5. SameSession(a)
      BY <2>1, <2>3 DEF SameSession, IsCurrent
    <2>6. JournalStep(a)
      BY <2>1, <2>4, <2>5, <1>KeptTold DEF TerminalTypes, Base, IInv
    <2>7. \A x \in Allocs \ {a} : events'[x] = events[x]
      BY <2>1 DEF Base, IInv, TypeOK
    <2>8. \A t \in Sessions : t # a[1] => sessState'[t] = sessState[t]
      BY <2>1 DEF Base, IInv, TypeOK
    <2>9. QED
      BY <2>1, <2>4, <2>6, <2>7, <2>8, <1>OneTold
  <1>RecordChoiceTold. ASSUME Base, Verdicts, Linked, NEW k \in ClientOps, NEW a \in Allocs,
                              NEW result \in Results, RecordChoice(k, a, result)
                       PROVE  Told
    <2> USE <1>RecordChoiceTold
    <2> PICK es : es = EnsureKeyedEvent(events[a], "verify_started", k)
      OBVIOUS
    <2>1. /\ IsCurrent(a) /\ desired[a] = "active" /\ sessState[a[1]] = "ready"
          /\ IF result = "passed" THEN GradePassed(a) ELSE GradeNotPassed(a)
          /\ events' = [events EXCEPT ![a] =
                FinishedEvents(EnsureKeyedEvent(@, "verify_started", k), k, result)]
          /\ UNCHANGED currentGen
      BY DEF RecordChoice, Gradable, Serviceable
    <2>2. events[a] \in Seq(Events) /\ Ordered(events[a]) /\ Clean(events[a]) /\ Has(events[a], "ready")
      BY <2>1, JournalTypes DEF Base, IInv, Link
    <2>3. events'[a] = FinishedEvents(es, k, result)
      BY <2>1 DEF Base, IInv, TypeOK
    <2>4. Grown(events[a], es, {"verify_started"}) /\ Contains(es, <<"verify_started", k>>)
      BY <2>2, <1>StartedGrown
    <2>5. es \in Seq(Events) /\ Ordered(es) /\ Clean(es)
      BY <2>2, <2>4 DEF Grown, Clean, TerminalTypes, EventTypes
    <2> PICK F : F = IF result = "passed" THEN {"verify_finished", "destroying"} ELSE {"verify_finished"}
      OBVIOUS
    <2>6. Grown(es, events'[a], F)
      BY <2>3, <2>4, <2>5, <1>FinishedGrown
    <2>7. Grown(events[a], events'[a], {"verify_started"} \cup F)
      BY <2>2, <2>4, <2>6, <1>GrownTwice
    <2>8. /\ {"verify_started"} \cup F \subseteq {"verify_started", "verify_finished", "destroying"}
          /\ "destroying" \in {"verify_started"} \cup F <=> result = "passed"
      OBVIOUS
    <2>9. \A x \in Allocs \ {a} : events'[x] = events[x]
      BY <2>1 DEF Base, IInv, TypeOK
    <2>10. QED
      BY <2>1, <2>7, <2>8, <2>9, <1>GradedTold, ZenonT(30)
  <1>RecordVerifyResultTold. ASSUME Base, Verdicts, Linked, NEW k \in ClientOps, NEW result \in Results,
                                    RecordVerifyResult(k, result)
                             PROVE  Told
    <2> USE <1>RecordVerifyResultTold
    <2> PICK a : a = opAlloc[k]
      OBVIOUS
    <2>1. /\ opState[k] = "running" /\ IsCurrent(a) /\ sessState[a[1]] = "verifying"
          /\ attempt[a] = "in_progress"
          /\ IF result = "passed" THEN GradePassed(a) ELSE GradeNotPassed(a)
          /\ events' = [events EXCEPT ![a] = FinishedEvents(@, k, result)]
          /\ UNCHANGED currentGen
      BY DEF RecordVerifyResult
    <2>2. a \in Allocs /\ desired[a] = "active" /\ Contains(events[a], <<"verify_started", k>>)
      BY <2>1 DEF Base, Grading, Rows, Linked
    <2>3. events[a] \in Seq(Events) /\ Ordered(events[a]) /\ Clean(events[a])
      BY <2>2, JournalTypes DEF Base, IInv, Link
    <2>4. events'[a] = FinishedEvents(events[a], k, result)
      BY <2>1, <2>2 DEF Base, IInv, TypeOK
    <2> PICK F : F = IF result = "passed" THEN {"verify_finished", "destroying"} ELSE {"verify_finished"}
      OBVIOUS
    <2>5. Grown(events[a], events'[a], F)
      BY <2>2, <2>3, <2>4, <1>FinishedGrown
    <2>6. /\ F \subseteq {"verify_started", "verify_finished", "destroying"}
          /\ "destroying" \in F <=> result = "passed"
      OBVIOUS
    <2>7. \A x \in Allocs \ {a} : events'[x] = events[x]
      BY <2>1 DEF Base, IInv, TypeOK
    <2>8. sessState[a[1]] \in {"ready", "verifying"} /\ currentGen' = currentGen
      BY <2>1
    <2>9. IF result = "passed" THEN GradePassed(a) ELSE GradeNotPassed(a)
      BY <2>1
    <2>10. IsCurrent(a)
      BY <2>1
    <2>11. QED
      BY <2>2, <2>5, <2>6, <2>7, <2>8, <2>9, <2>10, <1>GradedTold, ZenonT(30)
  <1>RequestEndTold. ASSUME Base, Verdicts, Linked, NEW k \in ClientOps, NEW s \in Sessions, RequestEnd(k, s)
                     PROVE  Told
    <2> USE <1>RequestEndTold
    <2> PICK cur : cur = <<s, currentGen[s]>>
      OBVIOUS
    <2> PICK A : A = ReservedAllocs(s)
      OBVIOUS
    <2>1. /\ sessDesired[s] = "active"
          /\ sessState' = [sessState EXCEPT ![s] = "failed"]
          /\ desired' = [a \in Allocs |-> IF a \in A THEN "absent" ELSE desired[a]]
          /\ observed' = [a \in Allocs |-> IF a \in A THEN Deleting(observed[a]) ELSE observed[a]]
          /\ outcome' = [a \in Allocs |->
                IF a \in A THEN FirstOutcome(outcome[a], "failed") ELSE outcome[a]]
          /\ events' = [a \in Allocs |->
                CASE a = cur -> EnsureEvent(EnsureEvent(events[a], "failed"), "destroying")
                  [] a \in A \ {cur} -> EnsureEvent(events[a], "destroying")
                  [] OTHER -> events[a]]
          /\ UNCHANGED currentGen
      BY DEF RequestEnd
    <2>2. currentGen[s] \in 1..MaxGen
      <3>1. currentGen[s] \in 0..MaxGen
        BY DEF Base, IInv, TypeOK
      <3>2. currentGen[s] > 0
        BY <2>1 DEF Base, IInv, GenerationsReserved
      <3>3. QED
        BY <3>1, <3>2, BoundsAssumption
    <2>3. cur \in Allocs /\ cur \in A /\ cur[1] = s /\ cur[2] = currentGen[s]
      BY <2>2, AllocMade, BoundsAssumption DEF Generations, ReservedAllocs
    <2>4. \A x \in Allocs : x \in A <=> x[1] = s /\ x[2] <= currentGen[s]
      BY <2>2, AllocParts, BoundsAssumption, SMTT(30) DEF ReservedAllocs
    <2>5. \A x \in Allocs : x[1] = s /\ IsCurrent(x) <=> x = cur
      BY <2>3, AllocParts DEF IsCurrent
    <2>6. \A x \in Allocs : IsCurrent(x)' <=> IsCurrent(x)
      BY <2>1 DEF IsCurrent
    <2>7. \A t \in Sessions \ {s} : sessState'[t] = sessState[t]
      BY <2>1 DEF Base, IInv, TypeOK
    <2>8. JournalStep(cur)
      <3>1. /\ events'[cur] = EnsureEvent(EnsureEvent(events[cur], "failed"), "destroying")
            /\ desired'[cur] = "absent" /\ observed'[cur] = Deleting(observed[cur])
            /\ outcome'[cur] = FirstOutcome(outcome[cur], "failed")
        BY <2>1, <2>3
      <3>2. desired[cur] = "active"
        BY <2>1 DEF Base, Rows
      <3>3. outcome'[cur] = "failed" /\ observed[cur] # "absent"
        BY <2>3, <3>1, <3>2 DEF Verdicts, FirstOutcome, Base, IInv, CleanupNeverLost, Absent
      <3>4. observed'[cur] # "absent"
        BY <3>1, <3>3 DEF Deleting
      <3>5. events[cur] \in Seq(Events) /\ Ordered(events[cur]) /\ ~Has(events[cur], "destroyed")
        BY <2>3, <3>2, JournalTypes DEF Base, IInv, Link, Clean
      <3>6. {"failed", "destroying"} \subseteq EventTypes \ (KeyedTypes \cup WorkTypes)
        BY DEF EventTypes, KeyedTypes, WorkTypes
      <3>7. Grown(events[cur], events'[cur], {"failed", "destroying"})
        BY <3>1, <3>5, <3>6, <1>LateEnsured
      <3>8. QED
        BY <2>3, <3>1, <3>3, <3>4, <3>5, <3>7, <1>GivenUpTold, ZenonT(30) DEF Base, IInv
    <2>9. ASSUME NEW x \in Allocs, x \in A, x # cur PROVE JournalStep(x)
      <3>1. ~IsCurrent(x) /\ ~IsCurrent(x)'
        BY <2>4, <2>5, <2>6, <2>9, ZenonT(30)
      <3>2. desired[x] = "absent"
        <4>1. desired[x] # "none"
          BY <2>2, <2>4, <2>9, AllocParts, SMTT(30) DEF Base, Rows
        <4>2. desired[x] # "active"
          BY <3>1 DEF Base, Rows
        <4>3. QED
          BY <4>1, <4>2 DEF Base, IInv, TypeOK
      <3>3. outcome[x] # "none"
        BY <3>1, <3>2 DEF Verdicts
      <3>4. events[x] \in Seq(Events) /\ Ordered(events[x]) /\ Link(x)
        BY JournalTypes DEF Base, IInv
      <3>5. events'[x] = EnsureEvent(events[x], "destroying") /\ desired'[x] = "absent"
            /\ observed'[x] = Deleting(observed[x])
        BY <2>1, <2>9
      <3>6. events'[x] = events[x]
        BY <3>3, <3>4, <3>5 DEF Link, EnsureEvent
      <3>7. Grown(events[x], events'[x], {})
        BY <3>4, <3>6, <1>GrownSame
      <3>8. Has(events[x], "destroyed") => observed'[x] = "absent"
        BY <3>4, <3>5 DEF Link, Deleting
      <3>9. QED
        BY <3>1, <3>3, <3>5, <3>7, <3>8, <1>GivenUpTold, ZenonT(30) DEF Base, IInv
    <2>10. ASSUME NEW x \in Allocs, x \notin A PROVE JournalStep(x)
      <3>1. events'[x] = events[x] /\ desired'[x] = desired[x] /\ outcome'[x] = outcome[x]
            /\ observed'[x] = observed[x]
        BY <2>1, <2>3, <2>10
      <3>2. SameSession(x)
        <4>1. CASE x[1] = s
          <5>1. ~IsCurrent(x)
            BY <2>3, <2>5, <2>10, <4>1
          <5>2. QED
            BY <2>6, <5>1 DEF SameSession, Base, Rows
        <4>2. CASE x[1] # s
          BY <2>6, <2>7, <4>2, AllocParts DEF SameSession
        <4>3. QED
          BY <4>1, <4>2
      <3>3. QED
        BY <3>1, <3>2, <1>UntouchedTold DEF Base, IInv
    <2>11. QED
      BY <2>8, <2>9, <2>10 DEF Told
  <1>ClientTold. ASSUME Base, Verdicts, Linked, NEW k \in ClientOps, Client(k)
                 PROVE  Told
    <2> USE <1>ClientTold
    <2>1. CASE ReplayEnd(k)
      BY <2>1, <1>QuietTold DEF ReplayEnd, sessVars, allocVars, journalVars
    <2>2. {"passed", "rejected"} \subseteq Results
      BY DEF Results
    <2>3. ASSUME NEW a \in Allocs, NEW result \in {"passed", "rejected"}, RecordChoice(k, a, result)
          PROVE  Told
      BY <2>2, <2>3, <1>RecordChoiceTold
    <2>4. QED
      BY <2>1, <2>3, <1>BeginVerifyTold, <1>RecordVerifyResultTold, <1>RequestEndTold,
         ZenonT(30) DEF Client
  <1>PrepareTold. ASSUME Base, Linked, PrepareRecoveryWork
                  PROVE  Told
    <2> USE <1>PrepareTold
    <2>1. /\ \A k \in Interrupted : Interruptible(k)
          /\ sessState' = [s \in Sessions |-> RestoredState(s)]
          /\ events' = [a \in Allocs |->
                IF \E k \in Interrupted : opAlloc[k] = a
                THEN EnsureKeyedEvent(events[a], "verify_finished",
                                      CHOOSE k \in Interrupted : opAlloc[k] = a)
                ELSE events[a]]
          /\ UNCHANGED <<currentGen, desired, observed, outcome>>
      BY DEF PrepareRecoveryWork, allocVars
    <2> SUFFICES ASSUME NEW x \in Allocs PROVE JournalStep(x)
      BY DEF Told
    <2>2. SameSession(x)
      <3>1. x[1] \in Sessions
        BY AllocParts
      <3>2. sessState'[x[1]] = RestoredState(x[1])
        BY <2>1, <3>1
      <3>3. CASE \E k \in Interrupted : opAlloc[k][1] = x[1]
        <4>1. sessState[x[1]] = "verifying" /\ sessState'[x[1]] = "ready"
          BY <2>1, <3>2, <3>3 DEF RestoredState, Interruptible
        <4>2. QED
          BY <2>1, <4>1 DEF SameSession, IsCurrent
      <3>4. CASE ~\E k \in Interrupted : opAlloc[k][1] = x[1]
        <4>1. sessState'[x[1]] = sessState[x[1]]
          BY <3>2, <3>4 DEF RestoredState
        <4>2. QED
          BY <2>1, <4>1 DEF SameSession, IsCurrent
      <3>5. QED
        BY <3>3, <3>4
    <2>3. CASE ~\E k \in Interrupted : opAlloc[k] = x
      <3>1. events'[x] = events[x]
        BY <2>1, <2>3
      <3>2. QED
        BY <2>1, <2>2, <3>1, <1>UntouchedTold DEF Base, IInv
    <2>4. CASE \E k \in Interrupted : opAlloc[k] = x
      <3>1. PICK k : k = CHOOSE l \in Interrupted : opAlloc[l] = x
        OBVIOUS
      <3>2. k \in Interrupted /\ opAlloc[k] = x
        BY <2>4, <3>1
      <3>3. k \in ClientOps /\ opState[k] = "running" /\ desired[x] = "active"
        BY <2>1, <3>2 DEF Interrupted, Interruptible, Serviceable
      <3>4. events'[x] = EnsureKeyedEvent(events[x], "verify_finished", k)
        BY <2>1, <2>4, <3>1
      <3>5. events[x] \in Seq(Events) /\ Ordered(events[x]) /\ Clean(events[x])
        BY <3>3, JournalTypes DEF Base, IInv, Link
      <3>6. Contains(events[x], <<"verify_started", k>>)
        BY <3>2, <3>3 DEF Linked
      <3>7. "rejected" \in Results /\ FinishedEvents(events[x], k, "rejected") = events'[x]
        BY <3>4 DEF Results, FinishedEvents
      <3>8. Grown(events[x], events'[x], {"verify_finished"})
        BY <3>3, <3>5, <3>6, <3>7, <1>FinishedGrown, ZenonT(30)
      <3>9. QED
        BY <2>1, <2>2, <3>3, <3>8, <1>KeptTold, ZenonT(30) DEF TerminalTypes, Base, IInv
    <2>5. QED
      BY <2>3, <2>4
  <1>StepTold. ASSUME Base, Verdicts, Linked, [Next]_vars
               PROVE  Told
    <2> USE <1>StepTold
    <2>1. CASE UNCHANGED vars
      BY <2>1, <1>QuietTold DEF vars, sessVars, allocVars, journalVars
    <2>2. CASE Restart \/ RefuseRecovery \/ Activate
      BY <2>2, <1>QuietTold DEF Restart, RefuseRecovery, Activate, sessVars, allocVars, journalVars
    <2>3. QED
      BY <2>1, <2>2, <1>ReserveSessionTold, <1>ReserveResetTold, <1>CreateTold, <1>DestroyTold,
         <1>ClientTold, <1>PrepareTold, ZenonT(30) DEF Next, Control
  \* Only BeginVerify starts a verification.
  <1>StartedByBegin. ASSUME Base, [Next]_vars, NEW k \in ClientOps, opState[k] # "running", opState'[k] = "running"
                     PROVE  \E a \in Allocs : BeginVerify(k, a)
    <2> USE <1>StartedByBegin
    <2>1. opState' # opState
      OBVIOUS
    <2>2. CASE UNCHANGED vars
      BY <2>1, <2>2 DEF vars, clientVars
    <2>3. ASSUME NEW s \in Sessions, ReserveSession(s) \/ ReserveReset(s) PROVE FALSE
      BY <2>1, <2>3 DEF ReserveSession, ReserveReset, clientVars
    <2>4. ASSUME NEW a \in Allocs, Create(a) PROVE FALSE
      BY <2>1, <2>4 DEF Create, ClaimProvisionableCreate, MarkClaimedCreateSucceeded,
         MarkClaimedCreateFailed, CreateLeaseExpires, MarkSettingUp, MarkReady, clientVars
    <2>5. ASSUME NEW a \in Allocs, Destroy(a) PROVE FALSE
      <3>1. opState' = [l \in ClientOps |-> SweptClient(l, a)]
        BY <2>1, <2>5 DEF Destroy, RequestDestroy, ClaimDestroyWork, RetryDestroyWork,
           MarkClaimedDestroyed, DestroyLeaseExpires, ConvergeLocalRestart, clientVars
      <3>2. QED
        BY <3>1 DEF SweptClient
    <2>6. CASE Control
      BY <2>6, SMTT(30) DEF Control, Restart, PrepareRecoveryWork, RefuseRecovery, Activate,
         clientVars,
         Interrupted
    <2>7. ASSUME NEW l \in ClientOps, Client(l) PROVE \E a \in Allocs : BeginVerify(k, a)
      <3>1. ASSUME NEW v, v # "running", opState' = [opState EXCEPT ![l] = v] PROVE FALSE
        BY <3>1 DEF Base, IInv, TypeOK
      <3>2. ASSUME NEW a \in Allocs, NEW r \in {"passed", "rejected"}, RecordChoice(l, a, r) PROVE FALSE
        BY <3>1, <3>2 DEF RecordChoice
      <3>3. ASSUME NEW r \in Results, RecordVerifyResult(l, r) PROVE FALSE
        BY <3>1, <3>3 DEF RecordVerifyResult, Results
      <3>4. ASSUME (\E s \in Sessions : RequestEnd(l, s)) \/ ReplayEnd(l) PROVE FALSE
        BY <3>1, <3>4 DEF RequestEnd, ReplayEnd
      <3>5. ASSUME NEW a \in Allocs, BeginVerify(l, a) PROVE \E x \in Allocs : BeginVerify(k, x)
        <4>1. opState' = [opState EXCEPT ![l] = "running"]
          BY <3>5 DEF BeginVerify
        <4>2. l = k
          BY <4>1 DEF Base, IInv, TypeOK
        <4>3. QED
          BY <3>5, <4>2
      <3>6. QED
        BY <2>7, <3>2, <3>3, <3>4, <3>5 DEF Client
    <2>8. QED
      BY <2>2, <2>3, <2>4, <2>5, <2>6, <2>7, ZenonT(30) DEF Next
  <1> SUFFICES ASSUME Base, Verdicts, Linked, [Next]_vars
               PROVE  Told /\ Linked'
    OBVIOUS
  <1>1. Told
    BY <1>StepTold
  <1>2. ASSUME NEW k \in ClientOps, opState'[k] = "running"
        PROVE  Contains(events'[opAlloc'[k]], <<"verify_started", k>>)
    <2>1. CASE opState[k] = "running"
      <3>1. opAlloc'[k] = opAlloc[k]
        BY <1>2, <2>1, Steps DEF OperationStep, Results
      <3>2. opAlloc[k] \in Allocs /\ Contains(events[opAlloc[k]], <<"verify_started", k>>)
        BY <2>1 DEF Linked, Base, Grading
      <3>3. QED
        BY <1>1, <3>1, <3>2, <1>KeptEvents
    <2>2. CASE opState[k] # "running"
      <3>1. PICK a \in Allocs : BeginVerify(k, a)
        BY <1>2, <2>2, <1>StartedByBegin
      <3>2. opAlloc'[k] = a
        BY <3>1 DEF BeginVerify, Base, IInv, TypeOK
      <3>3. QED
        BY <3>1, <3>2, <1>BeginVerifyTold
    <2>3. QED
      BY <2>1, <2>2
  <1>3. \A a \in Allocs : Ordered(events'[a]) /\ Link(a)'
    BY <1>1 DEF Told, JournalStep
  <1>4. QED
    BY <1>1, <1>2, <1>3 DEF Linked

LEMMA LinkedHolds == Spec => []Linked
  <1>1. ASSUME Init PROVE Linked
    <2>1. ASSUME NEW a \in Allocs PROVE Ordered(events[a]) /\ Link(a)
      <3>1. events[a] = <<>> /\ desired[a] = "none" /\ outcome[a] = "none" /\ observed[a] = "none"
        BY <1>1 DEF Init
      <3>2. QED
        BY <3>1, EmptyJournal DEF Link, DestroyOutcomes
    <2>2. QED
      BY <1>1, <2>1 DEF Init, Linked
  <1>2. Base /\ Verdicts /\ Linked /\ [Next]_vars => Linked'
    BY NextTold
  <1>3. QED
    BY <1>1, <1>2, BaseHolds, VerdictsHold, PTL DEF Spec

\* Every journal tells the story of its allocation in order, whatever
\* interleaving of workers, clients, watchers and restarts wrote it: setup before
\* ready, ready before a verification, its start before its end, nothing but
\* cleanup after a terminal event, nothing twice (ensureSingletonEventTx,
\* ensureOperationEventTx and their callers).
THEOREM JournalsInOrder == Spec => []JournalInOrder
  \* Singleton events are recognised by their type.
  <1>EventOfType. ASSUME NEW e \in Events, e[1] \notin KeyedTypes
                  PROVE  e = <<e[1]>>
    BY <1>EventOfType, SMTT(30) DEF Events, KeyedTypes
  <1>SameEvent. ASSUME NEW es \in Seq(Events), Ordered(es), NEW t, t \notin KeyedTypes,
                       NEW i \in 1..Len(es), NEW j \in 1..Len(es), es[i][1] = t, es[j][1] = t
                PROVE  i = j
    <2> USE <1>SameEvent
    <2>1. es[i] \in Events /\ es[j] \in Events
      OBVIOUS
    <2>2. es[i] = <<t>> /\ es[j] = <<t>>
      BY <2>1, <1>EventOfType
    <2>3. QED
      BY <2>2, SMTT(30) DEF Ordered
  <1>FirstOfIs. ASSUME NEW es \in Seq(Events), Ordered(es), NEW t, t \notin KeyedTypes,
                       NEW p \in 1..Len(es), es[p][1] = t
                PROVE  FirstOf(es, t) = p
    <2> USE <1>FirstOfIs
    <2> DEFINE First(i) == /\ i <= Len(es) => es[i][1] = t
                           /\ \A j \in 1..(i - 1) : es[j][1] # t
    <2>1. Len(es) \in Nat
      OBVIOUS
    <2>2. p \in 1..(Len(es) + 1) /\ First(p)
      <3>1. \A j \in 1..(p - 1) : j \in 1..Len(es) /\ j # p
        BY <2>1
      <3>2. \A j \in 1..(p - 1) : es[j][1] # t
        BY <3>1, <1>SameEvent, SMTT(30)
      <3>3. QED
        BY <2>1, <3>2
    <2>3. ASSUME NEW i \in 1..(Len(es) + 1), First(i) PROVE i = p
      <3>1. CASE i <= Len(es)
        <4>1. i \in 1..Len(es) /\ es[i][1] = t
          BY <2>1, <2>3, <3>1
        <4>2. QED
          BY <4>1, <1>SameEvent
      <3>2. CASE i > Len(es)
        <4>1. p \in 1..(i - 1)
          BY <2>1, <3>2
        <4>2. QED
          BY <2>3, <4>1
      <3>3. QED
        BY <2>1, <3>1, <3>2
    <2>4. FirstOf(es, t) = CHOOSE i \in 1..(Len(es) + 1) : First(i)
      BY DEF FirstOf
    <2>5. QED
      BY <2>2, <2>3, <2>4
  \* An ordered journal is one that JournalInOrder describes.
  <1>OrderedJournal. ASSUME NEW es \in Seq(Events), Ordered(es)
                     PROVE  /\ Has(es, "ready") /\ Has(es, "setup_running") =>
                                  FirstOf(es, "setup_running") < FirstOf(es, "ready")
                            /\ \A i \in 1..Len(es) : es[i][1] = "verify_started" => FirstOf(es, "ready") < i
    <2> USE <1>OrderedJournal
    <2>1. "ready" \notin KeyedTypes /\ "setup_running" \notin KeyedTypes
      BY DEF KeyedTypes
    <2>2. ASSUME Has(es, "ready"), Has(es, "setup_running")
          PROVE  FirstOf(es, "setup_running") < FirstOf(es, "ready")
      <3>1. PICK i \in 1..Len(es) : es[i][1] = "setup_running"
        BY <2>2 DEF Has
      <3>2. PICK j \in 1..Len(es) : es[j][1] = "ready"
        BY <2>2 DEF Has
      <3>3. i < j
        BY <3>1, <3>2 DEF Ordered
      <3>4. QED
        BY <2>1, <3>1, <3>2, <3>3, <1>FirstOfIs
    <2>3. ASSUME NEW i \in 1..Len(es), es[i][1] = "verify_started" PROVE FirstOf(es, "ready") < i
      <3>1. PICK j \in 1..Len(es) : j < i /\ es[j][1] = "ready"
        BY <2>3 DEF Ordered
      <3>2. QED
        BY <2>1, <3>1, <1>FirstOfIs
    <2>4. QED
      BY <2>2, <2>3
  <1>1. ASSUME TypeOK, Linked PROVE JournalInOrder
    <2> SUFFICES ASSUME NEW a \in Allocs, NEW es, es = events[a]
                 PROVE  /\ \A i, j \in 1..Len(es) : es[i] = es[j] => i = j
                        /\ Has(es, "ready") /\ Has(es, "setup_running") =>
                              FirstOf(es, "setup_running") < FirstOf(es, "ready")
                        /\ \A i \in {n \in 1..Len(es) : es[n][1] \in {"verify_started"}} :
                              FirstOf(es, "ready") < i
                        /\ \A i \in {n \in 1..Len(es) : es[n][1] \in {"verify_finished"}} :
                              \E j \in 1..(i - 1) : es[j] = <<"verify_started", es[i][2]>>
                        /\ \A i \in {n \in 1..Len(es) : es[n][1] \in TerminalTypes} :
                              \A j \in i..Len(es) : es[j][1] \notin WorkTypes
                        /\ \A i \in {n \in 1..Len(es) : es[n][1] \in {"destroyed"}}, j \in 1..Len(es) :
                              j > i => es[j][1] = "predecessor_destroyed"
      BY Zenon DEF JournalInOrder, TerminalTypes, WorkTypes
    <2>1. es \in Seq(Events) /\ Ordered(es) /\ Len(es) \in Nat
      BY <1>1, JournalTypes
    <2>2. /\ Has(es, "ready") /\ Has(es, "setup_running") =>
                FirstOf(es, "setup_running") < FirstOf(es, "ready")
          /\ \A i \in 1..Len(es) : es[i][1] = "verify_started" => FirstOf(es, "ready") < i
      BY <2>1, <1>OrderedJournal
    <2>3. \A i \in 1..Len(es) : es[i][1] = "verify_finished" =>
             \E j \in 1..(i - 1) : es[j] = <<"verify_started", es[i][2]>>
      <3> SUFFICES ASSUME NEW i \in 1..Len(es), es[i][1] = "verify_finished"
                   PROVE  \E j \in 1..(i - 1) : es[j] = <<"verify_started", es[i][2]>>
        OBVIOUS
      <3>1. PICK j \in 1..Len(es) : j < i /\ es[j] = <<"verify_started", es[i][2]>>
        BY <2>1 DEF Ordered
      <3>2. j \in 1..(i - 1)
        BY <2>1, <3>1
      <3>3. QED
        BY <3>1, <3>2
    <2>4. \A i \in 1..Len(es) : es[i][1] \in TerminalTypes =>
             \A j \in i..Len(es) : es[j][1] \notin WorkTypes
      BY <2>1, SMTT(30) DEF Ordered
    <2>5. /\ \A i, j \in 1..Len(es) : es[i] = es[j] => i = j
          /\ \A i \in {n \in 1..Len(es) : es[n][1] \in {"destroyed"}}, j \in 1..Len(es) :
                j > i => es[j][1] = "predecessor_destroyed"
      BY <2>1, SMTT(30) DEF Ordered
    <2>6. /\ \A i \in {n \in 1..Len(es) : es[n][1] \in {"verify_started"}} : FirstOf(es, "ready") < i
          /\ \A i \in {n \in 1..Len(es) : es[n][1] \in {"verify_finished"}} :
                \E j \in 1..(i - 1) : es[j] = <<"verify_started", es[i][2]>>
          /\ \A i \in {n \in 1..Len(es) : es[n][1] \in TerminalTypes} :
                \A j \in i..Len(es) : es[j][1] \notin WorkTypes
      BY <2>2, <2>3, <2>4, Zenon
    <2>7. QED
      BY <2>2, <2>5, <2>6, Zenon
  <1>2. QED
    BY <1>1, TypeCorrect, LinkedHolds, PTL

-----------------------------------------------------------------------------
(***************************************************************************)
(* The first outcome wins.                                                 *)
(***************************************************************************)

\* Whatever arrives late, is replayed or races with another end, the first
\* terminal outcome stands: ended attempts, cleanup reasons, finished operations,
\* ended sessions and proven absence are never rewritten, and journals are only
\* appended to (RequestDestroy, recordVerifyResult, RequestEnd, markDestroyed).
THEOREM FirstOutcomeStands == Spec => FirstOutcomeWins
  <1>1. ASSUME Base, Stored, Verdicts, Linked, DestroyNeverFails, IInv', [Next]_vars
        PROVE  /\ \A a \in Allocs :
                     /\ attempt[a] \notin {"none", "in_progress"} => attempt'[a] = attempt[a]
                     /\ outcome[a] # "none" => outcome'[a] = outcome[a]
                     /\ Absent(a) => Absent(a)' /\ UNCHANGED <<createOp[a], destroyOp[a]>>
                     /\ \A i \in 1..Len(events[a]) : i <= Len(events'[a])
                                                     /\ events'[a][i] = events[a][i]
               /\ \A s \in Sessions : sessDesired[s] = "absent" => sessDesired'[s] = "absent"
               /\ \A k \in ClientOps : opState[k] \notin {"none", "running", "end_pending"} =>
                     opState'[k] = opState[k]
    <2>1. ASSUME NEW a \in Allocs
          PROVE  /\ attempt[a] \notin {"none", "in_progress"} => attempt'[a] = attempt[a]
                 /\ outcome[a] # "none" => outcome'[a] = outcome[a]
      <3>1. VerdictStep(a)
        BY <1>1, NextJudged DEF Judged
      <3>2. /\ desired[a] = "none" => attempt[a] = "none" /\ outcome[a] = "none"
            /\ desired[a] = "active" => attempt[a] = "in_progress" /\ outcome[a] = "none"
        BY <1>1 DEF Verdicts, Base, Rows
      <3>3. QED
        BY <3>1, <3>2 DEF VerdictStep
    <2>2. ASSUME NEW a \in Allocs, Absent(a)
          PROVE  Absent(a)' /\ UNCHANGED <<createOp[a], destroyOp[a]>>
      <3>1. observed'[a] = "absent"
        BY <1>1, <2>2, StepKeeps DEF Base, Keeps, AbsenceStays, Absent
      <3>2. Absent(a)'
        BY <1>1, <3>1 DEF IInv, CleanupNeverLost
      <3>3. QED
        BY <1>1, <2>2, <3>2, NextSettled DEF SettledStep
    <2>3. ASSUME NEW a \in Allocs, NEW i \in 1..Len(events[a])
          PROVE  i <= Len(events'[a]) /\ events'[a][i] = events[a][i]
      BY <1>1, NextTold DEF Told, JournalStep, Extends
    <2>4. ASSUME NEW s \in Sessions, sessDesired[s] = "absent" PROVE sessDesired'[s] = "absent"
      BY <1>1, <2>4, Steps DEF SessionStep
    <2>5. ASSUME NEW k \in ClientOps, opState[k] \notin {"none", "running", "end_pending"}
          PROVE  opState'[k] = opState[k]
      BY <1>1, <2>5, Steps DEF OperationStep
    <2>6. QED
      BY <2>1, <2>2, <2>3, <2>4, <2>5
  <1>2. QED
    BY <1>1, BaseHolds, StoredHolds, VerdictsHold, LinkedHolds, DestroyNeverFailsHolds, IInvHolds, PTL
       DEF Spec, FirstOutcomeWins

=============================================================================
