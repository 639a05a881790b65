----------------------- MODULE LifecycleStreamProofs ------------------------
(***************************************************************************)
(* The lifecycle stream, for any number of users and sessions, any page    *)
(* size and both restart policies: a cursor that was sent can be resumed,  *)
(* a browser is told that it has no session only when all is gone, and     *)
(* what it is shown changes with the watermark, but for the end of a       *)
(* cleanup that a restart converged.                                       *)
(***************************************************************************)
EXTENDS LifecycleStream, RunnerStoreJournals, WellFoundedInduction

\* The provers for the leaves that name none, and their time limits.
USE ZenonT(10), SMTT(30)

-----------------------------------------------------------------------------
(***************************************************************************)
(* The stream reads the store and never writes it.                         *)
(***************************************************************************)
LEMMA StoreStep ==
    ASSUME [StreamNext]_allVars
    PROVE  [Next]_vars
  BY DEF StreamNext, allVars, Connect, Disconnect, Poll

LEMMA StreamIsStore == StreamSpec => Spec
  <1>1. StreamInit => Init
    BY DEF StreamInit
  <1>2. QED
    BY <1>1, StoreStep, PTL DEF StreamSpec, Spec

\* What is known of the store in every state of the stream.
Known == Base /\ Verdicts /\ Linked

LEMMA KnownHolds == StreamSpec => []Known
  BY StreamIsStore, BaseHolds, VerdictsHold, LinkedHolds, PTL DEF Known

-----------------------------------------------------------------------------
(***************************************************************************)
(* Journals begin with the reservation.                                    *)
(***************************************************************************)
Begun == \A a \in Allocs : desired[a] # "none" => Len(events[a]) > 0

LEMMA OnlyReservesAdvance ==
    ASSUME [Next]_vars
    PROVE  \/ currentGen' = currentGen
           \/ \E s \in Sessions : ReserveSession(s) \/ ReserveReset(s)
  <1>1. ASSUME NEW a \in Allocs, Create(a) PROVE currentGen' = currentGen
    BY <1>1 DEF Create, ClaimProvisionableCreate, MarkClaimedCreateSucceeded, MarkClaimedCreateFailed,
       CreateLeaseExpires, MarkSettingUp, MarkReady, sessVars
  <1>2. ASSUME NEW a \in Allocs, Destroy(a) PROVE currentGen' = currentGen
    BY <1>2 DEF Destroy, RequestDestroy, ClaimDestroyWork, RetryDestroyWork, MarkClaimedDestroyed,
       DestroyLeaseExpires, ConvergeLocalRestart, sessVars
  <1>3. ASSUME NEW k \in ClientOps, Client(k) PROVE currentGen' = currentGen
    BY <1>3 DEF Client, BeginVerify, RecordChoice, RecordVerifyResult, GradePassed, GradeNotPassed,
       RequestEnd, ReplayEnd, sessVars
  <1>4. CASE Control
    BY <1>4 DEF Control, Restart, PrepareRecoveryWork, RefuseRecovery, Activate, sessVars
  <1>5. CASE UNCHANGED vars
    BY <1>5 DEF vars, sessVars
  <1>6. QED
    BY <1>1, <1>2, <1>3, <1>4, <1>5 DEF Next

LEMMA BegunStep ==
    ASSUME Known, Base', [Next]_vars, Begun
    PROVE  Begun'
  <1> SUFFICES ASSUME NEW a \in Allocs, desired'[a] # "none" PROVE Len(events'[a]) > 0
    BY DEF Begun
  <1>1. CASE desired[a] # "none"
    <2>1. Len(events[a]) > 0 /\ Len(events[a]) \in Nat
      BY <1>1, SMTT(30) DEF Begun, Known, Base, IInv, TypeOK
    <2>2. Extends(events[a], events'[a])
      BY NextTold DEF Known, Told, JournalStep
    <2>3. 1 <= Len(events'[a])
      BY <2>1, <2>2, SMTT(30) DEF Extends
    <2>4. Len(events'[a]) \in Nat
      BY SMTT(30) DEF Base, IInv, TypeOK
    <2>5. QED
      BY <2>3, <2>4
  <1>2. CASE desired[a] = "none"
    <2>1. a[1] \in Sessions /\ a[2] \in Nat /\ a = <<a[1], a[2]>>
      BY AllocParts DEF Allocs, Generations
    <2>2. a[2] > currentGen[a[1]] /\ ~(a[2] > currentGen'[a[1]])
      BY <1>2 DEF Known, Base, Rows
    <2>3. PICK s \in Sessions : ReserveSession(s) \/ ReserveReset(s)
      BY <2>2, OnlyReservesAdvance
    <2>4. currentGen \in [Sessions -> Nat] /\ events \in [Allocs -> Seq(Events)]
      BY BoundsAssumption, SMTT(30) DEF Known, Base, IInv, TypeOK
    <2>5. CASE ReserveSession(s)
      <3>1. /\ currentGen' = [currentGen EXCEPT ![s] = 1]
            /\ events' = [events EXCEPT ![<<s, 1>>] = << <<"allocation_reserved">> >>]
        BY <2>5 DEF ReserveSession
      <3>2. a[1] = s /\ a[2] = 1
        BY <2>1, <2>2, <2>4, <3>1, AllocParts, SMTT(30)
      <3>3. events'[a] = << <<"allocation_reserved">> >>
        BY <2>1, <2>4, <3>1, <3>2
      <3>4. QED
        BY <3>3
    <2>6. CASE ReserveReset(s)
      <3> PICK b : b = <<s, currentGen[s] + 1>>
        OBVIOUS
      <3>1. /\ currentGen' = [currentGen EXCEPT ![s] = currentGen[s] + 1]
            /\ events' = [events EXCEPT
                  ![<<s, currentGen[s]>>] = EnsureEvent(EnsureEvent(@, "reset_requested"), "destroying"),
                  ![b] = << <<"allocation_reserved">>, <<"reset_requested">> >>]
        BY <2>6 DEF ReserveReset
      <3>2. a[1] = s /\ a[2] = currentGen[s] + 1
        BY <2>1, <2>2, <2>4, <3>1
      <3>3. events'[a] = << <<"allocation_reserved">>, <<"reset_requested">> >>
        BY <2>1, <2>4, <3>1, <3>2
      <3>4. QED
        BY <3>3
    <2>7. QED
      BY <2>3, <2>5, <2>6
  <1>3. QED
    BY <1>1, <1>2

-----------------------------------------------------------------------------
(***************************************************************************)
(* The sessions in the order of their reservation.                         *)
(***************************************************************************)
Listed ==
    /\ reserved \in Seq(Sessions)
    /\ \A s \in Sessions : currentGen[s] > 0 => \E i \in 1..Len(reserved) : reserved[i] = s

\* Follow keeps the list, and adds the session that a step reserved.
LEMMA Followed ==
    ASSUME reserved \in Seq(Sessions), Follow
    PROVE  /\ reserved' \in Seq(Sessions)
           /\ \A i \in 1..Len(reserved) : i \in 1..Len(reserved') /\ reserved'[i] = reserved[i]
           /\ \A s \in Sessions :
                 {t \in Sessions : sessState[t] = "none" /\ sessState'[t] # "none"} = {s} =>
                    \E i \in 1..Len(reserved') : reserved'[i] = s
  <1> PICK added : added = {t \in Sessions : sessState[t] = "none" /\ sessState'[t] # "none"}
    OBVIOUS
  <1>1. PICK t : /\ added # {} => t \in added
                 /\ reserved' = reserved \o (IF added = {} THEN <<>> ELSE <<t>>)
    <2> DEFINE N == {s \in Sessions : sessState[s] = "none" /\ sessState'[s] # "none"}
    <2>1. reserved' = reserved \o
             LET new == {s \in Sessions : sessState[s] = "none" /\ sessState'[s] # "none"}
             IN  IF new = {} THEN <<>> ELSE <<CHOOSE s \in new : TRUE>>
      BY DEF Follow
    <2>2. reserved' = reserved \o (IF N = {} THEN <<>> ELSE <<CHOOSE s \in N : TRUE>>)
      BY <2>1
    <2>3. N # {} => (CHOOSE s \in N : TRUE) \in N
      OBVIOUS
    <2>4. added = N
      OBVIOUS
    <2>5. PICK c : c = CHOOSE s \in N : TRUE
      OBVIOUS
    <2>6. /\ N # {} => c \in N
          /\ reserved' = reserved \o (IF N = {} THEN <<>> ELSE <<c>>)
      BY <2>2, <2>3, <2>5
    <2> HIDE DEF N
    <2>7. QED
      BY <2>4, <2>6
  <1>2. CASE added = {}
    <2>1. reserved' = reserved
      BY <1>1, <1>2
    <2>2. QED
      BY <1>2, <2>1
  <1>3. CASE added # {}
    <2>1. t \in added /\ t \in Sessions
      BY <1>1, <1>3
    <2>2. reserved' = reserved \o <<t>>
      BY <1>1, <1>3
    <2>3. /\ reserved' \in Seq(Sessions) /\ Len(reserved) \in Nat
          /\ Len(reserved') = Len(reserved) + 1
          /\ reserved'[Len(reserved) + 1] = t
          /\ \A i \in 1..Len(reserved) : reserved'[i] = reserved[i]
      BY <2>1, <2>2
    <2>4. Len(reserved) + 1 \in 1..Len(reserved')
      BY <2>3
    <2>5. \A i \in 1..Len(reserved) : i \in 1..Len(reserved')
      BY <2>3
    <2>6. \A s \in Sessions : added = {s} => t = s
      BY <2>1
    <2>7. QED
      BY <2>3, <2>4, <2>5, <2>6
  <1>4. QED
    BY <1>2, <1>3

LEMMA ListedStep ==
    ASSUME Base, Next, Follow, Listed
    PROVE  Listed'
  <1>1. /\ reserved' \in Seq(Sessions)
        /\ \A i \in 1..Len(reserved) : i \in 1..Len(reserved') /\ reserved'[i] = reserved[i]
    BY Followed DEF Listed
  <1>2. ASSUME NEW s \in Sessions, currentGen'[s] > 0
        PROVE  \E i \in 1..Len(reserved') : reserved'[i] = s
    <2>1. CASE currentGen[s] > 0
      <3>1. PICK i \in 1..Len(reserved) : reserved[i] = s
        BY <2>1 DEF Listed
      <3>2. QED
        BY <1>1, <3>1
    <2>2. CASE ~(currentGen[s] > 0)
      <3>1. /\ currentGen \in [Sessions -> Nat] /\ sessState \in [Sessions -> SessionStates]
        BY BoundsAssumption, SMTT(30) DEF Base, IInv, TypeOK
      <3>2. PICK t \in Sessions : ReserveSession(t) \/ ReserveReset(t)
        BY <1>2, <2>2, OnlyReservesAdvance
      <3>3. ASSUME ReserveReset(t) PROVE FALSE
        <4>1. /\ currentGen[t] \in 1..(MaxGen - 1)
              /\ currentGen' = [currentGen EXCEPT ![t] = currentGen[t] + 1]
          BY <3>3 DEF ReserveReset
        <4>2. QED
          BY <1>2, <2>2, <3>1, <4>1
      <3>4. /\ sessState[t] = "none" /\ sessState' = [sessState EXCEPT ![t] = "queued"]
            /\ currentGen' = [currentGen EXCEPT ![t] = 1]
        BY <3>2, <3>3 DEF ReserveSession
      <3>5. s = t
        BY <1>2, <2>2, <3>1, <3>4
      <3>6. {x \in Sessions : sessState[x] = "none" /\ sessState'[x] # "none"} = {s}
        BY <3>1, <3>4, <3>5
      <3>7. QED
        BY <3>6, Followed DEF Listed
    <2>3. QED
      BY <2>1, <2>2
  <1>3. QED
    BY <1>1, <1>2 DEF Listed

-----------------------------------------------------------------------------
(***************************************************************************)
(* The active session: the newest with anything outstanding.               *)
(***************************************************************************)
\* A nonempty set of positions has a last one.
LEMMA LastPosition ==
    ASSUME NEW n \in Nat, NEW P, P \subseteq 1..n, P # {}
    PROVE  \E p \in P : \A q \in P : q <= p
  <1>1. PICK R : /\ \A x, y \in Nat : x < y => <<x, y>> \in R
                 /\ IsWellFoundedOn(R, Nat)
    <2>1. \A x, y \in Nat : x < y => <<x, y>> \in OpToRel(<, Nat)
      BY DEF OpToRel
    <2>2. QED
      BY <2>1, NatLessThanWellFounded
  <1>2. IsWellFoundedOn(R, Nat)
    BY <1>1
  <1> PICK D : D = {m \in Nat : n - m \in P}
    OBVIOUS
  <1>3. \A q \in P : q \in Nat /\ n - q \in D /\ n - q \in Nat
    <2> TAKE q \in P
    <2>1. q \in Nat /\ n - q \in Nat /\ n - (n - q) = q
      OBVIOUS
    <2>2. QED
      BY <2>1
  <1>4. D \subseteq Nat /\ D # {}
    BY <1>3
  <1>5. PICK d \in D : \A e \in D : ~(<<e, d>> \in R)
    BY <1>2, <1>4, WFMin
  <1>6. d \in Nat /\ n - d \in P
    OBVIOUS
  <1>7. ASSUME NEW q \in P PROVE q <= n - d
    <2>1. ~(n - q < d)
      BY <1>1, <1>3, <1>5, <1>6
    <2>2. QED
      BY <1>3, <1>6, <2>1, SMTT(30)
  <1>8. QED
    BY <1>6, <1>7

\* The active session is a session of the user, with a generation.
LEMMA ActiveIsOutstanding ==
    ASSUME Listed, NEW u \in Users, NEW s \in ActiveLifecycleSession(u)
    PROVE  s \in Sessions /\ Outstanding(u, s)
  <1>1. PICK i \in 1..Len(reserved) : s = reserved[i] /\ Outstanding(u, reserved[i])
    BY DEF ActiveLifecycleSession
  <1>2. reserved[i] \in Sessions
    BY <1>1 DEF Listed
  <1>3. QED
    BY <1>1, <1>2

\* There is one as long as anything of the user is outstanding.
LEMMA OutstandingIsActive ==
    ASSUME Base, Listed, NEW u \in Users, NEW s \in Sessions, Outstanding(u, s)
    PROVE  ActiveLifecycleSession(u) # {}
  <1> DEFINE P == {i \in 1..Len(reserved) : Outstanding(u, reserved[i])}
  <1>1. currentGen[s] > 0
    <2>1. PICK g \in 1..currentGen[s] : TRUE
      BY DEF Outstanding
    <2>2. currentGen[s] \in Nat
      BY BoundsAssumption, SMTT(30) DEF Base, IInv, TypeOK
    <2>3. QED
      BY <2>1, <2>2
  <1>2. PICK i \in 1..Len(reserved) : reserved[i] = s
    BY <1>1 DEF Listed
  <1>3. i \in P
    BY <1>2
  <1>4. Len(reserved) \in Nat /\ P \subseteq 1..Len(reserved)
    BY DEF Listed
  <1>5. PICK p \in P : \A q \in P : q <= p
    <2> HIDE DEF P
    <2>1. QED
      BY <1>3, <1>4, LastPosition
  <1>6. reserved[p] \in ActiveLifecycleSession(u)
    BY <1>5, Zenon DEF ActiveLifecycleSession
  <1>7. QED
    BY <1>6

-----------------------------------------------------------------------------
(***************************************************************************)
(* Cursors.                                                                *)
(***************************************************************************)
Cursors == Sessions \X Nat \X Nat

\* What CursorsResumable says of one cursor of a user.
Resumable(u, c) ==
    /\ Owner[c[1]] = u
    /\ c[2] \in 1..currentGen[c[1]]
    /\ c[3] \in 1..Len(events[<<c[1], c[2]>>])

SInv ==
    /\ Begun
    /\ Listed
    /\ cursor \in [Users -> Cursors \cup {<<>>}]
    /\ \A u \in Users : cursor[u] # <<>> => Resumable(u, cursor[u])

LEMMA CursorShape ==
    ASSUME NEW c \in Cursors \cup {<<>>}, c # <<>>
    PROVE  c \in Cursors /\ c[1] \in Sessions /\ c[2] \in Nat /\ c[3] \in Nat
  BY DEF Cursors

LEMMA CursorMade ==
    ASSUME NEW s \in Sessions, NEW g \in Nat, NEW n \in Nat
    PROVE  <<s, g, n>> \in Cursors /\ <<s, g, n>> # <<>>
  BY DEF Cursors

\* The watermark of a reserved session is a cursor its user can resume.
LEMMA WatermarkResumable ==
    ASSUME Base, Begun, NEW u \in Users, NEW s \in Sessions, Owner[s] = u, currentGen[s] > 0
    PROVE  Watermark(s) \in Cursors /\ Watermark(s) # <<>> /\ Resumable(u, Watermark(s))
  <1>1. currentGen[s] \in 0..MaxGen /\ events \in [Allocs -> Seq(Events)]
    BY DEF Base, IInv, TypeOK
  <1>2. currentGen[s] \in Generations /\ currentGen[s] \in Nat
    BY <1>1, BoundsAssumption, SMTT(30) DEF Generations
  <1>3. <<s, currentGen[s]>> \in Allocs
    BY <1>2, AllocMade
  <1>4. desired[<<s, currentGen[s]>>] # "none"
    BY <1>2, <1>3, SMTT(30) DEF Base, Rows
  <1>5. Len(events[<<s, currentGen[s]>>]) \in Nat /\ Len(events[<<s, currentGen[s]>>]) > 0
    BY <1>1, <1>3, <1>4 DEF Begun
  <1>6. PICK n : n = Len(events[<<s, currentGen[s]>>])
    OBVIOUS
  <1>7. Watermark(s) = <<s, currentGen[s], n>>
    BY <1>6 DEF Watermark, CurrentEvents
  <1>8. n \in Nat /\ n > 0
    BY <1>5, <1>6
  <1>9. <<s, currentGen[s], n>> \in Cursors /\ <<s, currentGen[s], n>> # <<>>
    BY <1>2, <1>8, CursorMade
  <1>10. Resumable(u, <<s, currentGen[s], n>>)
    BY <1>2, <1>6, <1>8 DEF Resumable
  <1>11. QED
    BY <1>7, <1>9, <1>10

\* A read changes only the cursor of its user.
LEMMA CursorSet ==
    ASSUME SInv, NEW u \in Users, NEW c \in Cursors \cup {<<>>}, c # <<>> => Resumable(u, c),
           cursor' = [cursor EXCEPT ![u] = c], UNCHANGED <<vars, reserved>>
    PROVE  SInv'
  <1>1. UNCHANGED <<desired, events, currentGen, reserved>>
    BY DEF vars, sessVars, allocVars, journalVars
  <1>2. Begun' /\ Listed'
    BY <1>1 DEF SInv, Begun, Listed
  <1>3. cursor \in [Users -> Cursors \cup {<<>>}]
    BY DEF SInv
  <1>4. cursor' \in [Users -> Cursors \cup {<<>>}]
    BY <1>3
  <1>5. \A v \in Users : cursor'[v] = IF v = u THEN c ELSE cursor[v]
    BY <1>3
  <1>6. \A v \in Users : cursor[v] # <<>> => Resumable(v, cursor[v])
    BY DEF SInv
  <1>7. ASSUME NEW v \in Users, cursor'[v] # <<>> PROVE Resumable(v, cursor[v])'
    <2>1. PICK x : x = cursor'[v]
      OBVIOUS
    <2>2. Resumable(v, x)
      BY <1>5, <1>6, <1>7, <2>1
    <2>3. QED
      BY <1>1, <2>1, <2>2 DEF Resumable
  <1>8. QED
    BY <1>2, <1>4, <1>7 DEF SInv

LEMMA SnapshotSent ==
    ASSUME Base, SInv, NEW u \in Users, NEW s \in Sessions, Owner[s] = u, currentGen[s] > 0,
           SendSnapshot(u, s), UNCHANGED <<vars, reserved>>
    PROVE  SInv' /\ cursor'[u] # <<>>
  <1>1. PICK c : c = Watermark(s)
    OBVIOUS
  <1>2. c \in Cursors /\ c # <<>> /\ Resumable(u, c)
    BY <1>1, WatermarkResumable DEF SInv
  <1>3. cursor' = [cursor EXCEPT ![u] = c]
    BY <1>1 DEF SendSnapshot
  <1>4. cursor'[u] = c
    BY <1>3 DEF SInv
  <1>5. QED
    BY <1>2, <1>3, <1>4, CursorSet

\* The session that a sent cursor names can be shown to its user.
LEMMA CursorSession ==
    ASSUME Base, SInv, NEW u \in Users, cursor[u] # <<>>
    PROVE  cursor[u][1] \in Sessions /\ Owner[cursor[u][1]] = u /\ currentGen[cursor[u][1]] > 0
  <1>1. cursor[u] \in Cursors \cup {<<>>} /\ Resumable(u, cursor[u])
    BY DEF SInv
  <1>2. cursor[u][1] \in Sessions
    BY <1>1, CursorShape
  <1>3. currentGen[cursor[u][1]] \in Nat
    BY <1>2, BoundsAssumption, SMTT(30) DEF Base, IInv, TypeOK
  <1>4. QED
    BY <1>1, <1>2, <1>3 DEF Resumable

LEMMA ActiveSession ==
    ASSUME Base, SInv, NEW u \in Users, NEW s \in ActiveLifecycleSession(u)
    PROVE  s \in Sessions /\ Owner[s] = u /\ currentGen[s] > 0
  <1>1. s \in Sessions /\ Outstanding(u, s)
    BY ActiveIsOutstanding DEF SInv
  <1>2. currentGen[s] \in Nat
    BY <1>1, BoundsAssumption, SMTT(30) DEF Base, IInv, TypeOK
  <1>3. PICK g \in 1..currentGen[s] : TRUE
    BY <1>1 DEF Outstanding
  <1>4. QED
    BY <1>1, <1>2, <1>3 DEF Outstanding

LEMMA NullSent ==
    ASSUME SInv, NEW u \in Users, SendNull(u), UNCHANGED <<vars, reserved>>
    PROVE  SInv'
  BY CursorSet DEF SendNull

LEMMA EventsSent ==
    ASSUME Base, SInv, NEW u \in Users, cursor[u] # <<>>, SendEvents(u), UNCHANGED <<vars, reserved>>
    PROVE  SInv' /\ cursor'[u] # <<>>
  <1>1. cursor[u] \in Cursors /\ Resumable(u, cursor[u]) /\ cursor \in [Users -> Cursors \cup {<<>>}]
    BY CursorShape DEF SInv
  <1>2. PICK s \in Sessions, g \in Nat, n \in Nat : cursor[u] = <<s, g, n>>
    BY <1>1, SMTT(30) DEF Cursors
  <1>3. PICK len : len = Len(events[<<s, g>>])
    OBVIOUS
  <1>4. PICK m : m = n + Page(len - n)
    OBVIOUS
  <1>5. /\ g = currentGen[s] /\ len - n > 0
        /\ cursor' = [cursor EXCEPT ![u][3] = @ + Page(len - n)]
    <2>1. /\ cursor[u][2] = currentGen[cursor[u][1]]
          /\ Len(CurrentEvents(cursor[u][1])) - cursor[u][3] > 0
          /\ cursor' = [cursor EXCEPT ![u][3] =
                          @ + Page(Len(CurrentEvents(cursor[u][1])) - cursor[u][3])]
      BY DEF SendEvents
    <2>2. cursor[u][1] = s /\ cursor[u][2] = g /\ cursor[u][3] = n
      BY <1>2
    <2>3. g = currentGen[s]
      BY <2>1, <2>2
    <2>4. Len(CurrentEvents(cursor[u][1])) = len
      BY <1>3, <2>2, <2>3 DEF CurrentEvents
    <2>5. Len(CurrentEvents(cursor[u][1])) - cursor[u][3] = len - n
      BY <2>2, <2>4
    <2>6. QED
      BY <2>1, <2>3, <2>5
  <1>6. Owner[s] = u /\ g \in 1..currentGen[s] /\ n \in 1..len
    BY <1>1, <1>2, <1>3, SMTT(30) DEF Resumable
  <1>7. len \in Nat
    <2>1. currentGen[s] \in 0..MaxGen /\ events \in [Allocs -> Seq(Events)]
      BY DEF Base, IInv, TypeOK
    <2>2. g \in Generations
      BY <1>6, <2>1, BoundsAssumption DEF Generations
    <2>3. <<s, g>> \in Allocs
      BY <2>2, AllocMade
    <2>4. QED
      BY <1>3, <2>1, <2>3
  <1>8. m \in Nat /\ m \in 1..len
    BY <1>4, <1>5, <1>6, <1>7, ReplayLimitAssumption DEF Page
  <1>9. cursor' = [cursor EXCEPT ![u] = <<s, g, m>>]
    <2>1. cursor' = [cursor EXCEPT ![u] = [cursor[u] EXCEPT ![3] = cursor[u][3] + Page(len - n)]]
      BY <1>5
    <2>2. [cursor[u] EXCEPT ![3] = cursor[u][3] + Page(len - n)] = <<s, g, m>>
      BY <1>2, <1>4
    <2>3. QED
      BY <2>1, <2>2
  <1>10. PICK c : c = <<s, g, m>>
    OBVIOUS
  <1>11. c \in Cursors /\ c # <<>>
    BY <1>8, <1>10, CursorMade
  <1>12. Resumable(u, c)
    BY <1>3, <1>6, <1>8, <1>10, ZenonT(30) DEF Resumable
  <1>13. cursor' = [cursor EXCEPT ![u] = c] /\ cursor'[u] = c
    BY <1>1, <1>9, <1>10
  <1>14. QED
    BY <1>11, <1>12, <1>13, CursorSet

-----------------------------------------------------------------------------
(***************************************************************************)
(* Every step.                                                             *)
(***************************************************************************)
LEMMA BootstrapSent ==
    ASSUME Base, SInv, NEW u \in Users, NEW resume, resume = cursor[u] \/ resume = <<>>,
           Bootstrap(u, resume), UNCHANGED <<vars, reserved>>
    PROVE  SInv' /\ (cursor'[u] # <<>> \/ ActiveLifecycleSession(u) = {})
  <1>1. \/ \E s \in ActiveLifecycleSession(u) : SendSnapshot(u, s)
        \/ resume # <<>> /\ SendSnapshot(u, resume[1])
        \/ ActiveLifecycleSession(u) = {} /\ SendNull(u)
    BY DEF Bootstrap
  <1>2. ASSUME NEW s \in ActiveLifecycleSession(u), SendSnapshot(u, s)
        PROVE  SInv' /\ cursor'[u] # <<>>
    BY <1>2, ActiveSession, SnapshotSent
  <1>3. ASSUME resume # <<>>, SendSnapshot(u, resume[1])
        PROVE  SInv' /\ cursor'[u] # <<>>
    <2>1. PICK s : s = cursor[u][1]
      OBVIOUS
    <2>2. s \in Sessions /\ Owner[s] = u /\ currentGen[s] > 0 /\ SendSnapshot(u, s)
      BY <1>3, <2>1, CursorSession
    <2>3. QED
      BY <2>2, SnapshotSent
  <1>4. QED
    BY <1>1, <1>2, <1>3, NullSent, ZenonT(30)

LEMMA PollSent ==
    ASSUME Base, SInv, NEW u \in Users, Poll(u)
    PROVE  SInv' /\ (cursor'[u] # <<>> \/ (OnCurrentSession(u) /\ cursor[u] # <<>> /\ Tombstone(u)))
  <1>1. UNCHANGED <<vars, reserved>>
    BY DEF Poll
  <1>2. ASSUME NEW s \in ActiveLifecycleSession(u), SendSnapshot(u, s)
        PROVE  SInv' /\ cursor'[u] # <<>>
    BY <1>1, <1>2, ActiveSession, SnapshotSent
  <1>3. ASSUME cursor[u] # <<>>, ChangeGeneration(u)
        PROVE  SInv' /\ cursor'[u] # <<>>
    <2>1. PICK s : s = cursor[u][1]
      OBVIOUS
    <2>2. s \in Sessions /\ Owner[s] = u /\ currentGen[s] > 0 /\ SendSnapshot(u, s)
      BY <1>3, <2>1, CursorSession DEF ChangeGeneration
    <2>3. QED
      BY <1>1, <2>2, SnapshotSent
  <1>4. ASSUME Tombstone(u) PROVE SInv'
    BY <1>1, <1>4, NullSent, ZenonT(30) DEF Tombstone
  <1>5. \/ \E s \in ActiveLifecycleSession(u) : SendSnapshot(u, s)
        \/ cursor[u] # <<>> /\ ChangeGeneration(u)
        \/ cursor[u] # <<>> /\ SendEvents(u)
        \/ OnCurrentSession(u) /\ cursor[u] # <<>> /\ Tombstone(u)
    BY DEF Poll, PollEmpty, Switch
  <1>6. QED
    BY <1>1, <1>2, <1>3, <1>4, <1>5, EventsSent, ZenonT(30)

\* A step of the store: journals and generations only grow.
LEMMA StoreSent ==
    ASSUME Known, Base', SInv, Next, Follow
    PROVE  SInv'
  <1>1. Begun' /\ Listed'
    BY BegunStep, ListedStep DEF SInv, Known
  <1>2. cursor' = cursor /\ cursor \in [Users -> Cursors \cup {<<>>}]
    BY DEF Follow, SInv
  <1>3. ASSUME NEW v \in Users, cursor[v] # <<>> PROVE Resumable(v, cursor[v])'
    <2>1. cursor[v] \in Cursors /\ Resumable(v, cursor[v])
      BY <1>2, <1>3, CursorShape DEF SInv
    <2>2. PICK s \in Sessions, g \in Nat, n \in Nat : cursor[v] = <<s, g, n>>
      BY <2>1 DEF Cursors
    <2>3. Owner[s] = v /\ g \in 1..currentGen[s] /\ n \in 1..Len(events[<<s, g>>])
      BY <2>1, <2>2 DEF Resumable
    <2>4. currentGen[s] \in 0..MaxGen /\ currentGen'[s] \in 0..MaxGen
      BY SMTT(30) DEF Known, Base, IInv, TypeOK
    <2>5. g \in Generations /\ g \in 1..currentGen'[s]
      <3>1. currentGen'[s] >= currentGen[s]
        BY Steps DEF Known, SessionStep
      <3>2. QED
        BY <2>3, <2>4, <3>1, BoundsAssumption DEF Generations
    <2>6. <<s, g>> \in Allocs
      BY <2>5, AllocMade
    <2>7. Extends(events[<<s, g>>], events'[<<s, g>>])
      BY <2>6, NextTold DEF Known, Told, JournalStep
    <2>8. Len(events'[<<s, g>>]) \in Nat
      BY <2>6, SMTT(30) DEF Base, IInv, TypeOK
    <2>9. n \in 1..Len(events'[<<s, g>>])
      BY <2>3, <2>7, <2>8 DEF Extends
    <2>10. cursor'[v] = <<s, g, n>>
      BY <1>2, <2>2
    <2>11. QED
      BY <2>3, <2>5, <2>9, <2>10 DEF Resumable
  <1>4. QED
    BY <1>1, <1>2, <1>3 DEF SInv

LEMMA StreamStep ==
    ASSUME Known, Base', SInv, [StreamNext]_allVars
    PROVE  SInv'
  <1>1. Base
    BY DEF Known
  <1>2. ASSUME NEW u \in Users, Connect(u) PROVE SInv'
    <2>1. PICK resume : (resume = cursor[u] \/ resume = <<>>) /\ Bootstrap(u, resume)
      BY <1>2 DEF Connect
    <2>2. UNCHANGED <<vars, reserved>>
      BY <1>2 DEF Connect
    <2>3. QED
      BY <1>1, <2>1, <2>2, BootstrapSent, ZenonT(30)
  <1>3. ASSUME UNCHANGED <<vars, reserved, cursor>> PROVE SInv'
    BY <1>3 DEF SInv, Begun, Listed, Resumable, vars, sessVars, allocVars, journalVars
  <1>4. ASSUME NEW u \in Users, Disconnect(u) PROVE SInv'
    BY <1>3, <1>4 DEF Disconnect
  <1>5. CASE UNCHANGED allVars
    BY <1>3, <1>5 DEF allVars, streamVars
  <1>6. QED
    BY <1>1, <1>2, <1>4, <1>5, PollSent, StoreSent, ZenonT(30) DEF StreamNext

LEMMA SInvHolds == StreamSpec => []SInv
  <1>1. StreamInit => SInv
    <2> SUFFICES ASSUME StreamInit PROVE SInv
      OBVIOUS
    <2>1. /\ reserved = <<>> /\ cursor = [u \in Users |-> <<>>]
          /\ \A a \in Allocs : desired[a] = "none"
          /\ \A s \in Sessions : currentGen[s] = 0
      BY DEF StreamInit, Init
    <2>2. QED
      BY <2>1 DEF SInv, Begun, Listed
  <1>2. Known /\ Base' /\ SInv /\ [StreamNext]_allVars => SInv'
    BY StreamStep
  <1>3. Known => Base
    BY DEF Known
  <1>4. QED
    BY <1>1, <1>2, <1>3, KnownHolds, PTL DEF StreamSpec

\* A cursor that a browser was sent can always be resumed by its user: the event
\* it names stays in its journal through resets, restarts and cleanup, so
\* ReadLifecycleDelta and BootstrapLifecycle never find it unavailable.
THEOREM EverySentCursorResumes == StreamSpec => []CursorsResumable
  <1>1. SInv => CursorsResumable
    BY DEF SInv, CursorsResumable, Resumable
  <1>2. QED
    BY <1>1, SInvHolds, PTL

-----------------------------------------------------------------------------
\* A tombstone is sent only when the user's newest session is gone.
LEMMA TombstoneMeansGone ==
    ASSUME Base, SInv, NEW u \in Users, OnCurrentSession(u), Tombstone(u)
    PROVE  ActiveLifecycleSession(u) = {}
  <1> SUFFICES ASSUME NEW s \in ActiveLifecycleSession(u) PROVE FALSE
    OBVIOUS
  <1>1. s = cursor[u][1]
    BY DEF OnCurrentSession
  <1>2. sessDesired[s] = "absent" /\ ~CleanupPending(s)
    BY <1>1 DEF Tombstone, TombstoneReady
  <1>3. Outstanding(u, s)
    BY ActiveIsOutstanding DEF SInv
  <1>4. QED
    BY <1>2, <1>3 DEF Outstanding, CleanupPending

\* A browser is told that it has no session only when nothing of any session of
\* its user is left at the provider: neither the bootstrap nor the tombstone of
\* the poll withdraws a session whose cleanup is still pending.
THEOREM WithdrawnMeansGone == StreamSpec => NullMeansGone
  <1>1. ASSUME Known, SInv, [StreamNext]_allVars
        PROVE  [\A u \in Users : cursor[u] # <<>> /\ cursor'[u] = <<>> =>
                   \A s \in Sessions : ~Outstanding(u, s)]_allVars
    <2> SUFFICES ASSUME NEW u \in Users, cursor[u] # <<>>, cursor'[u] = <<>>
                 PROVE  ActiveLifecycleSession(u) = {}
      BY <1>1, OutstandingIsActive, ZenonT(30) DEF Known, SInv
    <2>1. Base /\ cursor \in [Users -> Cursors \cup {<<>>}]
      BY <1>1 DEF Known, SInv
    <2>2. PICK v \in Users : Connect(v) \/ Poll(v)
      BY <1>1, ZenonT(30) DEF StreamNext, Follow, Disconnect, allVars, streamVars
    <2>3. v = u
      BY <2>1, <2>2, ZenonT(30) DEF Connect, Bootstrap, Poll, PollEmpty, Switch, ChangeGeneration,
         SendEvents,
         Tombstone, SendSnapshot, SendNull
    <2>4. CASE Connect(u)
      <3>1. PICK resume : (resume = cursor[u] \/ resume = <<>>) /\ Bootstrap(u, resume)
        BY <2>4 DEF Connect
      <3>2. UNCHANGED <<vars, reserved>>
        BY <2>4 DEF Connect
      <3>3. QED
        BY <1>1, <2>1, <3>1, <3>2, BootstrapSent, ZenonT(30)
    <2>5. CASE Poll(u)
      BY <1>1, <2>1, <2>5, PollSent, TombstoneMeansGone, ZenonT(30)
    <2>6. QED
      BY <2>2, <2>3, <2>4, <2>5, ZenonT(30)
  <1>2. QED
    BY <1>1, KnownHolds, SInvHolds, PTL DEF StreamSpec, NullMeansGone

-----------------------------------------------------------------------------
(***************************************************************************)
(* Snapshots.  What is recorded with an event has not been told before, so *)
(* that a step moves the watermark of a session or leaves its snapshot as  *)
(* it was.                                                                 *)
(***************************************************************************)
Untold(x) ==
    /\ desired[x] = "active" /\ sessState[x[1]] = "queued" => ~Has(events[x], "vm_created")
    /\ desired[x] = "active" /\ sessState[x[1]] \in {"queued", "booting"} =>
          ~Has(events[x], "setup_running")
    /\ outcome[x] = "none" => ~Has(events[x], "destroying")
    /\ \A k \in ClientOps :
          /\ opState[k] = "none" => ~Contains(events[x], <<"verify_started", k>>)
          /\ opState[k] \in {"none", "running"} => ~Contains(events[x], <<"verify_finished", k>>)
    /\ \A g \in Generations : observed[<<x[1], g>>] # "absent" =>
          ~Contains(events[x], <<"predecessor_destroyed", g>>)

\* What a restart still has to converge was not absent when it stopped, and
\* nothing else runs before it is converged.
Snapshotted ==
    /\ phase \in {"serving", "failing"} => recoverySet = {}
    /\ \A a \in recoverySet : observed[a] # "absent"

Fresh == Snapshotted /\ \A x \in Allocs : Untold(x)

\* A journal es that became fs: the same, or longer by events of E.
Says(es, fs, E) ==
    /\ Len(es) \in Nat /\ Len(fs) \in Nat
    /\ fs = es \/ Len(fs) > Len(es)
    /\ \A e : Contains(fs, e) => Contains(es, e) \/ e \in E

LEMMA AppendSays ==
    ASSUME NEW es \in Seq(Events), NEW e \in Events
    PROVE  /\ Append(es, e) \in Seq(Events) /\ Says(es, Append(es, e), {e})
           /\ Len(Append(es, e)) > Len(es)
  <1>1. /\ Append(es, e) \in Seq(Events) /\ Len(es) \in Nat /\ Len(Append(es, e)) = Len(es) + 1
        /\ \A i \in 1..Len(es) : Append(es, e)[i] = es[i]
        /\ Append(es, e)[Len(es) + 1] = e
    BY SMTT(30)
  <1>2. \A i \in 1..(Len(es) + 1) : i \in 1..Len(es) \/ i = Len(es) + 1
    BY <1>1, SMTT(30)
  <1>3. ASSUME NEW f, Contains(Append(es, e), f) PROVE Contains(es, f) \/ f = e
    <2>1. PICK i \in 1..(Len(es) + 1) : Append(es, e)[i] = f
      BY <1>1, <1>3 DEF Contains
    <2>2. QED
      BY <1>1, <1>2, <2>1 DEF Contains
  <1>4. Len(Append(es, e)) \in Nat /\ Len(Append(es, e)) > Len(es)
    BY <1>1, SMTT(30)
  <1>5. QED
    BY <1>1, <1>3, <1>4 DEF Says

LEMMA SameSays ==
    ASSUME NEW es \in Seq(Events), NEW E
    PROVE  Says(es, es, E)
  BY DEF Says

LEMMA EnsureSays ==
    ASSUME NEW es \in Seq(Events), NEW t \in EventTypes
    PROVE  /\ EnsureEvent(es, t) \in Seq(Events)
           /\ Says(es, EnsureEvent(es, t), {<<t>>})
           /\ ~Has(es, t) => Len(EnsureEvent(es, t)) > Len(es)
  <1>1. <<t>> \in Events
    BY DEF Events
  <1>2. QED
    BY <1>1, AppendSays, SameSays DEF EnsureEvent

LEMMA KeyedSays ==
    ASSUME NEW es \in Seq(Events), NEW t, NEW key, <<t, key>> \in Events
    PROVE  /\ EnsureKeyedEvent(es, t, key) \in Seq(Events)
           /\ Says(es, EnsureKeyedEvent(es, t, key), {<<t, key>>})
           /\ ~Contains(es, <<t, key>>) => Len(EnsureKeyedEvent(es, t, key)) > Len(es)
  <1>1. <<t, key>> \in Range(es) <=> Contains(es, <<t, key>>)
    <2>1. Range(es) = {es[i] : i \in 1..Len(es)}
      BY SMTT(30) DEF Range
    <2>2. QED
      BY <2>1 DEF Contains
  <1>2. PICK e : e = <<t, key>>
    OBVIOUS
  <1>3. QED
    BY <1>1, <1>2, AppendSays, SameSays DEF EnsureKeyedEvent

LEMMA SaysTwice ==
    ASSUME NEW es, NEW fs, NEW gs, NEW E, NEW F, Says(es, fs, E), Says(fs, gs, F)
    PROVE  /\ Says(es, gs, E \cup F)
           /\ Len(fs) > Len(es) \/ Len(gs) > Len(fs) => Len(gs) > Len(es)
  <1>1. gs = es \/ Len(gs) > Len(es)
    BY SMTT(30) DEF Says
  <1>2. Len(fs) > Len(es) \/ Len(gs) > Len(fs) => Len(gs) > Len(es)
    BY SMTT(30) DEF Says
  <1>3. QED
    BY <1>1, <1>2 DEF Says

\* Events a step may add to the journal of an allocation.
Permits(x, E) ==
    \A e \in E :
       /\ e[1] = "vm_created" => desired'[x] # "active" \/ sessState'[x[1]] # "queued"
       /\ e[1] = "setup_running" =>
             desired'[x] # "active" \/ sessState'[x[1]] \notin {"queued", "booting"}
       /\ e[1] = "destroying" => outcome'[x] # "none"
       /\ \A k \in ClientOps :
             /\ e = <<"verify_started", k>> => opState'[k] # "none"
             /\ e = <<"verify_finished", k>> => opState'[k] \notin {"none", "running"}
       /\ \A g \in Generations : e = <<"predecessor_destroyed", g>> => observed'[<<x[1], g>>] = "absent"

\* A step that takes nothing back from an allocation.
Forward(x) ==
    /\ desired'[x] = "active" /\ events[x] # <<>> =>
          /\ desired[x] = "active"
          /\ sessState'[x[1]] = "queued" => sessState[x[1]] = "queued"
          /\ sessState'[x[1]] \in {"queued", "booting"} => sessState[x[1]] \in {"queued", "booting"}
    /\ outcome'[x] = "none" => outcome[x] = "none"

OperationsForward ==
    \A k \in ClientOps :
       /\ opState'[k] = "none" => opState[k] = "none"
       /\ opState'[k] \in {"none", "running"} => opState[k] \in {"none", "running"}

LEMMA HasContains ==
    ASSUME NEW es, NEW t
    PROVE  Has(es, t) <=> \E e : Contains(es, e) /\ e[1] = t
  BY DEF Has, Contains

LEMMA EmptyContains ==
    ASSUME NEW e
    PROVE  ~Contains(<<>>, e)
  BY DEF Contains

LEMMA UntoldStep ==
    ASSUME NEW x \in Allocs, Untold(x), NEW E, Says(events[x], events'[x], E), Permits(x, E),
           Forward(x), OperationsForward, AbsenceStays
    PROVE  Untold(x)'
  <1>1. \A e : Contains(events'[x], e) => Contains(events[x], e) \/ e \in E
    BY DEF Says
  <1>2. \A g \in Generations : <<x[1], g>> \in Allocs
    BY AllocParts, AllocMade
  <1>3. desired'[x] = "active" /\ sessState'[x[1]] = "queued" => ~Has(events'[x], "vm_created")
    BY <1>1, HasContains, EmptyContains DEF Untold, Permits, Forward
  <1>4. desired'[x] = "active" /\ sessState'[x[1]] \in {"queued", "booting"} =>
           ~Has(events'[x], "setup_running")
    BY <1>1, HasContains, EmptyContains DEF Untold, Permits, Forward
  <1>5. outcome'[x] = "none" => ~Has(events'[x], "destroying")
    BY <1>1, HasContains DEF Untold, Permits, Forward
  <1>6. \A k \in ClientOps :
           /\ opState'[k] = "none" => ~Contains(events'[x], <<"verify_started", k>>)
           /\ opState'[k] \in {"none", "running"} => ~Contains(events'[x], <<"verify_finished", k>>)
    BY <1>1 DEF Untold, Permits, OperationsForward
  <1>7. \A g \in Generations : observed'[<<x[1], g>>] # "absent" =>
           ~Contains(events'[x], <<"predecessor_destroyed", g>>)
    BY <1>1, <1>2 DEF Untold, Permits, AbsenceStays
  <1>8. QED
    BY <1>3, <1>4, <1>5, <1>6, <1>7 DEF Untold

-----------------------------------------------------------------------------
Cur(s) == <<s, currentGen[s]>>

\* What a step does to the snapshot of a reserved session: it moves the
\* watermark, or it changes nothing but the cleanup of an older generation that
\* a restart converges.
Moved(s) ==
    currentGen'[s] # currentGen[s] \/ Len(events'[Cur(s)]) > Len(events[Cur(s)])

Unmoved(s) ==
    /\ sessState'[s] = sessState[s] /\ currentGen'[s] = currentGen[s]
    /\ events'[Cur(s)] = events[Cur(s)] /\ outcome'[Cur(s)] = outcome[Cur(s)]
    /\ Graded(s)' = Graded(s)
    /\ \/ CleanupPending(s)' <=> CleanupPending(s)
       \/ /\ ~CleanupPending(s)'
          /\ \E a \in recoverySet \ recoverySet' : a[1] = s /\ ~IsCurrent(a)

Tells ==
    /\ \A x \in Allocs : Untold(x)'
    /\ \A s \in Sessions : currentGen[s] > 0 => Moved(s) \/ Unmoved(s)

\* A step on the rows of one allocation and, if it is current, of its session.
OnlyAlloc(a) ==
    /\ currentGen' = currentGen
    /\ \A x \in Allocs \ {a} : events'[x] = events[x] /\ desired'[x] = desired[x]
                               /\ outcome'[x] = outcome[x] /\ observed'[x] = observed[x]
    /\ \A s \in Sessions : s # a[1] \/ ~IsCurrent(a) =>
          sessState'[s] = sessState[s] /\ sessDesired'[s] = sessDesired[s]

\* A step that stores or ends an operation on one allocation.
OperationsOf(a) ==
    \A k \in ClientOps :
       \/ opState'[k] = opState[k] /\ opAlloc'[k] = opAlloc[k]
       \/ opState[k] \in {"none", "running"} /\ opState'[k] # "none" /\ opAlloc'[k] = a
       \/ opState[k] = "end_pending" /\ opState'[k] = "end_failed"

\* A step that shows nothing of an allocation.
SameRow(a) ==
    /\ IsCurrent(a) => events'[a] = events[a] /\ outcome'[a] = outcome[a]
                       /\ sessState'[a[1]] = sessState[a[1]] /\ sessDesired'[a[1]] = sessDesired[a[1]]
    /\ Absent(a)' <=> Absent(a)
    /\ UNCHANGED clientVars

LEMMA CurIsAlloc ==
    ASSUME Base, NEW s \in Sessions, currentGen[s] > 0
    PROVE  Cur(s) \in Allocs /\ currentGen[s] \in Nat /\ \A g \in 1..currentGen[s] : <<s, g>> \in Allocs
  <1>1. currentGen[s] \in 0..MaxGen
    BY DEF Base, IInv, TypeOK
  <1>2. currentGen[s] \in Nat /\ \A g \in 1..currentGen[s] : g \in Generations
    BY <1>1, BoundsAssumption, SMTT(30) DEF Generations
  <1>3. currentGen[s] \in 1..currentGen[s]
    BY <1>2, SMTT(30)
  <1>4. QED
    BY <1>2, <1>3, AllocMade DEF Cur

LEMMA SameShown ==
    ASSUME Base, NEW s \in Sessions, currentGen[s] > 0,
           sessState'[s] = sessState[s], sessDesired'[s] = sessDesired[s], currentGen'[s] = currentGen[s],
           events'[Cur(s)] = events[Cur(s)], outcome'[Cur(s)] = outcome[Cur(s)],
           \A g \in 1..currentGen[s] : Absent(<<s, g>>)' <=> Absent(<<s, g>>),
           Graded(s)' = Graded(s)
    PROVE  Unmoved(s)
  <1>1. CleanupPending(s)' <=> CleanupPending(s)
    BY DEF CleanupPending
  <1>2. QED
    BY <1>1 DEF Unmoved

LEMMA OneUntold ==
    ASSUME Known, Fresh, AbsenceStays, NEW a \in Allocs, OnlyAlloc(a), NEW E,
           Says(events[a], events'[a], E), Permits(a, E), Forward(a), OperationsForward
    PROVE  \A x \in Allocs : Untold(x)'
  <1>1. Base /\ events \in [Allocs -> Seq(Events)] /\ a[1] \in Sessions /\ a = <<a[1], a[2]>>
    BY AllocParts DEF Known, Base, IInv, TypeOK
  <1>2. ASSUME NEW x \in Allocs \ {a} PROVE Untold(x)'
    <2>1. events'[x] = events[x] /\ desired'[x] = desired[x] /\ outcome'[x] = outcome[x]
      BY DEF OnlyAlloc
    <2>2. Says(events[x], events'[x], {}) /\ Permits(x, {})
      BY <1>1, <2>1, SameSays DEF Permits
    <2>3. x[1] = a[1] /\ IsCurrent(a) => ~IsCurrent(x)
      BY AllocParts, SMTT(30) DEF IsCurrent
    <2>4. desired[x] = "active" => sessState'[x[1]] = sessState[x[1]]
      BY <1>1, <2>3, AllocParts DEF OnlyAlloc, Base, Rows
    <2>5. Forward(x)
      BY <2>1, <2>4 DEF Forward
    <2>6. QED
      BY <2>2, <2>5, UntoldStep DEF Fresh
  <1>3. Untold(a)'
    BY UntoldStep DEF Fresh
  <1>4. QED
    BY <1>2, <1>3

\* The grades of a session whose current allocation the operations are not on.
LEMMA OtherGraded ==
    ASSUME NEW s, NEW a, OperationsOf(a), Cur(s) # a, currentGen'[s] = currentGen[s]
    PROVE  Graded(s)' = Graded(s)
  <1>1. \A k \in ClientOps :
           (opAlloc'[k] = <<s, currentGen'[s]>> /\ opState'[k] \in {"passed", "rejected"})
             <=> (opAlloc[k] = <<s, currentGen[s]>> /\ opState[k] \in {"passed", "rejected"})
    BY DEF OperationsOf, Cur
  <1>2. QED
    BY <1>1 DEF Graded

LEMMA OneTells ==
    ASSUME Known, Fresh, AbsenceStays, NEW a \in Allocs, OnlyAlloc(a), OperationsOf(a), NEW E,
           Says(events[a], events'[a], E), Permits(a, E), Forward(a), OperationsForward,
           (IsCurrent(a) /\ Len(events'[a]) > Len(events[a])) \/ SameRow(a)
    PROVE  Tells
  <1>1. Base /\ a[1] \in Sessions /\ a = <<a[1], a[2]>>
    BY AllocParts DEF Known
  <1>2. \A x \in Allocs : Untold(x)'
    BY OneUntold
  <1>4. ASSUME NEW s \in Sessions, currentGen[s] > 0 PROVE Moved(s) \/ Unmoved(s)
    <2>1. Cur(s) \in Allocs /\ (\A g \in 1..currentGen[s] : <<s, g>> \in Allocs)
      BY <1>1, <1>4, CurIsAlloc
    <2>2. currentGen'[s] = currentGen[s] /\ (Cur(s) = a <=> s = a[1] /\ IsCurrent(a))
      BY <1>1, SMTT(30) DEF OnlyAlloc, Cur, IsCurrent
    <2>3. CASE Cur(s) = a /\ Len(events'[a]) > Len(events[a])
      BY <2>3 DEF Moved
    <2>4. CASE Cur(s) # a \/ SameRow(a)
      <3>1. Graded(s)' = Graded(s)
        <4>1. CASE UNCHANGED clientVars
          BY <2>2, <4>1 DEF Graded, clientVars
        <4>2. CASE Cur(s) # a
          BY <2>2, <4>2, OtherGraded
        <4>3. QED
          BY <2>4, <4>1, <4>2 DEF SameRow
      <3>2. \A g \in 1..currentGen[s] : Absent(<<s, g>>)' <=> Absent(<<s, g>>)
        <4>1. ASSUME NEW g \in 1..currentGen[s], <<s, g>> # a PROVE Absent(<<s, g>>)' <=> Absent(<<s, g>>)
          BY <2>1, <4>1 DEF OnlyAlloc, Absent
        <4>2. CASE SameRow(a)
          BY <4>1, <4>2 DEF SameRow
        <4>3. CASE ~SameRow(a)
          <5>1. IsCurrent(a) /\ Cur(s) # a
            BY <2>4, <4>3
          <5>2. \A g : <<s, g>> # a
            BY <2>2, <5>1, <1>1
          <5>3. QED
            BY <4>1, <5>2
        <4>4. QED
          BY <4>2, <4>3
      <3>3. events'[Cur(s)] = events[Cur(s)] /\ outcome'[Cur(s)] = outcome[Cur(s)]
        BY <2>1, <2>2, <2>4 DEF OnlyAlloc, SameRow
      <3>4. sessState'[s] = sessState[s] /\ sessDesired'[s] = sessDesired[s]
        BY <2>2, <2>4 DEF OnlyAlloc, SameRow
      <3>5. QED
        BY <1>1, <1>4, <2>2, <3>1, <3>2, <3>3, <3>4, SameShown
    <2>5. QED
      BY <2>2, <2>3, <2>4
  <1>5. QED
    BY <1>2, <1>4 DEF Tells

\* A step that writes no row a snapshot is read from.
LEMMA QuietTells ==
    ASSUME Known, Fresh, AbsenceStays, UNCHANGED <<sessVars, allocVars, journalVars, opAlloc>>,
           \A k \in ClientOps : \/ opState'[k] = opState[k]
                                \/ opState[k] = "end_pending" /\ opState'[k] = "end_succeeded"
    PROVE  Tells
  <1>1. UNCHANGED <<sessState, sessDesired, currentGen, desired, observed, events, outcome, opAlloc>>
    BY DEF sessVars, allocVars, journalVars
  <1>2. ASSUME NEW x \in Allocs PROVE Untold(x)'
    <2>1. Forward(x) /\ OperationsForward /\ Permits(x, {})
      BY <1>1 DEF Forward, OperationsForward, Permits
    <2>2. Says(events[x], events'[x], {})
      BY <1>1, SameSays DEF Known, Base, IInv, TypeOK
    <2>3. QED
      BY <2>1, <2>2, UntoldStep DEF Fresh
  <1>3. ASSUME NEW s \in Sessions, currentGen[s] > 0 PROVE Unmoved(s)
    <2>1. Graded(s)' = Graded(s)
      BY <1>1 DEF Graded
    <2>2. QED
      BY <1>1, <1>3, <2>1, SameShown DEF Known, Absent
  <1>4. QED
    BY <1>2, <1>3 DEF Tells

-----------------------------------------------------------------------------
\* A current allocation that a step may add an event to: what was recorded with
\* the event shows that it is new.
LEMMA ServedTells ==
    ASSUME Known, Fresh, AbsenceStays, NEW a \in Allocs, Serviceable(a), OnlyAlloc(a),
           UNCHANGED <<clientVars, outcome>>, sessDesired'[a[1]] = sessDesired[a[1]],
           desired'[a] = desired[a], NEW t \in {"vm_created", "setup_running", "ready"},
           events'[a] = EnsureEvent(events[a], t),
           Has(events[a], t) => sessState'[a[1]] = sessState[a[1]],
           Permits(a, {<<t>>}), Forward(a)
    PROVE  Tells
  <1>1. events[a] \in Seq(Events) /\ t \in EventTypes
    BY DEF Known, Base, IInv, TypeOK, EventTypes
  <1>2. Says(events[a], events'[a], {<<t>>}) /\ (~Has(events[a], t) => Len(events'[a]) > Len(events[a]))
    BY <1>1, EnsureSays
  <1>3. OperationsOf(a) /\ OperationsForward
    BY DEF OperationsOf, OperationsForward, clientVars
  <1>4. desired[a] = "active" /\ IsCurrent(a)
    BY DEF Serviceable
  <1>5. CASE Has(events[a], t)
    <2>1. events'[a] = events[a]
      BY <1>5 DEF EnsureEvent
    <2>2. SameRow(a)
      BY <1>4, <1>5, <2>1 DEF SameRow, Absent
    <2>3. QED
      BY <1>2, <1>3, <2>2, OneTells
  <1>6. CASE ~Has(events[a], t)
    BY <1>2, <1>3, <1>4, <1>6, OneTells
  <1>7. QED
    BY <1>5, <1>6

LEMMA CreateTells ==
    ASSUME Known, Fresh, AbsenceStays, NEW a \in Allocs, Create(a)
    PROVE  Tells
  <1>1. /\ a[1] \in Sessions /\ events[a] \in Seq(Events)
        /\ sessState \in [Sessions -> SessionStates] /\ sessDesired \in [Sessions -> {"none", "active", "absent"}]
        /\ events \in [Allocs -> Seq(Events)] /\ desired \in [Allocs -> {"none", "active", "absent"}]
        /\ observed \in [Allocs -> ObservedStates] /\ outcome \in [Allocs -> Outcomes \cup {"none", "reset"}]
    BY AllocParts DEF Known, Base, IInv, TypeOK
  <1>2. Untold(a) /\ Link(a)
    BY DEF Fresh, Known, Linked
  <1>3. ASSUME NEW token, MarkClaimedCreateSucceeded(a, token) PROVE Tells
    <2>1. /\ Serviceable(a) /\ desired[a] = "active" /\ UNCHANGED <<clientVars, outcome>>
          /\ currentGen' = currentGen /\ sessDesired' = sessDesired /\ desired' = desired
          /\ sessState' = [sessState EXCEPT ![a[1]] = IF @ = "queued" THEN "booting" ELSE @]
          /\ observed' = [observed EXCEPT ![a] = IF @ = "unknown" THEN "provisioning" ELSE @]
          /\ events' = [events EXCEPT ![a] = EnsureEvent(@, "vm_created")]
      BY <1>3 DEF MarkClaimedCreateSucceeded, Serviceable
    <2>2. OnlyAlloc(a)
      BY <1>1, <2>1 DEF OnlyAlloc, Serviceable
    <2>3. events'[a] = EnsureEvent(events[a], "vm_created")
      BY <1>1, <2>1
    <2>4. sessState'[a[1]] = IF sessState[a[1]] = "queued" THEN "booting" ELSE sessState[a[1]]
      BY <1>1, <2>1
    <2>5. Permits(a, {<<"vm_created">>}) /\ Forward(a)
      BY <2>1, <2>4 DEF Permits, Forward
    <2>6. Has(events[a], "vm_created") => sessState'[a[1]] = sessState[a[1]]
      BY <1>2, <2>1, <2>4 DEF Untold
    <2>7. QED
      BY <2>1, <2>2, <2>3, <2>5, <2>6, ServedTells
  <1>4. CASE MarkSettingUp(a)
    <2>1. /\ Serviceable(a) /\ desired[a] = "active" /\ UNCHANGED <<clientVars, outcome>>
          /\ currentGen' = currentGen /\ sessDesired' = sessDesired /\ desired' = desired /\ observed' = observed
          /\ sessState[a[1]] \in {"booting", "setting_up", "ready", "verifying"}
          /\ sessState' = [sessState EXCEPT ![a[1]] = IF SetupAdvanced(a) THEN @ ELSE "setting_up"]
          /\ events' = [events EXCEPT ![a] = EnsureEvent(@, "setup_running")]
      BY <1>4 DEF MarkSettingUp, Serviceable, allocVars
    <2>2. OnlyAlloc(a)
      BY <1>1, <2>1 DEF OnlyAlloc, Serviceable
    <2>3. events'[a] = EnsureEvent(events[a], "setup_running")
      BY <1>1, <2>1
    <2>4. sessState'[a[1]] = IF sessState[a[1]] \in {"ready", "verifying"} THEN sessState[a[1]] ELSE "setting_up"
      BY <1>1, <2>1 DEF SetupAdvanced
    <2>5. Permits(a, {<<"setup_running">>}) /\ Forward(a)
      BY <2>1, <2>4 DEF Permits, Forward
    <2>6. Has(events[a], "setup_running") => sessState'[a[1]] = sessState[a[1]]
      BY <1>2, <2>1, <2>4 DEF Untold
    <2>7. QED
      BY <2>1, <2>2, <2>3, <2>5, <2>6, ServedTells
  <1>5. CASE MarkReady(a)
    <2>1. /\ Serviceable(a) /\ desired[a] = "active" /\ UNCHANGED <<clientVars, outcome>>
          /\ currentGen' = currentGen /\ sessDesired' = sessDesired /\ desired' = desired
          /\ sessState[a[1]] \in {"booting", "setting_up"}
          /\ observed' = [observed EXCEPT ![a] = "running"]
          /\ sessState' = [sessState EXCEPT ![a[1]] = "ready"]
          /\ events' = [events EXCEPT ![a] = EnsureEvent(@, "ready")]
      BY <1>5 DEF MarkReady, Serviceable
    <2>2. OnlyAlloc(a)
      BY <1>1, <2>1 DEF OnlyAlloc, Serviceable
    <2>3. events'[a] = EnsureEvent(events[a], "ready") /\ sessState'[a[1]] = "ready"
      BY <1>1, <2>1
    <2>4. Permits(a, {<<"ready">>}) /\ Forward(a)
      BY <2>1, <2>3, SMTT(30) DEF Permits, Forward
    <2>5. ~Has(events[a], "ready")
      BY <1>2, <2>1 DEF Link
    <2>6. QED
      BY <2>1, <2>2, <2>3, <2>4, <2>5, ServedTells
  <1>6. ASSUME NEW token, MarkClaimedCreateFailed(a, token) PROVE Tells
    <2>1. /\ Serviceable(a) /\ desired[a] = "active" /\ UNCHANGED <<clientVars, outcome>>
          /\ currentGen' = currentGen
          /\ sessDesired' = [sessDesired EXCEPT ![a[1]] = "absent"]
          /\ desired' = [desired EXCEPT ![a] = "absent"]
          /\ observed' = [observed EXCEPT ![a] = "error"]
          /\ sessState' = [sessState EXCEPT ![a[1]] = "failed"]
          /\ events' = [events EXCEPT ![a] = EnsureEvent(EnsureEvent(@, "failed"), "cleanup_required")]
      BY <1>6 DEF MarkClaimedCreateFailed, Serviceable
    <2>2. OnlyAlloc(a)
      BY <1>1, <2>1 DEF OnlyAlloc, Serviceable
    <2>3. PICK es : es = EnsureEvent(events[a], "failed")
      OBVIOUS
    <2>4. events'[a] = EnsureEvent(es, "cleanup_required") /\ desired'[a] = "absent" /\ outcome'[a] = outcome[a]
      BY <1>1, <2>1, <2>3
    <2>5. ~Has(events[a], "failed")
      BY <1>2, <2>1 DEF Link, Clean, TerminalTypes
    <2>6. es \in Seq(Events) /\ Says(events[a], es, {<<"failed">>}) /\ Len(es) > Len(events[a])
      BY <1>1, <2>3, <2>5, EnsureSays DEF EventTypes
    <2>7. Says(es, events'[a], {<<"cleanup_required">>})
      BY <2>4, <2>6, EnsureSays DEF EventTypes
    <2>8. /\ Says(events[a], events'[a], {<<"failed">>} \cup {<<"cleanup_required">>})
          /\ Len(events'[a]) > Len(events[a])
      BY <2>6, <2>7, SaysTwice
    <2>9. Permits(a, {<<"failed">>} \cup {<<"cleanup_required">>}) /\ Forward(a)
      BY <2>4 DEF Permits, Forward
    <2>10. OperationsOf(a) /\ OperationsForward
      BY <2>1 DEF OperationsOf, OperationsForward, clientVars
    <2>11. QED
      BY <2>1, <2>2, <2>8, <2>9, <2>10, OneTells DEF Serviceable
  <1>7. CASE UNCHANGED <<sessVars, allocVars, journalVars, clientVars>>
    BY <1>7, QuietTells DEF clientVars
  <1>8. QED
    BY <1>3, <1>4, <1>5, <1>6, <1>7 DEF Create, ClaimProvisionableCreate, CreateLeaseExpires

LEMMA RequestDestroyTells ==
    ASSUME Known, Fresh, AbsenceStays, NEW a \in Allocs, NEW o \in DestroyOutcomes, RequestDestroy(a, o)
    PROVE  Tells
  <1>1. /\ a[1] \in Sessions /\ events[a] \in Seq(Events)
        /\ sessState \in [Sessions -> SessionStates] /\ sessDesired \in [Sessions -> {"none", "active", "absent"}]
        /\ events \in [Allocs -> Seq(Events)] /\ desired \in [Allocs -> {"none", "active", "absent"}]
        /\ observed \in [Allocs -> ObservedStates] /\ outcome \in [Allocs -> Outcomes \cup {"none", "reset"}]
    BY AllocParts DEF Known, Base, IInv, TypeOK
  <1>2. /\ UNCHANGED clientVars /\ currentGen' = currentGen /\ OutcomeAcceptable(a, o) /\ desired[a] # "none"
        /\ sessState' = [sessState EXCEPT ![a[1]] = IF IsCurrent(a) /\ outcome[a] = "none" THEN o ELSE @]
        /\ sessDesired' = [sessDesired EXCEPT ![a[1]] = IF IsCurrent(a) /\ outcome[a] = "none" THEN "absent" ELSE @]
        /\ desired' = [desired EXCEPT ![a] = "absent"]
        /\ observed' = [observed EXCEPT ![a] = IF desired[a] = "absent" THEN @ ELSE Deleting(@)]
        /\ events' = [events EXCEPT ![a] =
              EnsureEvent(IF IsCurrent(a) THEN EnsureEvent(@, o) ELSE @, "destroying")]
        /\ outcome' = [outcome EXCEPT ![a] = FirstOutcome(@, o)]
    BY DEF RequestDestroy
  <1>3. OnlyAlloc(a)
    BY <1>1, <1>2 DEF OnlyAlloc
  <1>4. PICK es : es = IF IsCurrent(a) THEN EnsureEvent(events[a], o) ELSE events[a]
    OBVIOUS
  <1>5. /\ events'[a] = EnsureEvent(es, "destroying") /\ desired'[a] = "absent"
        /\ outcome'[a] = IF outcome[a] = "none" THEN o ELSE outcome[a]
    BY <1>1, <1>2, <1>4 DEF FirstOutcome
  <1>6. o \in EventTypes /\ o # "none" /\ o # "destroying" /\ "destroying" \in EventTypes
    BY DEF DestroyOutcomes, EventTypes
  <1>7. es \in Seq(Events) /\ Says(events[a], es, {<<o>>})
    BY <1>1, <1>4, <1>6, EnsureSays, SameSays
  <1>8. Says(es, events'[a], {<<"destroying">>}) /\ (~Has(es, "destroying") => Len(events'[a]) > Len(es))
    BY <1>5, <1>6, <1>7, EnsureSays
  <1>9. /\ Says(events[a], events'[a], {<<o>>} \cup {<<"destroying">>})
        /\ Len(es) > Len(events[a]) \/ Len(events'[a]) > Len(es) => Len(events'[a]) > Len(events[a])
    BY <1>7, <1>8, SaysTwice
  <1>10. Permits(a, {<<o>>} \cup {<<"destroying">>}) /\ Forward(a)
    BY <1>5, <1>6 DEF Permits, Forward
  <1>11. OperationsOf(a) /\ OperationsForward
    BY <1>2 DEF OperationsOf, OperationsForward, clientVars
  <1>12. (IsCurrent(a) /\ Len(events'[a]) > Len(events[a])) \/ SameRow(a)
    <2>1. CASE IsCurrent(a) /\ outcome[a] = "none"
      <3>1. es = events[a] \/ Len(es) > Len(events[a])
        BY <1>7 DEF Says
      <3>2. ~Has(events[a], "destroying")
        BY <2>1 DEF Fresh, Untold
      <3>3. QED
        BY <1>8, <1>9, <2>1, <3>1, <3>2
    <2>2. CASE IsCurrent(a) => outcome[a] # "none"
      <3>1. desired[a] = "absent"
        BY <1>1, <1>2, <2>2, SMTT(30) DEF Known, Base, Rows, Verdicts
      <3>2. Absent(a)' <=> Absent(a)
        BY <1>1, <1>2, <3>1 DEF Absent
      <3>3. IsCurrent(a) => /\ outcome'[a] = outcome[a] /\ sessState'[a[1]] = sessState[a[1]]
                            /\ sessDesired'[a[1]] = sessDesired[a[1]]
        BY <1>1, <1>2, <1>5, <2>2
      <3>4. events'[a] = events[a] \/ Len(events'[a]) > Len(events[a])
        BY <1>9 DEF Says
      <3>5. QED
        BY <1>2, <3>2, <3>3, <3>4 DEF SameRow
    <2>3. QED
      BY <2>1, <2>2
  <1>13. QED
    BY <1>3, <1>9, <1>10, <1>11, <1>12, OneTells

LEMMA RetryDestroyTells ==
    ASSUME Known, Fresh, AbsenceStays, NEW a \in Allocs, NEW token, RetryDestroyWork(a, token)
    PROVE  Tells
  <1>1. events \in [Allocs -> Seq(Events)] /\ events[a] \in Seq(Events)
    BY DEF Known, Base, IInv, TypeOK
  <1>2. /\ UNCHANGED <<sessState, sessDesired, currentGen, desired, observed, outcome, clientVars>>
        /\ events' = [events EXCEPT ![a] = EnsureEvent(@, "cleanup_required")]
    BY DEF RetryDestroyWork, sessVars, allocVars
  <1>3. Says(events[a], events'[a], {<<"cleanup_required">>})
    BY <1>1, <1>2, EnsureSays DEF EventTypes
  <1>4. OnlyAlloc(a) /\ OperationsOf(a) /\ OperationsForward /\ Forward(a)
    BY <1>1, <1>2 DEF OnlyAlloc, OperationsOf, OperationsForward, Forward, clientVars
  <1>5. Permits(a, {<<"cleanup_required">>})
    BY DEF Permits
  <1>6. (IsCurrent(a) /\ Len(events'[a]) > Len(events[a])) \/ SameRow(a)
    BY <1>2, <1>3 DEF Says, SameRow, Absent
  <1>7. QED
    BY <1>3, <1>4, <1>5, <1>6, OneTells

\* A session whose rows a step leaves alone.
LEMMA OtherShown ==
    ASSUME Known, NEW t \in Sessions, currentGen[t] > 0,
           sessState'[t] = sessState[t], sessDesired'[t] = sessDesired[t], currentGen'[t] = currentGen[t],
           \A x \in Allocs : x[1] = t => events'[x] = events[x] /\ desired'[x] = desired[x]
                                         /\ outcome'[x] = outcome[x] /\ observed'[x] = observed[x],
           \A k \in ClientOps : \/ opState'[k] = opState[k] /\ opAlloc'[k] = opAlloc[k]
                                \/ /\ opState[k] \notin {"passed", "rejected"}
                                   /\ opState'[k] \notin {"passed", "rejected"}
    PROVE  Unmoved(t)
  <1>1. Cur(t) \in Allocs /\ Cur(t)[1] = t /\ \A g \in 1..currentGen[t] : <<t, g>> \in Allocs
    BY CurIsAlloc DEF Known, Cur
  <1>2. \A g \in 1..currentGen[t] : Absent(<<t, g>>)' <=> Absent(<<t, g>>)
    BY <1>1 DEF Absent
  <1>3. Graded(t)' = Graded(t)
    <2>1. \A k \in ClientOps :
             (opAlloc'[k] = <<t, currentGen'[t]>> /\ opState'[k] \in {"passed", "rejected"})
               <=> (opAlloc[k] = <<t, currentGen[t]>> /\ opState[k] \in {"passed", "rejected"})
      OBVIOUS
    <2>2. QED
      BY <2>1 DEF Graded
  <1>4. QED
    BY <1>1, <1>2, <1>3, SameShown DEF Known

LEMMA DestroyedTells ==
    ASSUME Known, Fresh, AbsenceStays, NEW a \in Allocs, NEW token, MarkClaimedDestroyed(a, token)
    PROVE  Tells
  <1>1. /\ a[1] \in Sessions /\ a[2] \in Generations /\ a[2] \in Nat /\ a = <<a[1], a[2]>>
        /\ sessState \in [Sessions -> SessionStates] /\ sessDesired \in [Sessions -> {"none", "active", "absent"}]
        /\ events \in [Allocs -> Seq(Events)] /\ desired \in [Allocs -> {"none", "active", "absent"}]
        /\ observed \in [Allocs -> ObservedStates] /\ currentGen[a[1]] \in Nat
    BY AllocParts, BoundsAssumption, SMTT(30) DEF Known, Base, IInv, TypeOK
  <1>2. /\ UNCHANGED <<clientVars, currentGen, desired, outcome>> /\ desired[a] = "absent"
        /\ observed' = [observed EXCEPT ![a] = "absent"] /\ events' = DestroyedEvents(a)
        /\ sessState' = [sessState EXCEPT ![a[1]] = IF IsCurrent(a) THEN "destroyed" ELSE @]
        /\ sessDesired' = [sessDesired EXCEPT ![a[1]] = IF IsCurrent(a) THEN "absent" ELSE @]
        /\ destroyOp[a] = "running"
    BY DEF MarkClaimedDestroyed, HoldsLease
  <1>3. observed[a] # "absent" /\ observed'[a] = "absent"
    BY <1>1, <1>2 DEF Known, Base, IInv, CleanupNeverLost, Unfinished
  <1>4. OperationsForward /\ OperationsOf(a)
    BY <1>2 DEF OperationsForward, OperationsOf, clientVars
  <1>5. \A x \in Allocs : Forward(x) \/ desired[x] = "active"
    BY <1>2 DEF Forward
  <1>6. ~Has(events[a], "destroyed")
    BY <1>3 DEF Known, Linked, Link
  <1>7. PICK es : es = EnsureEvent(events[a], "destroyed")
    OBVIOUS
  <1>8. Says(events[a], es, {<<"destroyed">>}) /\ Len(es) > Len(events[a]) /\ Permits(a, {<<"destroyed">>})
    BY <1>1, <1>6, <1>7, EnsureSays DEF EventTypes, Permits
  <1>9. CASE IsCurrent(a)
    <2>1. events' = [events EXCEPT ![a] = EnsureEvent(@, "destroyed")]
      BY <1>2, <1>9 DEF DestroyedEvents
    <2>2. events'[a] = es
      BY <1>1, <1>7, <2>1
    <2>3. OnlyAlloc(a)
      BY <1>1, <1>2, <2>1 DEF OnlyAlloc
    <2>4. Says(events[a], events'[a], {<<"destroyed">>}) /\ Len(events'[a]) > Len(events[a])
      BY <1>8, <2>2
    <2>5. Forward(a) /\ Permits(a, {<<"destroyed">>})
      BY <1>2, <1>5, <1>8
    <2>6. QED
      BY <1>4, <1>9, <2>3, <2>4, <2>5, OneTells
  <1>10. CASE ~IsCurrent(a)
    <2>1. PICK c : c = Cur(a[1])
      OBVIOUS
    <2>2. currentGen[a[1]] > 0
      <3>1. ~(a[2] > currentGen[a[1]])
        BY <1>2 DEF Known, Base, Rows
      <3>2. QED
        BY <1>1, <3>1, AllocParts, SMTT(30)
    <2>3. c \in Allocs /\ c # a /\ c[1] = a[1]
      <3>1. c \in Allocs
        BY <1>1, <2>1, <2>2, CurIsAlloc DEF Known
      <3>2. c = <<a[1], currentGen[a[1]]>> /\ currentGen[a[1]] # a[2]
        BY <1>10, <2>1 DEF Cur, IsCurrent
      <3>3. c[1] = a[1] /\ c[2] # a[2]
        BY <3>2
      <3>4. QED
        BY <3>1, <3>3
    <2>4. events' = [[events EXCEPT ![c] = EnsureKeyedEvent(@, "predecessor_destroyed", a[2])]
                       EXCEPT ![a] = EnsureEvent(@, "destroyed")]
      BY <1>2, <1>10, <2>1 DEF DestroyedEvents, Cur
    <2>5. PICK fs : fs = EnsureKeyedEvent(events[c], "predecessor_destroyed", a[2])
      OBVIOUS
    <2>6. events'[a] = es /\ events'[c] = fs /\ \A x \in Allocs \ {a, c} : events'[x] = events[x]
      BY <1>1, <1>7, <2>3, <2>4, <2>5
    <2>7. sessState' = sessState /\ sessDesired' = sessDesired
      BY <1>1, <1>2, <1>10
    <2>8. <<"predecessor_destroyed", a[2]>> \in Events
      BY <1>1 DEF Events
    <2>9. ~Contains(events[c], <<"predecessor_destroyed", a[2]>>)
      BY <1>1, <1>3, <2>3 DEF Fresh, Untold
    <2>10. Says(events[c], fs, {<<"predecessor_destroyed", a[2]>>}) /\ Len(fs) > Len(events[c])
      BY <1>1, <2>3, <2>5, <2>8, <2>9, KeyedSays
    <2>11. \A x \in Allocs : Forward(x)
      BY <1>2, <2>7 DEF Forward
    <2>12. ASSUME NEW x \in Allocs PROVE Untold(x)'
      <3>1. CASE x = a
        BY <1>4, <1>8, <2>6, <2>11, <3>1, UntoldStep DEF Fresh
      <3>2. CASE x = c
        <4>1. PICK e : e = <<"predecessor_destroyed", a[2]>>
          OBVIOUS
        <4>2. e[1] = "predecessor_destroyed" /\ e[2] = a[2]
          BY <4>1
        <4>3. \A g \in Generations : e = <<"predecessor_destroyed", g>> => observed'[<<c[1], g>>] = "absent"
          <5>1. observed'[<<c[1], a[2]>>] = "absent"
            BY <1>1, <1>3, <2>3
          <5>2. \A g : e = <<"predecessor_destroyed", g>> => g = a[2]
            BY <4>2
          <5>3. QED
            BY <5>1, <5>2
        <4>4. \A k \in ClientOps : e # <<"verify_started", k>> /\ e # <<"verify_finished", k>>
          BY <4>2
        <4>5. Permits(c, {e})
          BY <4>2, <4>3, <4>4 DEF Permits
        <4>6. QED
          BY <1>4, <2>6, <2>10, <2>11, <3>2, <4>1, <4>5, UntoldStep DEF Fresh
      <3>3. CASE x \notin {a, c}
        <4>1. Says(events[x], events'[x], {}) /\ Permits(x, {})
          BY <1>1, <2>6, <3>3, SameSays DEF Permits
        <4>2. QED
          BY <1>4, <2>11, <4>1, UntoldStep DEF Fresh
      <3>4. QED
        BY <3>1, <3>2, <3>3
    <2>13. ASSUME NEW s \in Sessions, currentGen[s] > 0 PROVE Moved(s) \/ Unmoved(s)
      <3>1. CASE s = a[1]
        BY <2>1, <2>6, <2>10, <3>1 DEF Moved
      <3>2. CASE s # a[1]
        <4>1. \A x \in Allocs : x[1] = s => x \notin {a, c}
          BY <2>3, <3>2
        <4>2. \A x \in Allocs : x[1] = s => events'[x] = events[x] /\ observed'[x] = observed[x]
          BY <1>1, <1>2, <2>6, <4>1
        <4>3. QED
          BY <1>2, <2>7, <2>13, <4>2, OtherShown DEF clientVars
      <3>3. QED
        BY <3>1, <3>2
    <2>14. QED
      BY <2>12, <2>13 DEF Tells
  <1>11. QED
    BY <1>9, <1>10

\* A restart tells the end of the current allocation, and ends the cleanup of
\* an older one without a word to the current journal.
LEMMA ConvergeTells ==
    ASSUME Known, Fresh, AbsenceStays, NEW a \in Allocs, ConvergeLocalRestart(a)
    PROVE  Tells
  <1>1. /\ a[1] \in Sessions /\ a = <<a[1], a[2]>> /\ events[a] \in Seq(Events)
        /\ sessState \in [Sessions -> SessionStates] /\ sessDesired \in [Sessions -> {"none", "active", "absent"}]
        /\ events \in [Allocs -> Seq(Events)] /\ desired \in [Allocs -> {"none", "active", "absent"}]
        /\ observed \in [Allocs -> ObservedStates]
    BY AllocParts DEF Known, Base, IInv, TypeOK
  <1>2. PICK failed : /\ failed = events[a] \/ failed = EnsureEvent(events[a], "failed")
                      /\ events' = [events EXCEPT ![a] = EnsureEvent(failed, "destroyed")]
    BY DEF ConvergeLocalRestart
  <1>3. /\ UNCHANGED <<currentGen, outcome, opAlloc>> /\ a \in recoverySet
        /\ recoverySet' = recoverySet \ {a} /\ opState' = [k \in ClientOps |-> SweptClient(k, a)]
        /\ desired' = [desired EXCEPT ![a] = "absent"] /\ observed' = [observed EXCEPT ![a] = "absent"]
        /\ sessState' = [sessState EXCEPT ![a[1]] = IF IsCurrent(a) THEN "destroyed" ELSE @]
        /\ sessDesired' = [sessDesired EXCEPT ![a[1]] = IF IsCurrent(a) THEN "absent" ELSE @]
    BY DEF ConvergeLocalRestart, ConvergeNext
  <1>4. ~Has(events[a], "destroyed")
    BY <1>3 DEF Fresh, Snapshotted, Known, Linked, Link
  <1>5. /\ failed \in Seq(Events) /\ Says(events[a], failed, {<<"failed">>}) /\ ~Has(failed, "destroyed")
    <2>1. failed \in Seq(Events) /\ Says(events[a], failed, {<<"failed">>})
      BY <1>1, <1>2, EnsureSays, SameSays DEF EventTypes
    <2>2. \A e : Contains(failed, e) => Contains(events[a], e) \/ e = <<"failed">>
      BY <2>1 DEF Says
    <2>3. QED
      BY <1>4, <2>1, <2>2, HasContains
  <1>6. PICK E : E = {<<"failed">>} \cup {<<"destroyed">>}
    OBVIOUS
  <1>7. Says(events[a], events'[a], E) /\ Len(events'[a]) > Len(events[a])
    <2>1. events'[a] = EnsureEvent(failed, "destroyed")
      BY <1>1, <1>2
    <2>2. Says(failed, events'[a], {<<"destroyed">>}) /\ Len(events'[a]) > Len(failed)
      BY <1>5, <2>1, EnsureSays DEF EventTypes
    <2>3. QED
      BY <1>5, <1>6, <2>2, SaysTwice
  <1>8. Permits(a, E) /\ Forward(a)
    BY <1>1, <1>3, <1>6 DEF Permits, Forward
  <1>9. OperationsOf(a) /\ OperationsForward
    BY <1>3 DEF OperationsOf, OperationsForward, SweptClient
  <1>10. OnlyAlloc(a)
    BY <1>1, <1>2, <1>3 DEF OnlyAlloc
  <1>11. CASE IsCurrent(a)
    BY <1>7, <1>8, <1>9, <1>10, <1>11, OneTells
  <1>12. CASE ~IsCurrent(a)
    <2>1. \A x \in Allocs : Untold(x)'
      BY <1>7, <1>8, <1>9, <1>10, OneUntold
    <2>2. ASSUME NEW s \in Sessions, currentGen[s] > 0 PROVE Unmoved(s)
      <3>1. Cur(s) \in Allocs /\ Cur(s) # a /\ \A g \in 1..currentGen[s] : <<s, g>> \in Allocs
        BY <1>1, <1>12, <2>2, CurIsAlloc DEF Cur, IsCurrent, Known
      <3>2. /\ sessState'[s] = sessState[s] /\ sessDesired'[s] = sessDesired[s]
            /\ currentGen'[s] = currentGen[s] /\ events'[Cur(s)] = events[Cur(s)]
            /\ outcome'[Cur(s)] = outcome[Cur(s)]
        BY <1>10, <1>12, <3>1 DEF OnlyAlloc
      <3>3. Graded(s)' = Graded(s)
        BY <1>9, <3>1, <3>2, OtherGraded
      <3>4. \A g \in 1..currentGen[s] : Absent(<<s, g>>) => Absent(<<s, g>>)'
        BY <1>1, <1>3, <3>1 DEF AbsenceStays, Absent
      <3>5. CASE s = a[1]
        <4>1. CleanupPending(s)' => CleanupPending(s)
          BY <3>2, <3>4 DEF CleanupPending
        <4>2. a \in recoverySet \ recoverySet'
          BY <1>3
        <4>3. QED
          BY <1>12, <3>2, <3>3, <3>5, <4>1, <4>2 DEF Unmoved
      <3>6. CASE s # a[1]
        <4>1. \A g \in 1..currentGen[s] : <<s, g>> # a
          BY <1>1, <3>6
        <4>2. \A g \in 1..currentGen[s] : Absent(<<s, g>>)' <=> Absent(<<s, g>>)
          BY <1>10, <3>1, <4>1 DEF OnlyAlloc, Absent
        <4>3. QED
          BY <2>2, <3>2, <3>3, <4>2, SameShown DEF Known
      <3>7. QED
        BY <3>5, <3>6
    <2>3. QED
      BY <2>1, <2>2 DEF Tells
  <1>13. QED
    BY <1>11, <1>12

LEMMA DestroyTells ==
    ASSUME Known, Fresh, AbsenceStays, NEW a \in Allocs, Destroy(a)
    PROVE  Tells
  <1>1. CASE ClaimDestroyWork(a) \/ DestroyLeaseExpires(a)
    BY <1>1, QuietTells DEF ClaimDestroyWork, DestroyLeaseExpires, clientVars
  <1>2. QED
    BY <1>1, RequestDestroyTells, RetryDestroyTells, DestroyedTells, ConvergeTells DEF Destroy

-----------------------------------------------------------------------------
\* The events of a verification.
LEMMA KeyedEvents ==
    ASSUME NEW k \in ClientOps, NEW t \in {"verify_started", "verify_finished"}
    PROVE  /\ <<t, k>> \in Events
           /\ \A x \in Allocs : (/\ t = "verify_started" => opState'[k] # "none"
                                 /\ t = "verify_finished" => opState'[k] \notin {"none", "running"})
                 => Permits(x, {<<t, k>>})
  <1>1. <<t, k>> \in Events
    BY DEF Events
  <1>2. PICK e : e = <<t, k>>
    OBVIOUS
  <1>3. e[1] = t /\ e[2] = k
    BY <1>2
  <1>4. /\ \A l, u : e = <<u, l>> => u = t /\ l = k
        /\ \A g \in Generations : e # <<"predecessor_destroyed", g>>
    BY <1>3
  <1>5. ASSUME NEW x \in Allocs,
               t = "verify_started" => opState'[k] # "none",
               t = "verify_finished" => opState'[k] \notin {"none", "running"}
        PROVE  Permits(x, {e})
    BY <1>3, <1>4, <1>5 DEF Permits
  <1>6. QED
    BY <1>1, <1>2, <1>5

\* A grade of operation k on a current allocation.
LEMMA GradeTells ==
    ASSUME Known, Fresh, AbsenceStays, NEW a \in Allocs, IsCurrent(a), currentGen' = currentGen,
           NEW k \in ClientOps, NEW result \in Results, opState[k] \in {"none", "running"},
           opState' = [opState EXCEPT ![k] = result], opAlloc'[k] = a,
           \A l \in ClientOps \ {k} : opAlloc'[l] = opAlloc[l],
           IF result = "passed" THEN GradePassed(a) ELSE GradeNotPassed(a),
           NEW es \in Seq(Events), NEW E, Says(events[a], es, E), Permits(a, E),
           ~Contains(es, <<"verify_finished", k>>),
           events' = [events EXCEPT ![a] = FinishedEvents(es, k, result)]
    PROVE  Tells
  <1>1. /\ a[1] \in Sessions /\ opState \in [ClientOps -> ClientStates]
        /\ sessState \in [Sessions -> SessionStates] /\ sessDesired \in [Sessions -> {"none", "active", "absent"}]
        /\ events \in [Allocs -> Seq(Events)] /\ desired \in [Allocs -> {"none", "active", "absent"}]
        /\ observed \in [Allocs -> ObservedStates] /\ outcome \in [Allocs -> Outcomes \cup {"none", "reset"}]
    BY AllocParts DEF Known, Base, IInv, TypeOK
  <1>2. opState'[k] = result /\ result \notin {"none", "running"}
        /\ \A l \in ClientOps \ {k} : opState'[l] = opState[l]
    BY <1>1 DEF Results
  <1>3. OperationsOf(a) /\ OperationsForward
    BY <1>2 DEF OperationsOf, OperationsForward
  <1>4. OnlyAlloc(a)
    BY <1>1, SMTT(30) DEF OnlyAlloc, GradePassed, GradeNotPassed
  <1>5. /\ result = "passed" => desired'[a] = "absent" /\ outcome'[a] # "none"
        /\ result # "passed" => desired'[a] = desired[a] /\ outcome'[a] = outcome[a] /\ sessState'[a[1]] = "ready"
    BY <1>1 DEF GradePassed, GradeNotPassed, FirstOutcome
  <1>6. Forward(a)
    BY <1>5 DEF Forward
  <1>7. PICK fs : fs = EnsureKeyedEvent(es, "verify_finished", k)
    OBVIOUS
  <1>8. /\ fs \in Seq(Events) /\ Says(es, fs, {<<"verify_finished", k>>}) /\ Len(fs) > Len(es)
        /\ Permits(a, {<<"verify_finished", k>>})
    BY <1>2, <1>7, KeyedSays, KeyedEvents
  <1>9. Says(events[a], fs, E \cup {<<"verify_finished", k>>}) /\ Len(fs) > Len(events[a])
    BY <1>8, SaysTwice
  <1>10. events'[a] = IF result = "passed" THEN EnsureEvent(fs, "destroying") ELSE fs
    BY <1>1, <1>7 DEF FinishedEvents
  <1>11. Permits(a, E \cup {<<"verify_finished", k>>})
    BY <1>8 DEF Permits
  <1>12. CASE result = "passed"
    <2>1. Says(fs, events'[a], {<<"destroying">>})
      BY <1>8, <1>10, <1>12, EnsureSays DEF EventTypes
    <2>2. /\ Says(events[a], events'[a], (E \cup {<<"verify_finished", k>>}) \cup {<<"destroying">>})
          /\ Len(events'[a]) > Len(events[a])
      BY <1>9, <2>1, SaysTwice, SMTT(30)
    <2>3. Permits(a, {<<"destroying">>})
      BY <1>5, <1>12, SMTT(30) DEF Permits
    <2>4. Permits(a, (E \cup {<<"verify_finished", k>>}) \cup {<<"destroying">>})
      BY <1>11, <2>3 DEF Permits
    <2>5. QED
      BY <1>3, <1>4, <1>6, <2>2, <2>4, OneTells
  <1>13. CASE result # "passed"
    <2>1. events'[a] = fs
      BY <1>10, <1>13
    <2>2. QED
      BY <1>3, <1>4, <1>6, <1>9, <1>11, <2>1, OneTells
  <1>14. QED
    BY <1>12, <1>13

LEMMA VerifyTells ==
    ASSUME Known, Fresh, AbsenceStays, NEW k \in ClientOps,
           \/ \E a \in Allocs : BeginVerify(k, a)
           \/ \E a \in Allocs, result \in {"passed", "rejected"} : RecordChoice(k, a, result)
           \/ \E result \in Results : RecordVerifyResult(k, result)
    PROVE  Tells
  <1>1. /\ sessState \in [Sessions -> SessionStates] /\ events \in [Allocs -> Seq(Events)]
        /\ opState \in [ClientOps -> ClientStates] /\ opAlloc \in [ClientOps -> Allocs \cup {<<>>}]
    BY DEF Known, Base, IInv, TypeOK
  <1>2. ASSUME NEW a \in Allocs, opState[k] \in {"none", "running"}
        PROVE  /\ opState[k] = "none" => ~Contains(events[a], <<"verify_started", k>>)
               /\ ~Contains(events[a], <<"verify_finished", k>>)
    BY <1>2 DEF Fresh, Untold
  <1>3. ASSUME NEW a \in Allocs, BeginVerify(k, a) PROVE Tells
    <2>1. /\ opState[k] = "none" /\ IsCurrent(a) /\ UNCHANGED <<sessDesired, currentGen, desired, observed, outcome>>
          /\ opState' = [opState EXCEPT ![k] = "running"] /\ opAlloc' = [opAlloc EXCEPT ![k] = a]
          /\ sessState' = [sessState EXCEPT ![a[1]] = "verifying"]
          /\ events' = [events EXCEPT ![a] = EnsureKeyedEvent(@, "verify_started", k)]
          /\ desired[a] = "active"
      BY <1>3 DEF BeginVerify, FreshKey, Gradable, Serviceable, allocVars
    <2>2. /\ opState'[k] = "running" /\ opAlloc'[k] = a /\ sessState'[a[1]] = "verifying"
          /\ \A l \in ClientOps \ {k} : opState'[l] = opState[l] /\ opAlloc'[l] = opAlloc[l]
      BY <1>1, <2>1, AllocParts
    <2>3. OnlyAlloc(a)
      BY <1>1, <2>1, AllocParts DEF OnlyAlloc
    <2>4. OperationsOf(a) /\ OperationsForward /\ Forward(a)
      BY <2>1, <2>2 DEF OperationsOf, OperationsForward, Forward
    <2>5. /\ Says(events[a], events'[a], {<<"verify_started", k>>}) /\ Len(events'[a]) > Len(events[a])
          /\ Permits(a, {<<"verify_started", k>>})
      BY <1>1, <1>2, <2>1, <2>2, KeyedSays, KeyedEvents
    <2>6. QED
      BY <2>1, <2>3, <2>4, <2>5, OneTells
  <1>4. ASSUME NEW a \in Allocs, NEW result \in {"passed", "rejected"}, RecordChoice(k, a, result) PROVE Tells
    <2>1. /\ opState[k] = "none" /\ IsCurrent(a) /\ currentGen' = currentGen /\ result \in Results
          /\ opState' = [opState EXCEPT ![k] = result] /\ opAlloc' = [opAlloc EXCEPT ![k] = a]
          /\ IF result = "passed" THEN GradePassed(a) ELSE GradeNotPassed(a)
          /\ events' = [events EXCEPT ![a] =
                FinishedEvents(EnsureKeyedEvent(@, "verify_started", k), k, result)]
      BY <1>4 DEF RecordChoice, FreshKey, Gradable, Serviceable, Results
    <2>2. opState'[k] = result /\ opAlloc'[k] = a /\ \A l \in ClientOps \ {k} : opAlloc'[l] = opAlloc[l]
      BY <1>1, <2>1
    <2>3. PICK es : es = EnsureKeyedEvent(events[a], "verify_started", k)
      OBVIOUS
    <2>4. es \in Seq(Events) /\ Says(events[a], es, {<<"verify_started", k>>})
      BY <1>1, <2>3, KeyedSays, KeyedEvents
    <2>5. Permits(a, {<<"verify_started", k>>})
      BY <2>2, KeyedEvents
    <2>6. ~Contains(es, <<"verify_finished", k>>)
      BY <1>2, <2>1, <2>4 DEF Says
    <2>7. events' = [events EXCEPT ![a] = FinishedEvents(es, k, result)]
      BY <2>1, <2>3
    <2>8. QED
      BY <2>1, <2>2, <2>4, <2>5, <2>6, <2>7, GradeTells
  <1>5. ASSUME NEW result \in Results, RecordVerifyResult(k, result) PROVE Tells
    <2>1. PICK a : a = opAlloc[k]
      OBVIOUS
    <2>2. /\ opState[k] = "running" /\ IsCurrent(a) /\ currentGen' = currentGen /\ opAlloc' = opAlloc
          /\ opState' = [opState EXCEPT ![k] = result]
          /\ IF result = "passed" THEN GradePassed(a) ELSE GradeNotPassed(a)
          /\ events' = [events EXCEPT ![a] = FinishedEvents(@, k, result)]
      BY <1>5, <2>1 DEF RecordVerifyResult
    <2>3. a \in Allocs
      BY <2>1, <2>2 DEF Known, Base, Grading
    <2>4. Says(events[a], events[a], {}) /\ Permits(a, {}) /\ events[a] \in Seq(Events)
      BY <1>1, <2>3, SameSays DEF Permits
    <2>5. events' = [events EXCEPT ![a] = FinishedEvents(events[a], k, result)]
      BY <1>1, <2>2, <2>3
    <2>6. QED
      BY <1>2, <2>1, <2>2, <2>3, <2>4, <2>5, GradeTells
  <1>6. QED
    BY <1>3, <1>4, <1>5

LEMMA EndTells ==
    ASSUME Known, Fresh, AbsenceStays, NEW k \in ClientOps, NEW s \in Sessions, RequestEnd(k, s)
    PROVE  Tells
  <1>1. /\ sessState \in [Sessions -> SessionStates] /\ sessDesired \in [Sessions -> {"none", "active", "absent"}]
        /\ events \in [Allocs -> Seq(Events)] /\ currentGen[s] \in Nat
        /\ opState \in [ClientOps -> ClientStates] /\ opAlloc \in [ClientOps -> Allocs \cup {<<>>}]
    BY BoundsAssumption, SMTT(30) DEF Known, Base, IInv, TypeOK
  <1>2. PICK cur : cur = Cur(s)
    OBVIOUS
  <1>3. PICK A : A = ReservedAllocs(s)
    OBVIOUS
  <1>4. /\ sessDesired[s] = "active" /\ opState[k] = "none" /\ currentGen' = currentGen
        /\ opState' = [opState EXCEPT ![k] = "end_pending"] /\ opAlloc' = [opAlloc EXCEPT ![k] = cur]
        /\ sessState' = [sessState EXCEPT ![s] = "failed"]
        /\ sessDesired' = [sessDesired EXCEPT ![s] = "absent"]
        /\ desired' = [a \in Allocs |-> IF a \in A THEN "absent" ELSE desired[a]]
        /\ observed' = [a \in Allocs |-> IF a \in A THEN Deleting(observed[a]) ELSE observed[a]]
        /\ outcome' = [a \in Allocs |-> IF a \in A THEN FirstOutcome(outcome[a], "failed") ELSE outcome[a]]
        /\ events' = [a \in Allocs |->
              CASE a = cur -> EnsureEvent(EnsureEvent(events[a], "failed"), "destroying")
                [] a \in A \ {cur} -> EnsureEvent(events[a], "destroying")
                [] OTHER -> events[a]]
    BY <1>2, <1>3 DEF RequestEnd, FreshKey, Cur
  <1>5. currentGen[s] > 0
    BY <1>4 DEF Known, Base, IInv, GenerationsReserved
  <1>6. cur \in Allocs /\ cur[1] = s /\ cur \in A
    <2>1. cur \in Allocs
      BY <1>2, <1>5, CurIsAlloc DEF Known
    <2>2. currentGen[s] \in 1..currentGen[s]
      BY <1>1, <1>5, SMTT(30)
    <2>3. QED
      BY <1>2, <1>3, <2>1, <2>2 DEF Cur, ReservedAllocs
  <1>7. ~Has(events[cur], "failed")
    <2>1. desired[cur] = "active"
      BY <1>2, <1>4 DEF Known, Base, Rows, Cur
    <2>2. QED
      BY <1>6, <2>1 DEF Known, Linked, Link, Clean, TerminalTypes
  <1>8. opState'[k] = "end_pending" /\ \A l \in ClientOps \ {k} : opState'[l] = opState[l] /\ opAlloc'[l] = opAlloc[l]
    BY <1>1, <1>4
  <1>9. OperationsForward
    BY <1>4, <1>8 DEF OperationsForward
  <1>10. PICK es : es = EnsureEvent(events[cur], "failed")
    OBVIOUS
  <1>11. es \in Seq(Events) /\ Says(events[cur], es, {<<"failed">>}) /\ Len(es) > Len(events[cur])
    BY <1>1, <1>6, <1>7, <1>10, EnsureSays DEF EventTypes
  <1>12. events'[cur] = EnsureEvent(es, "destroying")
    BY <1>4, <1>6, <1>10
  <1>13. Says(es, events'[cur], {<<"destroying">>})
    BY <1>11, <1>12, EnsureSays DEF EventTypes
  <1>14. /\ Says(events[cur], events'[cur], {<<"failed">>} \cup {<<"destroying">>})
         /\ Len(events'[cur]) > Len(events[cur])
    BY <1>11, <1>13, SaysTwice
  <1>15. ASSUME NEW x \in Allocs, x \in A PROVE Untold(x)'
    <2>1. desired'[x] = "absent" /\ outcome'[x] # "none"
      BY <1>4, <1>15 DEF FirstOutcome
    <2>2. Forward(x) /\ Permits(x, {<<"failed">>} \cup {<<"destroying">>}) /\ Permits(x, {<<"destroying">>})
      BY <2>1 DEF Forward, Permits
    <2>3. CASE x = cur
      BY <1>9, <1>14, <2>2, <2>3, UntoldStep DEF Fresh
    <2>4. CASE x # cur
      <3>1. events'[x] = EnsureEvent(events[x], "destroying")
        BY <1>4, <1>15, <2>4
      <3>2. Says(events[x], events'[x], {<<"destroying">>})
        BY <1>1, <3>1, EnsureSays DEF EventTypes
      <3>3. QED
        BY <1>9, <2>2, <3>2, UntoldStep DEF Fresh
    <2>5. QED
      BY <2>3, <2>4
  <1>16. ASSUME NEW x \in Allocs, x \notin A
         PROVE  events'[x] = events[x] /\ desired'[x] = desired[x] /\ outcome'[x] = outcome[x]
                /\ observed'[x] = observed[x]
    BY <1>4, <1>6, <1>16
  <1>17. ASSUME NEW x \in Allocs, x \notin A PROVE Untold(x)'
    <2>1. x[1] = s => desired[x] = "none"
      <3>1. x[1] = s => x[2] \notin 1..currentGen[s]
        BY <1>3, <1>17, AllocParts, SMTT(30) DEF ReservedAllocs
      <3>2. x[1] = s => x[2] > currentGen[s]
        BY <1>1, <3>1, AllocParts, SMTT(30)
      <3>3. QED
        BY <3>2 DEF Known, Base, Rows
    <2>2. x[1] # s => sessState'[x[1]] = sessState[x[1]]
      BY <1>1, <1>4, AllocParts
    <2>3. Forward(x) /\ Permits(x, {})
      BY <1>16, <1>17, <2>1, <2>2 DEF Forward, Permits
    <2>4. Says(events[x], events'[x], {})
      BY <1>1, <1>16, <1>17, SameSays
    <2>5. QED
      BY <1>9, <2>3, <2>4, UntoldStep DEF Fresh
  <1>18. ASSUME NEW t \in Sessions, currentGen[t] > 0 PROVE Moved(t) \/ Unmoved(t)
    <2>1. CASE t = s
      BY <1>2, <1>14, <2>1 DEF Moved
    <2>2. CASE t # s
      <3>1. \A x \in Allocs : x[1] = t => x \notin A
        BY <1>3, <2>2 DEF ReservedAllocs
      <3>2. sessState'[t] = sessState[t] /\ sessDesired'[t] = sessDesired[t] /\ currentGen'[t] = currentGen[t]
        BY <1>1, <1>4, <2>2
      <3>3. \A l \in ClientOps : \/ opState'[l] = opState[l] /\ opAlloc'[l] = opAlloc[l]
                                 \/ opState[l] \notin {"passed", "rejected"} /\ opState'[l] \notin {"passed", "rejected"}
        BY <1>4, <1>8
      <3>4. QED
        BY <1>16, <1>18, <3>1, <3>2, <3>3, OtherShown
    <2>3. QED
      BY <2>1, <2>2
  <1>19. QED
    BY <1>15, <1>17, <1>18 DEF Tells

LEMMA ClientTells ==
    ASSUME Known, Fresh, AbsenceStays, NEW k \in ClientOps, Client(k)
    PROVE  Tells
  <1>1. CASE ReplayEnd(k)
    <2>1. \A l \in ClientOps : \/ opState'[l] = opState[l]
                               \/ opState[l] = "end_pending" /\ opState'[l] = "end_succeeded"
      BY <1>1 DEF ReplayEnd, Known, Base, IInv, TypeOK
    <2>2. QED
      BY <1>1, <2>1, QuietTells DEF ReplayEnd
  <1>2. QED
    BY <1>1, VerifyTells, EndTells DEF Client

-----------------------------------------------------------------------------
\* The first events of a journal.
LEMMA FirstSays ==
    ASSUME NEW es, NEW E, Len(es) \in Nat, Len(es) > 0, \A i \in 1..Len(es) : es[i] \in E
    PROVE  Says(<<>>, es, E)
  <1>1. Len(<<>>) = 0
    BY SMTT(30)
  <1>2. QED
    BY <1>1 DEF Says, Contains

\* A new generation of a session: its journal begins, and that of the generation
\* it replaces says why.
LEMMA ReserveTells ==
    ASSUME Known, Fresh, AbsenceStays, NEW s \in Sessions, ReserveSession(s) \/ ReserveReset(s)
    PROVE  Tells
  <1>1. /\ sessState \in [Sessions -> SessionStates] /\ sessDesired \in [Sessions -> {"none", "active", "absent"}]
        /\ events \in [Allocs -> Seq(Events)] /\ desired \in [Allocs -> {"none", "active", "absent"}]
        /\ observed \in [Allocs -> ObservedStates] /\ outcome \in [Allocs -> Outcomes \cup {"none", "reset"}]
        /\ currentGen \in [Sessions -> 0..MaxGen] /\ currentGen[s] \in Nat
    BY BoundsAssumption, SMTT(30) DEF Known, Base, IInv, TypeOK
  <1>2. PICK b : b = <<s, currentGen[s] + 1>>
    OBVIOUS
  <1>3. UNCHANGED clientVars /\ (\A t \in Sessions \ {s} : /\ sessState'[t] = sessState[t]
                                    /\ sessDesired'[t] = sessDesired[t] /\ currentGen'[t] = currentGen[t])
    BY <1>1 DEF ReserveSession, ReserveReset
  <1>4. OperationsForward
    BY <1>3 DEF OperationsForward, clientVars
  <1>5. ReserveSession(s) => currentGen[s] = 0
    BY DEF ReserveSession, Known, Base, IInv, GenerationsReserved
  <1>6. b \in Allocs /\ b[1] = s /\ desired[b] = "none" /\ events[b] = <<>>
    <2>1. currentGen[s] + 1 \in Generations
      <3>1. CASE ReserveSession(s)
        BY <1>5, <3>1, BoundsAssumption, SMTT(30) DEF Generations
      <3>2. CASE ReserveReset(s)
        BY <1>1, <3>2, BoundsAssumption, SMTT(30) DEF Generations, ReserveReset
      <3>3. QED
        BY <3>1, <3>2
    <2>2. b \in Allocs /\ b[1] = s /\ b[2] = currentGen[s] + 1
      BY <1>2, <2>1, AllocMade
    <2>3. b[2] > currentGen[b[1]]
      BY <1>1, <2>2, SMTT(30)
    <2>4. desired[b] = "none"
      BY <2>2, <2>3 DEF Known, Base, Rows
    <2>5. QED
      BY <2>2, <2>4 DEF Known, Linked, Link
  <1>7. ASSUME NEW x \in Allocs, x[1] = s, x # b, ~IsCurrent(x)
        PROVE  desired[x] # "active"
    BY <1>7 DEF Known, Base, Rows
  <1>8. ASSUME NEW x \in Allocs, events'[x] = events[x], desired'[x] = desired[x], outcome'[x] = outcome[x],
               x[1] = s => desired[x] # "active"
        PROVE  Untold(x)'
    <2>1. Forward(x) /\ Permits(x, {})
      BY <1>3, <1>8, AllocParts DEF Forward, Permits
    <2>2. Says(events[x], events'[x], {})
      BY <1>1, <1>8, SameSays
    <2>3. QED
      BY <1>4, <2>1, <2>2, UntoldStep DEF Fresh
  <1>9. ASSUME NEW E, Says(<<>>, events'[b], E), outcome'[b] = outcome[b],
               E \subseteq {<<"allocation_reserved">>, <<"reset_requested">>}
        PROVE  Untold(b)'
    <2>1. Forward(b) /\ Permits(b, E)
      <3>1. \A e \in E : e = <<"allocation_reserved">> \/ e = <<"reset_requested">>
        BY <1>9
      <3>2. ASSUME NEW e \in E
            PROVE  /\ e[1] \in {"allocation_reserved", "reset_requested"}
                   /\ \A t, l : e # <<t, l>>
        BY <3>1, <3>2, SMTT(30)
      <3>3. QED
        BY <1>6, <1>9, <3>2 DEF Forward, Permits
    <2>2. QED
      BY <1>4, <1>6, <1>9, <2>1, UntoldStep DEF Fresh
  <1>10. ASSUME NEW t \in Sessions, t # s, currentGen[t] > 0,
                \A x \in Allocs : x[1] = t => events'[x] = events[x] /\ desired'[x] = desired[x]
                                              /\ outcome'[x] = outcome[x] /\ observed'[x] = observed[x]
         PROVE  Unmoved(t)
    BY <1>3, <1>10, OtherShown DEF clientVars
  <1>11. CASE ReserveSession(s)
    <2>1. b = <<s, 1>>
      BY <1>2, <1>5, <1>11, SMTT(30)
    <2>2. /\ desired' = [desired EXCEPT ![b] = "active"] /\ observed' = [observed EXCEPT ![b] = "unknown"]
          /\ events' = [events EXCEPT ![b] = << <<"allocation_reserved">> >>] /\ outcome' = outcome
      BY <1>11, <2>1 DEF ReserveSession
    <2>3. \A x \in Allocs \ {b} : events'[x] = events[x] /\ desired'[x] = desired[x]
                                  /\ outcome'[x] = outcome[x] /\ observed'[x] = observed[x]
      BY <1>1, <2>2
    <2>4. events'[b] = << <<"allocation_reserved">> >>
      BY <1>1, <1>6, <2>2
    <2>5. PICK e : e = <<"allocation_reserved">>
      OBVIOUS
    <2>6. Len(<<e>>) = 1 /\ <<e>>[1] = e
      BY SMTT(30)
    <2>7. Len(<<e>>) \in Nat /\ Len(<<e>>) > 0 /\ \A i \in 1..Len(<<e>>) : <<e>>[i] \in {e}
      BY <2>6, SMTT(30)
    <2>8. Says(<<>>, events'[b], {e})
      BY <2>4, <2>5, <2>7, FirstSays
    <2>9. Untold(b)'
      BY <1>9, <2>2, <2>5, <2>8
    <2>10. \A x \in Allocs : x[1] = s => desired[x] # "active"
      <3>1. ASSUME NEW x \in Allocs, x[1] = s PROVE ~IsCurrent(x)
        BY <1>5, <1>11, <3>1, AllocParts, SMTT(30) DEF IsCurrent
      <3>2. QED
        BY <3>1 DEF Known, Base, Rows
    <2>11. \A x \in Allocs : Untold(x)'
      BY <1>8, <2>3, <2>9, <2>10
    <2>12. ASSUME NEW t \in Sessions, currentGen[t] > 0 PROVE Unmoved(t)
      <3>1. t # s
        BY <1>5, <1>11, <2>12, SMTT(30)
      <3>2. QED
        BY <1>6, <1>10, <2>3, <2>12, <3>1
    <2>13. QED
      BY <2>11, <2>12 DEF Tells
  <1>12. CASE ReserveReset(s)
    <2>1. PICK a : a = Cur(s)
      OBVIOUS
    <2>2. /\ desired' = [desired EXCEPT ![a] = "absent", ![b] = "active"]
          /\ observed' = [observed EXCEPT ![a] = Deleting(@), ![b] = "unknown"]
          /\ outcome' = [outcome EXCEPT ![a] = FirstOutcome(@, "reset")]
          /\ events' = [events EXCEPT
                ![a] = EnsureEvent(EnsureEvent(@, "reset_requested"), "destroying"),
                ![b] = << <<"allocation_reserved">>, <<"reset_requested">> >>]
          /\ currentGen' = [currentGen EXCEPT ![s] = @ + 1] /\ currentGen[s] \in 1..(MaxGen - 1)
      BY <1>2, <1>12, <2>1 DEF ReserveReset, Cur
    <2>3. currentGen[s] > 0 /\ currentGen'[s] # currentGen[s]
      BY <1>1, <2>2, BoundsAssumption, SMTT(30)
    <2>4. a \in Allocs /\ a[1] = s /\ a # b
      <3>1. a \in Allocs /\ a[1] = s /\ a[2] = currentGen[s]
        BY <2>1, <2>3, CurIsAlloc DEF Known, Cur
      <3>2. b[2] = currentGen[s] + 1
        BY <1>2
      <3>3. a[2] # b[2]
        BY <1>1, <3>1, <3>2, SMTT(30)
      <3>4. QED
        BY <3>1, <3>3
    <2>5. \A x \in Allocs \ {a, b} : events'[x] = events[x] /\ desired'[x] = desired[x]
                                     /\ outcome'[x] = outcome[x] /\ observed'[x] = observed[x]
      BY <1>1, <2>2
    <2>6. PICK es : es = EnsureEvent(events[a], "reset_requested")
      OBVIOUS
    <2>7. /\ events'[a] = EnsureEvent(es, "destroying") /\ desired'[a] = "absent"
          /\ outcome'[a] = FirstOutcome(outcome[a], "reset") /\ outcome'[b] = outcome[b]
          /\ events'[b] = << <<"allocation_reserved">>, <<"reset_requested">> >>
      BY <1>1, <1>6, <2>2, <2>4, <2>6
    <2>8. Untold(a)'
      <3>1. es \in Seq(Events) /\ Says(events[a], es, {<<"reset_requested">>})
        BY <1>1, <2>4, <2>6, EnsureSays DEF EventTypes
      <3>2. Says(es, events'[a], {<<"destroying">>})
        BY <2>7, <3>1, EnsureSays DEF EventTypes
      <3>3. Says(events[a], events'[a], {<<"reset_requested">>} \cup {<<"destroying">>})
        BY <3>1, <3>2, SaysTwice
      <3>4. Forward(a) /\ Permits(a, {<<"reset_requested">>} \cup {<<"destroying">>})
        BY <2>7 DEF Forward, Permits, FirstOutcome
      <3>5. QED
        BY <1>4, <2>4, <3>3, <3>4, UntoldStep DEF Fresh
    <2>9. Untold(b)'
      <3>1. PICK e, f : e = <<"allocation_reserved">> /\ f = <<"reset_requested">>
        OBVIOUS
      <3>2. Len(<<e, f>>) = 2 /\ <<e, f>>[1] = e /\ <<e, f>>[2] = f
        BY SMTT(30)
      <3>3. Len(<<e, f>>) \in Nat /\ Len(<<e, f>>) > 0 /\ \A i \in 1..Len(<<e, f>>) : <<e, f>>[i] \in {e, f}
        <4>1. 1..2 = {1, 2}
          BY SMTT(30)
        <4>2. QED
          BY <3>2, <4>1, SMTT(30)
      <3>4. Says(<<>>, events'[b], {e, f})
        BY <2>7, <3>1, <3>3, FirstSays
      <3>5. QED
        BY <1>9, <2>7, <3>1, <3>4
    <2>10. ASSUME NEW x \in Allocs \ {a, b} PROVE Untold(x)'
      <3>1. x[1] = s => ~IsCurrent(x)
        BY <2>1, AllocParts DEF IsCurrent, Cur
      <3>2. QED
        BY <1>7, <1>8, <2>5, <2>10, <3>1
    <2>11. ASSUME NEW t \in Sessions, currentGen[t] > 0 PROVE Moved(t) \/ Unmoved(t)
      <3>1. CASE t = s
        BY <2>3, <3>1 DEF Moved
      <3>2. CASE t # s
        BY <1>6, <1>10, <2>4, <2>5, <2>11, <3>2
      <3>3. QED
        BY <3>1, <3>2
    <2>12. QED
      BY <2>8, <2>9, <2>10, <2>11 DEF Tells
  <1>13. QED
    BY <1>11, <1>12

-----------------------------------------------------------------------------
\* Recovery gives every interrupted verification its result, and tells it.
LEMMA PrepareTells ==
    ASSUME Known, Fresh, AbsenceStays, PrepareRecoveryWork
    PROVE  Tells
  <1>1. /\ events \in [Allocs -> Seq(Events)]
        /\ UNCHANGED <<sessDesired, currentGen, desired, observed, outcome, opAlloc>>
        /\ \A k \in Interrupted : Interruptible(k)
        /\ opState' = [k \in ClientOps |-> IF k \in Interrupted THEN "infrastructure" ELSE opState[k]]
        /\ sessState' = [s \in Sessions |-> RestoredState(s)]
        /\ events' = [a \in Allocs |->
              IF \E k \in Interrupted : opAlloc[k] = a
              THEN EnsureKeyedEvent(events[a], "verify_finished", CHOOSE k \in Interrupted : opAlloc[k] = a)
              ELSE events[a]]
    BY DEF PrepareRecoveryWork, allocVars, Known, Base, IInv, TypeOK
  <1>2. \A k \in ClientOps : \/ opState'[k] = opState[k] /\ k \notin Interrupted
                             \/ opState[k] = "running" /\ opState'[k] = "infrastructure"
    BY <1>1 DEF Interrupted
  <1>3. OperationsForward
    BY <1>2 DEF OperationsForward
  <1>4. ASSUME NEW x \in Allocs PROVE Forward(x)
    <2>1. sessState'[x[1]] = RestoredState(x[1])
      BY <1>1, AllocParts
    <2>2. QED
      BY <1>1, <2>1, SMTT(30) DEF Forward, RestoredState
  <1>5. ASSUME NEW x \in Allocs, NEW l \in Interrupted, opAlloc[l] = x
        PROVE  Untold(x)' /\ Len(events'[x]) > Len(events[x])
    <2>1. PICK k : k = CHOOSE m \in Interrupted : opAlloc[m] = x
      OBVIOUS
    <2>2. k \in Interrupted /\ opAlloc[k] = x
      BY <1>5, <2>1
    <2>3. k \in ClientOps /\ opState[k] = "running" /\ opState'[k] = "infrastructure"
      BY <1>2, <2>2 DEF Interrupted
    <2>4. events'[x] = EnsureKeyedEvent(events[x], "verify_finished", k)
      BY <1>1, <1>5, <2>1
    <2>5. ~Contains(events[x], <<"verify_finished", k>>)
      BY <2>3 DEF Fresh, Untold
    <2>6. /\ Says(events[x], events'[x], {<<"verify_finished", k>>}) /\ Len(events'[x]) > Len(events[x])
          /\ Permits(x, {<<"verify_finished", k>>})
      BY <1>1, <2>3, <2>4, <2>5, KeyedSays, KeyedEvents
    <2>7. QED
      BY <1>3, <1>4, <2>6, UntoldStep DEF Fresh
  <1>6. ASSUME NEW x \in Allocs, \A l \in Interrupted : opAlloc[l] # x
        PROVE  Untold(x)' /\ events'[x] = events[x]
    <2>1. events'[x] = events[x]
      BY <1>1, <1>6
    <2>2. Says(events[x], events'[x], {}) /\ Permits(x, {})
      BY <1>1, <2>1, SameSays DEF Permits
    <2>3. QED
      BY <1>3, <1>4, <2>1, <2>2, UntoldStep DEF Fresh
  <1>7. ASSUME NEW s \in Sessions, currentGen[s] > 0 PROVE Moved(s) \/ Unmoved(s)
    <2>1. ASSUME NEW l \in Interrupted, opAlloc[l][1] = s PROVE Moved(s)
      <3>1. opAlloc[l] \in Allocs /\ IsCurrent(opAlloc[l])
        BY <1>1, <2>1 DEF Interruptible, Serviceable, Interrupted, Known, Base, Grading
      <3>2. opAlloc[l] = Cur(s)
        BY <2>1, <3>1, AllocParts DEF IsCurrent, Cur
      <3>3. QED
        BY <1>5, <2>1, <3>1, <3>2 DEF Moved
    <2>2. ASSUME \A l \in Interrupted : opAlloc[l][1] # s PROVE Unmoved(s)
      <3>1. sessState'[s] = sessState[s]
        BY <1>1, <2>2 DEF RestoredState
      <3>2. \A x \in Allocs : x[1] = s => events'[x] = events[x]
        BY <1>6, <2>2
      <3>3. \A k \in ClientOps : \/ opState'[k] = opState[k] /\ opAlloc'[k] = opAlloc[k]
                                 \/ opState[k] \notin {"passed", "rejected"} /\ opState'[k] \notin {"passed", "rejected"}
        BY <1>1, <1>2
      <3>4. QED
        BY <1>1, <1>7, <3>1, <3>2, <3>3, OtherShown
    <2>3. QED
      BY <2>1, <2>2
  <1>8. QED
    BY <1>5, <1>6, <1>7 DEF Tells

LEMMA NextTells ==
    ASSUME Known, Fresh, [Next]_vars
    PROVE  Tells
  <1>1. AbsenceStays
    BY StepKeeps DEF Known, Base, Keeps
  <1>2. CASE Restart \/ RefuseRecovery \/ Activate \/ UNCHANGED vars
    <2>1. UNCHANGED <<sessVars, allocVars, journalVars, opState, opAlloc>>
      BY <1>2 DEF Restart, RefuseRecovery, Activate, vars, clientVars
    <2>2. QED
      BY <1>1, <2>1, QuietTells
  <1>3. QED
    BY <1>1, <1>2, CreateTells, DestroyTells, ClientTells, ReserveTells, PrepareTells DEF Next, Control

LEMMA SnapshotKept ==
    ASSUME Known, Snapshotted, [Next]_vars
    PROVE  Snapshotted'
  <1>1. ASSUME recoverySet = {}, UNCHANGED recoverySet PROVE Snapshotted'
    BY <1>1 DEF Snapshotted
  <1>2. ASSUME UNCHANGED <<phase, recoverySet, observed>> PROVE Snapshotted'
    BY <1>2 DEF Snapshotted
  <1>3. Serving \/ Working \/ CleaningUp => recoverySet = {}
    BY DEF Snapshotted, Serving, Working, Recovering, CleaningUp
  <1>4. ASSUME NEW a \in Allocs, Create(a) PROVE Snapshotted'
    <2>1. CASE CreateLeaseExpires(a)
      BY <1>2, <2>1 DEF CreateLeaseExpires, controlVars, allocVars
    <2>2. CASE ~CreateLeaseExpires(a)
      BY <1>1, <1>3, <1>4, <2>2 DEF Create, ClaimProvisionableCreate, MarkClaimedCreateSucceeded,
         MarkClaimedCreateFailed, MarkSettingUp, MarkReady, FailStart, controlVars
    <2>3. QED
      BY <2>1, <2>2
  <1>5. ASSUME NEW a \in Allocs, Destroy(a) PROVE Snapshotted'
    <2>1. CASE DestroyLeaseExpires(a)
      BY <1>2, <2>1 DEF DestroyLeaseExpires, controlVars, allocVars
    <2>2. CASE ConvergeLocalRestart(a)
      <3>1. /\ phase = "recovering" /\ phase' = phase /\ recoverySet' = recoverySet \ {a}
            /\ observed' = [observed EXCEPT ![a] = "absent"]
        BY <2>2 DEF ConvergeLocalRestart
      <3>2. recoverySet \subseteq Allocs /\ observed \in [Allocs -> ObservedStates]
        BY DEF Known, Base, IInv, TypeOK
      <3>3. QED
        BY <3>1, <3>2 DEF Snapshotted
    <2>3. CASE ~DestroyLeaseExpires(a) /\ ~ConvergeLocalRestart(a)
      <3>1. ASSUME NEW o, RequestDestroy(a, o) PROVE Snapshotted'
        BY <1>1, <1>3, <3>1 DEF RequestDestroy, Recoverable, Working, FailStart, controlVars
      <3>2. ASSUME NEW token, RetryDestroyWork(a, token) \/ MarkClaimedDestroyed(a, token) PROVE Snapshotted'
        BY <1>1, <1>3, <3>2 DEF RetryDestroyWork, MarkClaimedDestroyed, FailStart, controlVars
      <3>3. CASE ClaimDestroyWork(a)
        BY <1>1, <1>3, <3>3 DEF ClaimDestroyWork, controlVars
      <3>4. QED
        BY <1>5, <2>3, <3>1, <3>2, <3>3 DEF Destroy
    <2>4. QED
      BY <2>1, <2>2, <2>3
  <1>6. ASSUME NEW k \in ClientOps, Client(k) PROVE Snapshotted'
    BY <1>1, <1>3, <1>6 DEF Client, BeginVerify, RecordChoice, RecordVerifyResult, RequestEnd, ReplayEnd, controlVars
  <1>7. ASSUME NEW s \in Sessions, ReserveSession(s) \/ ReserveReset(s) PROVE Snapshotted'
    BY <1>1, <1>3, <1>7 DEF ReserveSession, ReserveReset, controlVars
  <1>8. CASE Restart
    <2>1. /\ phase' = "starting" /\ observed' = observed
          /\ \A a \in recoverySet' : a \in Allocs /\ desired[a] # "none" /\ ~Absent(a)
      BY <1>8 DEF Restart, allocVars
    <2>2. \A a \in Allocs : observed[a] = "absent" => desired[a] = "absent"
      BY DEF Known, Base, IInv, CleanupNeverLost, Absent
    <2>3. QED
      BY <2>1, <2>2 DEF Snapshotted, Absent
  <1>9. CASE PrepareRecoveryWork \/ RefuseRecovery
    BY <1>9 DEF PrepareRecoveryWork, RefuseRecovery, allocVars, Snapshotted
  <1>10. CASE Activate
    BY <1>1, <1>10 DEF Activate, Recovering
  <1>11. CASE UNCHANGED vars
    BY <1>2, <1>11 DEF vars, controlVars, allocVars
  <1>12. QED
    BY <1>4, <1>5, <1>6, <1>7, <1>8, <1>9, <1>10, <1>11 DEF Next, Control

LEMMA FreshHolds == StreamSpec => []Fresh
  <1>1. StreamInit => Fresh
    <2> SUFFICES ASSUME StreamInit PROVE Fresh
      OBVIOUS
    <2>1. recoverySet = {} /\ \A x \in Allocs : events[x] = <<>>
      BY DEF StreamInit, Init
    <2>2. \A t : ~Has(<<>>, t)
      BY HasContains, EmptyContains
    <2>3. QED
      BY <2>1, <2>2, EmptyContains DEF Fresh, Snapshotted, Untold
  <1>2. Known /\ Fresh /\ [StreamNext]_allVars => Fresh'
    BY StoreStep, NextTells, SnapshotKept DEF Fresh, Tells
  <1>3. QED
    BY <1>1, <1>2, KnownHolds, PTL DEF StreamSpec

-----------------------------------------------------------------------------
LEMMA CleanedSnapshot ==
    ASSUME NEW w, NEW st, NEW c, NEW r, NEW g, NEW f
    PROVE  [[cursor |-> w, status |-> st, cleanupPending |-> c, reason |-> r, graded |-> g]
              EXCEPT !.cleanupPending = f]
           = [cursor |-> w, status |-> st, cleanupPending |-> f, reason |-> r, graded |-> g]
  OBVIOUS

\* Whatever changes what a browser is shown of a session moves the session's
\* watermark, on both restart policies: every transaction that writes a row the
\* snapshot is read from appends to the current journal an event that is not
\* there yet.  Only a restart that converges an older generation may end the
\* pending cleanup without an event (convergeOneLocalRestart).
THEOREM SnapshotsMoveWatermarks == StreamSpec => ChangesMoveWatermark
  <1>1. ASSUME Known, Fresh, [StreamNext]_allVars
        PROVE  \A s \in Sessions :
                  currentGen[s] > 0 /\ Watermark(s)' = Watermark(s) =>
                     \/ LifecycleSnapshot(s)' = LifecycleSnapshot(s)
                     \/ /\ \E a \in recoverySet \ recoverySet' : a[1] = s /\ ~IsCurrent(a)
                        /\ LifecycleSnapshot(s)' = [LifecycleSnapshot(s) EXCEPT !.cleanupPending = FALSE]
    <2> SUFFICES ASSUME NEW s \in Sessions, currentGen[s] > 0, Watermark(s)' = Watermark(s)
                 PROVE  \/ LifecycleSnapshot(s)' = LifecycleSnapshot(s)
                        \/ /\ \E a \in recoverySet \ recoverySet' : a[1] = s /\ ~IsCurrent(a)
                           /\ LifecycleSnapshot(s)' = [LifecycleSnapshot(s) EXCEPT !.cleanupPending = FALSE]
      OBVIOUS
    <2> USE <1>1
    <2>1. Tells
      BY StoreStep, NextTells
    <2>2. currentGen'[s] = currentGen[s] /\ Len(events'[Cur(s)]) = Len(events[Cur(s)])
      <3>1. Watermark(s)'[2] = Watermark(s)[2] /\ Watermark(s)'[3] = Watermark(s)[3]
        OBVIOUS
      <3>2. QED
        BY <3>1 DEF Watermark, CurrentEvents, Cur
    <2>3. Len(events[Cur(s)]) \in Nat
      BY CurIsAlloc, SMTT(30) DEF Known, Base, IInv, TypeOK
    <2>4. ~Moved(s)
      BY <2>2, <2>3, SMTT(30) DEF Moved
    <2>5. Unmoved(s)
      BY <2>1, <2>4 DEF Tells
    <2>6. CurrentEvents(s)' = CurrentEvents(s) /\ outcome'[<<s, currentGen'[s]>>] = outcome[<<s, currentGen[s]>>]
      BY <2>5 DEF Unmoved, CurrentEvents, Cur
    <2>7. TerminalReason(s)' = TerminalReason(s)
      BY <2>6 DEF TerminalReason
    <2>8. sessState'[s] = sessState[s] /\ Graded(s)' = Graded(s)
      BY <2>5 DEF Unmoved
    <2>9. CASE CleanupPending(s)' <=> CleanupPending(s)
      <3>1. CleanupPending(s)' = CleanupPending(s)
        BY <2>9 DEF CleanupPending
      <3>2. QED
        BY <2>7, <2>8, <3>1 DEF LifecycleSnapshot
    <2>10. CASE ~CleanupPending(s)' /\ \E a \in recoverySet \ recoverySet' : a[1] = s /\ ~IsCurrent(a)
      <3>1. CleanupPending(s)' = FALSE
        BY <2>10 DEF CleanupPending
      <3>2. LifecycleSnapshot(s)' = [LifecycleSnapshot(s) EXCEPT !.cleanupPending = FALSE]
        <4>1. PICK f : f = FALSE
          OBVIOUS
        <4>2. LifecycleSnapshot(s)' =
                 [cursor |-> Watermark(s), status |-> sessState[s], cleanupPending |-> f,
                  reason |-> TerminalReason(s), graded |-> Graded(s)]
          BY <2>7, <2>8, <3>1, <4>1 DEF LifecycleSnapshot
        <4>3. [LifecycleSnapshot(s) EXCEPT !.cleanupPending = f] =
                 [cursor |-> Watermark(s), status |-> sessState[s], cleanupPending |-> f,
                  reason |-> TerminalReason(s), graded |-> Graded(s)]
          BY CleanedSnapshot DEF LifecycleSnapshot
        <4>4. QED
          BY <4>1, <4>2, <4>3
      <3>3. QED
        BY <2>10, <3>2
    <2>11. QED
      BY <2>5, <2>9, <2>10 DEF Unmoved
  <1>2. QED
    BY <1>1, KnownHolds, FreshHolds, PTL DEF StreamSpec, ChangesMoveWatermark
=============================================================================
