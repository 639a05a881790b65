------------------------- MODULE RunnerStoreProofs --------------------------
(***************************************************************************)
(* Theorems about RunnerStore, for every set of users, sessions and client *)
(* operations and for every bound: each operation keeps the types of the   *)
(* state and the inductive invariant.                                      *)
(***************************************************************************)
EXTENDS RunnerStoreRefinement, TLAPS

\* The provers for the leaves that name none, and their time limits.
USE ZenonT(4), SMTT(30)

-----------------------------------------------------------------------------
(***************************************************************************)
(* Allocations and journals.                                               *)
(***************************************************************************)

LEMMA AllocParts ==
    ASSUME NEW a \in Allocs
    PROVE  /\ a[1] \in Sessions
           /\ a[2] \in Generations
           /\ a[2] \in Nat \ {0}
           /\ a[2] <= MaxGen
           /\ a = <<a[1], a[2]>>
  BY BoundsAssumption DEF Allocs, Generations

LEMMA AllocMade ==
    ASSUME NEW s \in Sessions, NEW g \in Generations
    PROVE  <<s, g>> \in Allocs
  BY DEF Allocs

-----------------------------------------------------------------------------
(***************************************************************************)
(* The inductive invariant: the rows of a generation exist exactly from    *)
(* its reservation on, and CleanupNeverLost, which makes proven absence    *)
(* stable.                                                                 *)
(***************************************************************************)
GenerationsReserved ==
    /\ \A s \in Sessions : sessDesired[s] # "none" => currentGen[s] > 0
    /\ \A s \in Sessions : sessState[s] = "none" => currentGen[s] = 0
    /\ \A a \in Allocs : a[2] > currentGen[a[1]] => desired[a] = "none"
    /\ \A a \in recoverySet : desired[a] # "none"

IInv ==
    /\ TypeOK
    /\ GenerationsReserved
    /\ CleanupNeverLost
    /\ OneProvisionedGeneration

\* What a step does to absence and to claims.
AbsenceStays ==
    \A a \in Allocs : observed[a] = "absent" => observed'[a] = "absent"

ClaimsGuarded ==
    \A a \in Allocs : createClaims'[a] > 0 => createClaims[a] > 0 \/ OlderAbsent(a)

Keeps ==
    /\ GenerationsReserved'
    /\ CleanupNeverLost'
    /\ AbsenceStays
    /\ ClaimsGuarded

-----------------------------------------------------------------------------
(***************************************************************************)
(* Every operation keeps the types and the invariant.                      *)
(***************************************************************************)

LEMMA StepKeeps ==
    IInv /\ [Next]_vars =>
           TypeOK' /\ Keeps
  <1>EnsureEventType. ASSUME NEW es \in Seq(Events), NEW type \in EventTypes
                      PROVE  EnsureEvent(es, type) \in Seq(Events)
    <2> USE <1>EnsureEventType
    <2>1. <<type>> \in Events
      BY DEF Events
    <2>2. QED
      BY <2>1 DEF EnsureEvent
  <1>EnsureKeyedEventType. ASSUME NEW es \in Seq(Events), NEW type, NEW key, <<type, key>> \in Events
                           PROVE  EnsureKeyedEvent(es, type, key) \in Seq(Events)
    BY <1>EnsureKeyedEventType DEF EnsureKeyedEvent
  <1>KeyedEvents. /\ \A k \in ClientOps : /\ <<"verify_started", k>> \in Events
                                          /\ <<"verify_finished", k>> \in Events
                  /\ \A g \in Generations : <<"predecessor_destroyed", g>> \in Events
    BY DEF Events
  <1>EventNames. {"allocation_reserved", "vm_created", "setup_running", "ready",
                  "reset_requested", "failed", "timed_out", "provider_lost",
                  "cleanup_required", "destroying", "destroyed"} \subseteq EventTypes
    BY DEF EventTypes
  <1>FinishedEventsType. ASSUME NEW es \in Seq(Events), NEW k \in ClientOps, NEW result
                         PROVE  FinishedEvents(es, k, result) \in Seq(Events)
    BY <1>FinishedEventsType, <1>EnsureKeyedEventType, <1>EnsureEventType, <1>KeyedEvents, <1>EventNames, ZenonT(30)
       DEF FinishedEvents
  <1>ReserveSessionType. ASSUME TypeOK, NEW s \in Sessions, ReserveSession(s)
                         PROVE  TypeOK'
    <2> USE <1>ReserveSessionType
    <2>1. <<s, 1>> \in Allocs /\ 1 \in 0..MaxGen
      BY AllocMade, BoundsAssumption DEF Generations
    <2>2. << <<"allocation_reserved">> >> \in Seq(Events)
      BY <1>EventNames DEF Events
    <2>3. QED
      BY <2>1, <2>2 DEF TypeOK, ReserveSession, SessionStates, ActiveStates,
         ObservedStates, AttemptStates, WorkStates, destroyVars, clientVars, controlVars
  <1>ClaimCreateType. ASSUME TypeOK, NEW a \in Allocs, ClaimProvisionableCreate(a)
                      PROVE  TypeOK'
    BY <1>ClaimCreateType, SMTT(30) DEF TypeOK, ClaimProvisionableCreate, WorkStates, sessVars,
       allocVars,
       destroyVars, journalVars, clientVars, controlVars
  <1>CreateSucceededType. ASSUME TypeOK, NEW a \in Allocs, NEW token, MarkClaimedCreateSucceeded(a, token)
                          PROVE  TypeOK'
    <2> USE <1>CreateSucceededType
    <2>1. EnsureEvent(events[a], "vm_created") \in Seq(Events)
      BY <1>EnsureEventType, <1>EventNames DEF TypeOK
    <2>2. QED
      BY <2>1, AllocParts DEF TypeOK, MarkClaimedCreateSucceeded, SessionStates,
         ActiveStates, ObservedStates, WorkStates, destroyVars, clientVars, controlVars
  <1>CreateFailedType. ASSUME TypeOK, NEW a \in Allocs, NEW token, MarkClaimedCreateFailed(a, token)
                       PROVE  TypeOK'
    <2> USE <1>CreateFailedType
    <2>1. EnsureEvent(EnsureEvent(events[a], "failed"), "cleanup_required") \in Seq(Events)
      BY <1>EnsureEventType, <1>EventNames DEF TypeOK
    <2>2. QED
      BY <2>1, AllocParts DEF TypeOK, MarkClaimedCreateFailed, FailStart, Phases,
         EnsureDestroyOperation, SessionStates, Outcomes, ObservedStates,
         AttemptStates, WorkStates, clientVars
  <1>MarkSettingUpType. ASSUME TypeOK, NEW a \in Allocs, MarkSettingUp(a)
                        PROVE  TypeOK'
    <2> USE <1>MarkSettingUpType
    <2>1. EnsureEvent(events[a], "setup_running") \in Seq(Events)
      BY <1>EnsureEventType, <1>EventNames DEF TypeOK
    <2>2. QED
      BY <2>1, AllocParts DEF TypeOK, MarkSettingUp, SessionStates,
         ActiveStates, allocVars, createVars, destroyVars, clientVars, controlVars
  <1>MarkReadyType. ASSUME TypeOK, NEW a \in Allocs, MarkReady(a)
                    PROVE  TypeOK'
    <2> USE <1>MarkReadyType
    <2>1. EnsureEvent(events[a], "ready") \in Seq(Events)
      BY <1>EnsureEventType, <1>EventNames DEF TypeOK
    <2>2. QED
      BY <2>1, AllocParts DEF TypeOK, MarkReady, SessionStates, ActiveStates,
         ObservedStates, createVars, destroyVars, clientVars, controlVars
  <1>BeginVerifyType. ASSUME TypeOK, NEW k \in ClientOps, NEW a \in Allocs, BeginVerify(k, a)
                      PROVE  TypeOK'
    <2> USE <1>BeginVerifyType
    <2>1. EnsureKeyedEvent(events[a], "verify_started", k) \in Seq(Events)
      BY <1>EnsureKeyedEventType, <1>KeyedEvents, ZenonT(30) DEF TypeOK
    <2>2. QED
      BY <2>1, AllocParts DEF TypeOK, BeginVerify, SessionStates, ActiveStates,
         ClientStates, allocVars, createVars, destroyVars, controlVars
  \* The two halves of a grade, for whatever allocation it is given.
  <1>GradeType. ASSUME TypeOK, NEW a, GradePassed(a) \/ GradeNotPassed(a)
                PROVE  /\ sessState' \in [Sessions -> SessionStates]
                       /\ sessDesired' \in [Sessions -> {"none", "active", "absent"}]
                       /\ desired' \in [Allocs -> {"none", "active", "absent"}]
                       /\ observed' \in [Allocs -> ObservedStates]
                       /\ attempt' \in [Allocs -> AttemptStates]
                       /\ destroyOp' \in [Allocs -> WorkStates]
                       /\ outcome' \in [Allocs -> Outcomes \cup {"none", "reset"}]
    <2> USE <1>GradeType
    <2>1. CASE GradePassed(a)
      <3>1. /\ sessState' \in [Sessions -> SessionStates]
            /\ sessDesired' \in [Sessions -> {"none", "active", "absent"}]
            /\ outcome' \in [Allocs -> Outcomes \cup {"none", "reset"}]
        BY <2>1, ZenonT(30) DEF TypeOK, GradePassed, FirstOutcome, SessionStates,
           Outcomes
      <3>2. /\ desired' \in [Allocs -> {"none", "active", "absent"}]
            /\ observed' \in [Allocs -> ObservedStates]
        BY <2>1, ZenonT(30) DEF TypeOK, GradePassed, Deleting, ObservedStates
      <3>3. /\ attempt' \in [Allocs -> AttemptStates]
            /\ destroyOp' \in [Allocs -> WorkStates]
        BY <2>1, ZenonT(30) DEF TypeOK, GradePassed, EnsureDestroyOperation,
           AttemptStates, WorkStates
      <3>4. QED
        BY <3>1, <3>2, <3>3
    <2>2. CASE GradeNotPassed(a)
      BY <2>2, ZenonT(30) DEF TypeOK, GradeNotPassed, SessionStates, ActiveStates
    <2>3. QED
      BY <2>1, <2>2
  <1>RecordVerifyResultType. ASSUME TypeOK, NEW k \in ClientOps, NEW result \in Results,
                                    RecordVerifyResult(k, result)
                             PROVE  TypeOK'
    <2> USE <1>RecordVerifyResultType
    <2> DEFINE a == opAlloc[k]
    <2>1. events' \in [Allocs -> Seq(Events)]
      <3>1. events' = [events EXCEPT ![a] = FinishedEvents(@, k, result)]
        BY DEF RecordVerifyResult
      <3>2. a \in Allocs => FinishedEvents(events[a], k, result) \in Seq(Events)
        BY <1>FinishedEventsType DEF TypeOK
      <3> HIDE DEF a
      <3>3. QED
        BY <3>1, <3>2, ZenonT(30) DEF TypeOK
    <2>2. GradePassed(a) \/ GradeNotPassed(a)
      BY DEF RecordVerifyResult
    <2>3. opState' \in [ClientOps -> ClientStates]
      BY DEF TypeOK, RecordVerifyResult, Results, ClientStates
    <2>4. UNCHANGED <<currentGen, createVars, destroyLease, destroyClaims, opAlloc, controlVars>>
      BY DEF RecordVerifyResult
    <2> HIDE DEF a
    <2>5. QED
      BY <2>1, <2>2, <2>3, <2>4, <1>GradeType DEF TypeOK, createVars, controlVars
  <1>RecordChoiceType. ASSUME TypeOK, NEW k \in ClientOps, NEW a \in Allocs,
                              NEW result \in {"passed", "rejected"}, RecordChoice(k, a, result)
                       PROVE  TypeOK'
    <2> USE <1>RecordChoiceType
    <2>1. FinishedEvents(EnsureKeyedEvent(events[a], "verify_started", k), k, result)
             \in Seq(Events)
      BY <1>FinishedEventsType, <1>EnsureKeyedEventType, <1>KeyedEvents, ZenonT(30)
         DEF TypeOK
    <2>2. GradePassed(a) \/ GradeNotPassed(a)
      BY DEF RecordChoice
    <2>3. /\ opState' \in [ClientOps -> ClientStates]
          /\ opAlloc' \in [ClientOps -> Allocs \cup {<<>>}]
          /\ events' \in [Allocs -> Seq(Events)]
      BY <2>1 DEF TypeOK, RecordChoice, ClientStates
    <2>4. UNCHANGED <<currentGen, createVars, destroyLease, destroyClaims, controlVars>>
      BY DEF RecordChoice
    <2>5. QED
      BY <2>2, <2>3, <2>4, <1>GradeType DEF TypeOK, createVars, controlVars
  <1>ReserveResetType. ASSUME TypeOK, NEW s \in Sessions, ReserveReset(s)
                       PROVE  TypeOK'
    <2> USE <1>ReserveResetType
    <2> DEFINE a == <<s, currentGen[s]>>
               b == <<s, currentGen[s] + 1>>
    <2>1. currentGen[s] \in Generations /\ currentGen[s] + 1 \in Generations
      BY BoundsAssumption, SMTT(30) DEF TypeOK, ReserveReset, Generations
    <2>2. a \in Allocs /\ b \in Allocs /\ currentGen[s] + 1 \in 0..MaxGen
      BY <2>1, AllocMade, BoundsAssumption DEF Generations
    <2>3. /\ EnsureEvent(EnsureEvent(events[a], "reset_requested"), "destroying") \in Seq(Events)
          /\ << <<"allocation_reserved">>, <<"reset_requested">> >> \in Seq(Events)
      <3>1. events[a] \in Seq(Events)
        BY <2>2 DEF TypeOK
      <3>2. <<"allocation_reserved">> \in Events /\ <<"reset_requested">> \in Events
        BY <1>EventNames DEF Events
      <3>3. QED
        BY <3>1, <3>2, <1>EnsureEventType, <1>EventNames, SMTT(30)
    <2>4. events' \in [Allocs -> Seq(Events)]
      BY <2>2, <2>3, ZenonT(30) DEF TypeOK, ReserveReset
    <2>5. currentGen' \in [Sessions -> 0..MaxGen]
      BY <2>2 DEF TypeOK, ReserveReset
    <2>6. /\ sessState' \in [Sessions -> SessionStates]
          /\ desired' \in [Allocs -> {"none", "active", "absent"}]
          /\ observed' \in [Allocs -> ObservedStates]
          /\ attempt' \in [Allocs -> AttemptStates]
          /\ createOp' \in [Allocs -> WorkStates]
          /\ destroyOp' \in [Allocs -> WorkStates]
          /\ outcome' \in [Allocs -> Outcomes \cup {"none", "reset"}]
      BY <2>2, ZenonT(30) DEF TypeOK, ReserveReset, Deleting,
         EnsureDestroyOperation, FirstOutcome, SessionStates, ActiveStates,
         ObservedStates, AttemptStates, WorkStates
    <2>7. QED
      BY <2>4, <2>5, <2>6, ZenonT(30) DEF TypeOK, ReserveReset, clientVars,
         controlVars
  <1>RequestDestroyType. ASSUME TypeOK, NEW a \in Allocs, NEW o \in DestroyOutcomes, RequestDestroy(a, o)
                         PROVE  TypeOK'
    <2> USE <1>RequestDestroyType
    <2>1. EnsureEvent(IF IsCurrent(a) THEN EnsureEvent(events[a], o) ELSE events[a],
                      "destroying") \in Seq(Events)
      BY <1>EnsureEventType, <1>EventNames, ZenonT(30) DEF TypeOK, DestroyOutcomes
    <2>2. events' \in [Allocs -> Seq(Events)]
      BY <2>1 DEF TypeOK, RequestDestroy
    <2>3. /\ sessState' \in [Sessions -> SessionStates]
          /\ sessDesired' \in [Sessions -> {"none", "active", "absent"}]
          /\ attempt' \in [Allocs -> AttemptStates]
          /\ outcome' \in [Allocs -> Outcomes \cup {"none", "reset"}]
      BY AllocParts, ZenonT(30) DEF TypeOK, RequestDestroy, DestroyOutcomes, AttemptStatus,
         FirstOutcome, SessionStates, Outcomes, AttemptStates
    <2>4. /\ desired' \in [Allocs -> {"none", "active", "absent"}]
          /\ observed' \in [Allocs -> ObservedStates]
          /\ destroyOp' \in [Allocs -> WorkStates]
      BY DEF TypeOK, RequestDestroy, Deleting, EnsureDestroyOperation, ObservedStates,
         WorkStates
    <2>5. phase' \in Phases /\ UNCHANGED <<recoverySet, restarts>>
      BY DEF TypeOK, RequestDestroy, FailStart, Phases
    <2>6. QED
      BY <2>2, <2>3, <2>4, <2>5 DEF TypeOK, RequestDestroy, createVars, clientVars
  <1>RequestEndType. ASSUME TypeOK, NEW k \in ClientOps, NEW s \in Sessions,
                            currentGen[s] \in Generations, RequestEnd(k, s)
                     PROVE  TypeOK'
    <2> USE <1>RequestEndType
    <2>1. <<s, currentGen[s]>> \in Allocs
      BY AllocMade
    <2>2. events' \in [Allocs -> Seq(Events)]
      BY <1>EnsureEventType, <1>EventNames DEF TypeOK, RequestEnd
    <2>3. /\ sessState' \in [Sessions -> SessionStates]
          /\ sessDesired' \in [Sessions -> {"none", "active", "absent"}]
          /\ attempt' \in [Allocs -> AttemptStates]
          /\ outcome' \in [Allocs -> Outcomes \cup {"none", "reset"}]
      BY <2>1 DEF TypeOK, RequestEnd, FirstOutcome, SessionStates, Outcomes, AttemptStates
    <2>4. /\ desired' \in [Allocs -> {"none", "active", "absent"}]
          /\ observed' \in [Allocs -> ObservedStates]
          /\ destroyOp' \in [Allocs -> WorkStates]
          /\ destroyLease' \in [Allocs -> {"none", "live", "expired"}]
      BY DEF TypeOK, RequestEnd, Deleting, EnsureDestroyOperation, ObservedStates,
         WorkStates
    <2>5. /\ opState' \in [ClientOps -> ClientStates]
          /\ opAlloc' \in [ClientOps -> Allocs \cup {<<>>}]
      BY <2>1 DEF TypeOK, RequestEnd, ClientStates
    <2>6. QED
      BY <2>2, <2>3, <2>4, <2>5 DEF TypeOK, RequestEnd, createVars, controlVars
  <1>ClaimDestroyType. ASSUME TypeOK, NEW a \in Allocs, ClaimDestroyWork(a)
                       PROVE  TypeOK'
    BY <1>ClaimDestroyType, SMTT(30) DEF TypeOK, ClaimDestroyWork, WorkStates, sessVars,
       allocVars, createVars,
       journalVars, clientVars, controlVars
  <1>RetryDestroyType. ASSUME TypeOK, NEW a \in Allocs, NEW token, RetryDestroyWork(a, token)
                       PROVE  TypeOK'
    <2> USE <1>RetryDestroyType
    <2>1. EnsureEvent(events[a], "cleanup_required") \in Seq(Events)
      BY <1>EnsureEventType, <1>EventNames DEF TypeOK
    <2>2. QED
      BY <2>1 DEF TypeOK, RetryDestroyWork, FailStart, Phases, WorkStates, sessVars,
         allocVars, createVars, clientVars
  <1>MarkDestroyedType. ASSUME TypeOK, NEW a \in Allocs, NEW token, MarkClaimedDestroyed(a, token)
                        PROVE  TypeOK'
    <2> USE <1>MarkDestroyedType
    <2> DEFINE cur == <<a[1], currentGen[a[1]]>>
               published == IF IsCurrent(a) THEN events
                            ELSE [events EXCEPT ![cur] =
                                    EnsureKeyedEvent(@, "predecessor_destroyed", a[2])]
    <2>1. published \in [Allocs -> Seq(Events)]
      <3>1. <<"predecessor_destroyed", a[2]>> \in Events
        BY AllocParts, <1>KeyedEvents
      <3>2. \A es \in Seq(Events) :
               EnsureKeyedEvent(es, "predecessor_destroyed", a[2]) \in Seq(Events)
        BY <3>1, <1>EnsureKeyedEventType
      <3> HIDE DEF cur
      <3>3. QED
        BY <3>2, ZenonT(30) DEF TypeOK
    <2>2. DestroyedEvents(a) = [published EXCEPT ![a] = EnsureEvent(@, "destroyed")]
      BY DEF DestroyedEvents
    <2> HIDE DEF published
    <2>3. events' \in [Allocs -> Seq(Events)]
      <3>1. \A es \in Seq(Events) : EnsureEvent(es, "destroyed") \in Seq(Events)
        BY <1>EnsureEventType, <1>EventNames
      <3>2. QED
        BY <2>1, <2>2, <3>1 DEF MarkClaimedDestroyed
    <2>4. QED
      BY <2>3, ZenonT(60) DEF TypeOK, MarkClaimedDestroyed, TerminalizedCreate, SessionStates,
         ObservedStates, WorkStates, clientVars, controlVars
  <1>LeaseExpiresType. ASSUME TypeOK, NEW a \in Allocs, CreateLeaseExpires(a) \/ DestroyLeaseExpires(a)
                       PROVE  TypeOK'
    BY <1>LeaseExpiresType, ZenonT(60) DEF TypeOK, CreateLeaseExpires, DestroyLeaseExpires, sessVars, allocVars,
       createVars, destroyVars, journalVars, clientVars, controlVars
  <1>PrepareType. ASSUME TypeOK, PrepareRecoveryWork
                  PROVE  TypeOK'
    <2> USE <1>PrepareType
    <2>1. events' \in [Allocs -> Seq(Events)]
      <3> SUFFICES ASSUME NEW a \in Allocs,
                          \E k \in Interrupted : opAlloc[k] = a
                   PROVE  EnsureKeyedEvent(events[a], "verify_finished",
                             CHOOSE k \in Interrupted : opAlloc[k] = a) \in Seq(Events)
        BY DEF TypeOK, PrepareRecoveryWork
      <3>1. (CHOOSE k \in Interrupted : opAlloc[k] = a) \in ClientOps
        BY DEF Interrupted
      <3>2. QED
        BY <3>1, <1>EnsureKeyedEventType, <1>KeyedEvents, ZenonT(30) DEF TypeOK
    <2>2. /\ sessState' \in [Sessions -> SessionStates]
          /\ opState' \in [ClientOps -> ClientStates]
      BY DEF TypeOK, PrepareRecoveryWork, RestoredState, SessionStates, ActiveStates,
         ClientStates
    <2>3. /\ createOp' \in [Allocs -> WorkStates]
          /\ destroyOp' \in [Allocs -> WorkStates]
          /\ createLease' \in [Allocs -> {"none", "live", "expired"}]
          /\ destroyLease' \in [Allocs -> {"none", "live", "expired"}]
      BY DEF TypeOK, PrepareRecoveryWork, WorkStates
    <2>4. QED
      BY <2>1, <2>2, <2>3 DEF TypeOK, PrepareRecoveryWork, Phases, allocVars
  <1>ConvergeType. ASSUME TypeOK, NEW a \in Allocs, ConvergeLocalRestart(a)
                   PROVE  TypeOK'
    <2> USE <1>ConvergeType
    <2>1. /\ EnsureEvent(events[a], "destroyed") \in Seq(Events)
          /\ EnsureEvent(EnsureEvent(events[a], "failed"), "destroyed") \in Seq(Events)
      BY <1>EnsureEventType, <1>EventNames DEF TypeOK
    <2>2. events' \in [Allocs -> Seq(Events)]
      BY <2>1 DEF TypeOK, ConvergeLocalRestart
    <2>3. opState' \in [ClientOps -> ClientStates]
      BY DEF TypeOK, ConvergeLocalRestart, SweptClient, ClientStates
    <2>4. /\ desired' \in [Allocs -> {"none", "active", "absent"}]
          /\ observed' \in [Allocs -> ObservedStates]
          /\ attempt' \in [Allocs -> AttemptStates]
          /\ sessState' \in [Sessions -> SessionStates]
          /\ sessDesired' \in [Sessions -> {"none", "active", "absent"}]
      BY ZenonT(30) DEF TypeOK, ConvergeLocalRestart, ObservedStates, AttemptStates,
         SessionStates
    <2>5. /\ createOp' \in [Allocs -> WorkStates]
          /\ destroyOp' \in [Allocs -> WorkStates]
          /\ createLease' \in [Allocs -> {"none", "live", "expired"}]
          /\ destroyLease' \in [Allocs -> {"none", "live", "expired"}]
      BY DEF TypeOK, ConvergeLocalRestart, TerminalizedCreate, WorkStates
    <2>6. QED
      BY <2>2, <2>3, <2>4, <2>5 DEF TypeOK, ConvergeLocalRestart
  <1>ControlType. ASSUME TypeOK, Control
                  PROVE  TypeOK'
    <2> USE <1>ControlType
    <2>1. CASE Restart
      BY <2>1, SMTT(30) DEF TypeOK, Restart, Phases, sessVars, allocVars, createVars, destroyVars,
         journalVars, clientVars
    <2>2. CASE RefuseRecovery \/ Activate
      BY <2>2, SMTT(30) DEF TypeOK, RefuseRecovery, Activate, Phases, sessVars, allocVars,
         createVars, destroyVars, journalVars, clientVars
    <2>3. QED
      BY <2>1, <2>2, <1>PrepareType DEF Control
  \* A step that touches neither sessions' generations, allocations nor work.
  <1>QuietKeeps. ASSUME IInv,
                        UNCHANGED <<sessDesired, currentGen, desired, observed, createVars, destroyOp>>,
                        \A s \in Sessions : sessState'[s] = "none" => sessState[s] = "none",
                        recoverySet' \subseteq recoverySet
                 PROVE  Keeps
    <2> USE <1>QuietKeeps
    <2>1. GenerationsReserved'
      BY DEF IInv, GenerationsReserved
    <2>2. CleanupNeverLost'
      BY DEF IInv, CleanupNeverLost, Absent, createVars
    <2>3. AbsenceStays /\ ClaimsGuarded
      BY DEF AbsenceStays, ClaimsGuarded, createVars
    <2>4. QED
      BY <2>1, <2>2, <2>3 DEF Keeps
  <1>ReserveSessionKeeps. ASSUME IInv, NEW s \in Sessions, ReserveSession(s)
                          PROVE  Keeps
    <2> USE <1>ReserveSessionKeeps
    <2> DEFINE a == <<s, 1>>
    <2>1. a \in Allocs /\ a[1] = s /\ a[2] = 1
      BY AllocMade, BoundsAssumption DEF Generations
    <2>2. currentGen[s] = 0 /\ desired[a] = "none"
      BY <2>1, SMTT(30) DEF IInv, GenerationsReserved, ReserveSession
    <2>3. destroyOp[a] = "none" /\ observed[a] # "absent"
      BY <2>1, <2>2 DEF IInv, CleanupNeverLost, Absent
    <2>4. GenerationsReserved'
      BY <2>1, <2>2, AllocParts, SMTT(30) DEF IInv, TypeOK, GenerationsReserved,
         ReserveSession, controlVars
    <2>5. CleanupNeverLost'
      BY <2>1, <2>3, ZenonT(60) DEF IInv, TypeOK, CleanupNeverLost, Absent, ReserveSession, destroyVars
    <2>6. AbsenceStays /\ ClaimsGuarded
      BY <2>1, <2>3, ZenonT(30) DEF IInv, TypeOK, AbsenceStays, ClaimsGuarded,
         ReserveSession
    <2>7. QED
      BY <2>4, <2>5, <2>6 DEF Keeps
  <1>ClaimCreateKeeps. ASSUME IInv, NEW a \in Allocs, ClaimProvisionableCreate(a)
                       PROVE  Keeps
    <2> USE <1>ClaimCreateKeeps
    <2>1. observed[a] # "absent" /\ OlderAbsent(a)
      BY DEF ClaimProvisionableCreate, CreateClaimable
    <2>2. GenerationsReserved'
      BY DEF IInv, GenerationsReserved, ClaimProvisionableCreate, sessVars, allocVars, controlVars
    <2>3. CleanupNeverLost'
      BY <2>1 DEF IInv, TypeOK, CleanupNeverLost, Absent, ClaimProvisionableCreate,
         allocVars, destroyVars
    <2>4. AbsenceStays /\ ClaimsGuarded
      BY <2>1 DEF IInv, TypeOK, AbsenceStays, ClaimsGuarded, ClaimProvisionableCreate, allocVars
    <2>5. QED
      BY <2>2, <2>3, <2>4 DEF Keeps
  <1>CreateSucceededKeeps. ASSUME IInv, NEW a \in Allocs, NEW token, MarkClaimedCreateSucceeded(a, token)
                           PROVE  Keeps
    <2> USE <1>CreateSucceededKeeps
    <2>1. observed[a] # "absent"
      BY DEF MarkClaimedCreateSucceeded
    <2>2. GenerationsReserved'
      BY AllocParts, SMTT(30) DEF IInv, TypeOK, GenerationsReserved, MarkClaimedCreateSucceeded,
         controlVars
    <2>3. CleanupNeverLost'
      BY <2>1, SMTT(30) DEF IInv, TypeOK, CleanupNeverLost, Absent, Unfinished,
         MarkClaimedCreateSucceeded, destroyVars
    <2>4. AbsenceStays /\ ClaimsGuarded
      BY <2>1 DEF IInv, TypeOK, AbsenceStays, ClaimsGuarded, MarkClaimedCreateSucceeded
    <2>5. QED
      BY <2>2, <2>3, <2>4 DEF Keeps
  <1>CreateFailedKeeps. ASSUME IInv, NEW a \in Allocs, NEW token, MarkClaimedCreateFailed(a, token)
                        PROVE  Keeps
    <2> USE <1>CreateFailedKeeps
    <2>1. desired[a] = "active" /\ sessDesired[a[1]] = "active" /\ IsCurrent(a)
      BY DEF MarkClaimedCreateFailed, Serviceable
    <2>2. destroyOp[a] = "none" /\ observed[a] # "absent"
      BY <2>1 DEF IInv, CleanupNeverLost, Absent
    <2>3. GenerationsReserved'
      BY <2>1, AllocParts, SMTT(30) DEF IInv, TypeOK, GenerationsReserved, IsCurrent,
         MarkClaimedCreateFailed, FailStart
    <2>4. CleanupNeverLost'
      BY <2>2, SMTT(30) DEF IInv, TypeOK, CleanupNeverLost, Absent, Unfinished,
         EnsureDestroyOperation, MarkClaimedCreateFailed
    <2>5. AbsenceStays /\ ClaimsGuarded
      BY <2>2 DEF IInv, TypeOK, AbsenceStays, ClaimsGuarded, MarkClaimedCreateFailed
    <2>6. QED
      BY <2>3, <2>4, <2>5 DEF Keeps
  <1>MarkReadyKeeps. ASSUME IInv, NEW a \in Allocs, MarkReady(a)
                     PROVE  Keeps
    <2> USE <1>MarkReadyKeeps
    <2>1. observed[a] # "absent"
      BY DEF IInv, CleanupNeverLost, Absent, MarkReady, Serviceable
    <2>2. GenerationsReserved'
      BY AllocParts, SMTT(30) DEF IInv, TypeOK, GenerationsReserved, MarkReady, controlVars
    <2>3. CleanupNeverLost'
      BY <2>1, SMTT(30) DEF IInv, TypeOK, CleanupNeverLost, Absent, Unfinished, MarkReady,
         createVars, destroyVars
    <2>4. AbsenceStays /\ ClaimsGuarded
      BY <2>1, ZenonT(30) DEF IInv, TypeOK, AbsenceStays, ClaimsGuarded, MarkReady, createVars
    <2>5. QED
      BY <2>2, <2>3, <2>4 DEF Keeps
  \* A grade on an allocation that is current or is not one at all.
  <1>GradeKeeps. ASSUME IInv, NEW a, GradePassed(a) \/ GradeNotPassed(a),
                        IsCurrent(a), sessDesired[a[1]] = "active",
                        UNCHANGED <<currentGen, createVars, controlVars>>
                 PROVE  Keeps
    <2> USE <1>GradeKeeps
    <2>1. CASE GradeNotPassed(a)
      BY <2>1, <1>QuietKeeps DEF IInv, TypeOK, GradeNotPassed, controlVars
    <2>2. CASE GradePassed(a)
      <3>1. GenerationsReserved'
        <4>1. \A s \in Sessions : /\ sessDesired'[s] # "none" => currentGen'[s] > 0
                                  /\ sessState'[s] = "none" => currentGen'[s] = 0
          BY <2>2, SMTT(30) DEF IInv, TypeOK, GenerationsReserved, GradePassed
        <4>2. \A x \in Allocs : x[2] > currentGen'[x[1]] => desired'[x] = "none"
          BY <2>2, AllocParts, SMTT(30) DEF IInv, TypeOK, GenerationsReserved, GradePassed,
             IsCurrent
        <4>3. \A x \in recoverySet' : desired'[x] # "none"
          BY <2>2 DEF IInv, TypeOK, GenerationsReserved, GradePassed, controlVars
        <4>4. QED
          BY <4>1, <4>2, <4>3 DEF GenerationsReserved
      <3>2. CleanupNeverLost'
        BY <2>2, SMTT(30) DEF IInv, TypeOK, CleanupNeverLost, Absent, Unfinished, Deleting,
           EnsureDestroyOperation, GradePassed, createVars
      <3>3. AbsenceStays /\ ClaimsGuarded
        BY <2>2 DEF IInv, TypeOK, AbsenceStays, ClaimsGuarded, Deleting, GradePassed, createVars
      <3>4. QED
        BY <3>1, <3>2, <3>3 DEF Keeps
    <2>3. QED
      BY <2>1, <2>2
  <1>RecordVerifyResultKeeps. ASSUME IInv, NEW k \in ClientOps, NEW result, RecordVerifyResult(k, result)
                              PROVE  Keeps
    <2> USE <1>RecordVerifyResultKeeps
    <2> DEFINE a == opAlloc[k]
    <2>1. /\ GradePassed(a) \/ GradeNotPassed(a)
          /\ IsCurrent(a) /\ sessDesired[a[1]] = "active"
          /\ UNCHANGED <<currentGen, createVars, controlVars>>
      BY DEF RecordVerifyResult
    <2> HIDE DEF a
    <2>2. QED
      BY <2>1, <1>GradeKeeps
  <1>RecordChoiceKeeps. ASSUME IInv, NEW k, NEW a \in Allocs, NEW result, RecordChoice(k, a, result)
                        PROVE  Keeps
    <2> USE <1>RecordChoiceKeeps
    <2>1. GradePassed(a) \/ GradeNotPassed(a)
      BY DEF RecordChoice
    <2>2. IsCurrent(a) /\ sessDesired[a[1]] = "active"
      BY DEF RecordChoice, Gradable, Serviceable
    <2>3. UNCHANGED <<currentGen, createVars, controlVars>>
      BY DEF RecordChoice
    <2>4. QED
      BY <2>1, <2>2, <2>3, <1>GradeKeeps
  <1>ReserveResetKeeps. ASSUME IInv, NEW s \in Sessions, ReserveReset(s)
                        PROVE  Keeps
    <2> USE <1>ReserveResetKeeps
    <2> DEFINE a == <<s, currentGen[s]>>
               b == <<s, currentGen[s] + 1>>
    <2>1. currentGen[s] \in Generations /\ currentGen[s] + 1 \in Generations
      BY BoundsAssumption, SMTT(30) DEF IInv, TypeOK, ReserveReset, Generations
    <2>2. /\ a \in Allocs /\ b \in Allocs /\ a # b
          /\ b[1] = s /\ b[2] = currentGen[s] + 1
          /\ currentGen[s] \in Nat
      BY <2>1, AllocMade, BoundsAssumption DEF Generations
    <2>3. desired[a] = "active" /\ desired[b] = "none" /\ sessDesired[s] = "active"
      <3>1. Serviceable(a)
        BY DEF ReserveReset, Gradable
      <3>2. desired[a] = "active" /\ sessDesired[a[1]] = "active"
        BY <3>1 DEF Serviceable
      <3>3. a[1] = s
        OBVIOUS
      <3>4. \A x \in Allocs : x[2] > currentGen[x[1]] => desired[x] = "none"
        BY DEF IInv, GenerationsReserved
      <3> HIDE DEF a, b
      <3>5. b[2] > currentGen[b[1]]
        BY <2>2
      <3>6. QED
        BY <2>2, <3>2, <3>3, <3>4, <3>5
    <2>4. /\ destroyOp[a] = "none" /\ observed[a] # "absent"
          /\ destroyOp[b] = "none" /\ observed[b] # "absent"
      BY <2>2, <2>3 DEF IInv, CleanupNeverLost, Absent
    <2>5. /\ sessState' = [sessState EXCEPT ![s] = "queued"]
          /\ currentGen' = [currentGen EXCEPT ![s] = @ + 1]
          /\ desired' = [desired EXCEPT ![a] = "absent", ![b] = "active"]
          /\ observed' = [observed EXCEPT ![a] = Deleting(@), ![b] = "unknown"]
          /\ createOp' = [createOp EXCEPT ![b] = "pending"]
          /\ destroyOp' = [destroyOp EXCEPT ![a] = EnsureDestroyOperation(@)]
          /\ UNCHANGED <<sessDesired, createLease, createClaims, recoverySet>>
      BY DEF ReserveReset, controlVars
    <2> HIDE DEF a, b
    <2>6. GenerationsReserved'
      <3>1. \A t \in Sessions : /\ sessDesired'[t] # "none" => currentGen'[t] > 0
                                /\ sessState'[t] = "none" => currentGen'[t] = 0
        BY <2>2, <2>5, SMTT(30) DEF IInv, TypeOK, GenerationsReserved
      <3>2. ASSUME NEW x \in Allocs, x[2] > currentGen'[x[1]]
            PROVE  desired'[x] = "none"
        <4>1. x[2] > currentGen[x[1]] /\ x # a /\ x # b
          BY <2>2, <2>5, <3>2, AllocParts, SMTT(30) DEF IInv, TypeOK, a
        <4>2. QED
          BY <2>5, <4>1 DEF IInv, TypeOK, GenerationsReserved
      <3>3. \A x \in recoverySet' : desired'[x] # "none"
        BY <2>2, <2>5 DEF IInv, TypeOK, GenerationsReserved
      <3>4. QED
        BY <3>1, <3>2, <3>3 DEF GenerationsReserved
    <2>7. CleanupNeverLost'
      BY <2>2, <2>3, <2>4, <2>5, SMTT(30) DEF IInv, TypeOK, CleanupNeverLost, Absent, Unfinished,
         Deleting, EnsureDestroyOperation
    <2>8. AbsenceStays /\ ClaimsGuarded
      BY <2>2, <2>4, <2>5 DEF IInv, TypeOK, AbsenceStays, ClaimsGuarded
    <2>9. QED
      BY <2>6, <2>7, <2>8 DEF Keeps
  <1>RequestDestroyKeeps. ASSUME IInv, NEW a \in Allocs, NEW o \in DestroyOutcomes, RequestDestroy(a, o)
                          PROVE  Keeps
    <2> USE <1>RequestDestroyKeeps
    <2>1. /\ desired[a] # "none"
          /\ desired' = [desired EXCEPT ![a] = "absent"]
          /\ observed' = [observed EXCEPT ![a] =
                            IF desired[a] = "absent" THEN @ ELSE Deleting(@)]
          /\ destroyOp' = [destroyOp EXCEPT ![a] = EnsureDestroyOperation(@)]
          /\ UNCHANGED <<currentGen, createVars, recoverySet>>
      BY DEF RequestDestroy, FailStart
    <2>2. GenerationsReserved'
      <3>1. \A s \in Sessions : /\ sessDesired'[s] # "none" => currentGen'[s] > 0
                                /\ sessState'[s] = "none" => currentGen'[s] = 0
        BY AllocParts, SMTT(30) DEF IInv, TypeOK, GenerationsReserved, RequestDestroy, IsCurrent,
           DestroyOutcomes
      <3>2. /\ \A x \in Allocs : x[2] > currentGen'[x[1]] => desired'[x] = "none"
            /\ \A x \in recoverySet' : desired'[x] # "none"
        BY <2>1, ZenonT(30) DEF IInv, TypeOK, GenerationsReserved
      <3>3. QED
        BY <3>1, <3>2 DEF GenerationsReserved
    <2>3. CleanupNeverLost'
      BY <2>1, SMTT(30) DEF IInv, TypeOK, CleanupNeverLost, Absent, Unfinished, Deleting,
         EnsureDestroyOperation, createVars
    <2>4. AbsenceStays /\ ClaimsGuarded
      BY <2>1 DEF IInv, TypeOK, AbsenceStays, ClaimsGuarded, Deleting, createVars
    <2>5. QED
      BY <2>2, <2>3, <2>4 DEF Keeps
  <1>RequestEndKeeps. ASSUME IInv, NEW k, NEW s \in Sessions, RequestEnd(k, s)
                      PROVE  Keeps
    <2> USE <1>RequestEndKeeps
    <2> DEFINE A == ReservedAllocs(s)
    <2>1. /\ sessDesired[s] = "active"
          /\ sessState' = [sessState EXCEPT ![s] = "failed"]
          /\ sessDesired' = [sessDesired EXCEPT ![s] = "absent"]
          /\ desired' = [x \in Allocs |-> IF x \in A THEN "absent" ELSE desired[x]]
          /\ observed' = [x \in Allocs |->
                            IF x \in A THEN Deleting(observed[x]) ELSE observed[x]]
          /\ \A x \in Allocs : destroyOp'[x] =
                IF x \notin A THEN destroyOp[x]
                ELSE IF observed[x] = "absent" THEN "succeeded"
                     ELSE EnsureDestroyOperation(destroyOp[x])
          /\ UNCHANGED <<currentGen, createVars, recoverySet>>
      BY DEF RequestEnd, controlVars
    <2>2. \A x \in A : x[1] = s /\ x[2] <= currentGen[s]
      BY SMTT(30) DEF ReservedAllocs, IInv, TypeOK
    <2> HIDE DEF A
    <2>3. GenerationsReserved'
      <3>1. \A t \in Sessions : /\ sessDesired'[t] # "none" => currentGen'[t] > 0
                                /\ sessState'[t] = "none" => currentGen'[t] = 0
        BY <2>1 DEF IInv, TypeOK, GenerationsReserved
      <3>2. \A x \in Allocs : x[2] > currentGen'[x[1]] => desired'[x] = "none"
        BY <2>1, <2>2, AllocParts, SMTT(30) DEF IInv, TypeOK, GenerationsReserved
      <3>3. \A x \in recoverySet' : desired'[x] # "none"
        BY <2>1 DEF IInv, TypeOK, GenerationsReserved
      <3>4. QED
        BY <3>1, <3>2, <3>3 DEF GenerationsReserved
    <2>4. CleanupNeverLost'
      BY <2>1, ZenonT(60) DEF IInv, TypeOK, CleanupNeverLost, Absent, Unfinished, Deleting,
         EnsureDestroyOperation, createVars
    <2>5. AbsenceStays /\ ClaimsGuarded
      <3>1. \A x \in Allocs : observed[x] = "absent" => observed'[x] = "absent"
        BY <2>1 DEF Deleting
      <3>2. UNCHANGED createClaims
        BY <2>1 DEF createVars
      <3>3. QED
        BY <3>1, <3>2 DEF IInv, TypeOK, AbsenceStays, ClaimsGuarded
    <2>6. QED
      BY <2>3, <2>4, <2>5 DEF Keeps
  \* Claiming destroy work and giving it back leave it unfinished.
  <1>DestroyWorkKeeps. ASSUME IInv, NEW a \in Allocs, NEW token,
                              ClaimDestroyWork(a) \/ RetryDestroyWork(a, token)
                       PROVE  Keeps
    <2> USE <1>DestroyWorkKeeps
    <2>1. /\ destroyOp[a] \in Unfinished
          /\ \/ destroyOp' = [destroyOp EXCEPT ![a] = "running"]
             \/ destroyOp' = [destroyOp EXCEPT ![a] = "cleanup_required"]
          /\ UNCHANGED <<sessVars, allocVars, createVars, recoverySet>>
      BY DEF ClaimDestroyWork, DestroyClaimable, Claimable,
         RetryDestroyWork, HoldsLease, Unfinished, FailStart, controlVars
    <2>2. GenerationsReserved'
      BY <2>1 DEF IInv, GenerationsReserved, sessVars, allocVars
    <2>3. CleanupNeverLost'
      BY <2>1, SMTT(30) DEF IInv, TypeOK, CleanupNeverLost, Absent, Unfinished, allocVars,
         createVars
    <2>4. AbsenceStays /\ ClaimsGuarded
      BY <2>1, ZenonT(30) DEF AbsenceStays, ClaimsGuarded, allocVars, createVars
    <2>5. QED
      BY <2>2, <2>3, <2>4 DEF Keeps
  \* Proof of absence ends the create and the destroy work together.
  <1>AbsenceKeeps. ASSUME IInv, NEW a \in Allocs, desired[a] # "none",
                          desired' = [desired EXCEPT ![a] = "absent"],
                          observed' = [observed EXCEPT ![a] = "absent"],
                          createOp' = [createOp EXCEPT ![a] = TerminalizedCreate(@)],
                          createLease' = [createLease EXCEPT ![a] = "none"],
                          destroyOp' = [destroyOp EXCEPT ![a] = "succeeded"],
                          sessState' = [sessState EXCEPT ![a[1]] = IF IsCurrent(a) THEN "destroyed" ELSE @],
                          sessDesired' = [sessDesired EXCEPT ![a[1]] = IF IsCurrent(a) THEN "absent" ELSE @],
                          recoverySet' \subseteq recoverySet,
                          UNCHANGED <<currentGen, createClaims>>
                   PROVE  Keeps
    <2> USE <1>AbsenceKeeps
    <2>1. \A s \in Sessions : /\ sessDesired'[s] # "none" => currentGen'[s] > 0
                              /\ sessState'[s] = "none" => currentGen'[s] = 0
      BY AllocParts, SMTT(30) DEF IInv, TypeOK, GenerationsReserved, IsCurrent
    <2>2. /\ \A x \in Allocs : x[2] > currentGen'[x[1]] => desired'[x] = "none"
          /\ \A x \in recoverySet' : desired'[x] # "none"
      BY ZenonT(30) DEF IInv, TypeOK, GenerationsReserved
    <2>3. CleanupNeverLost'
      BY SMTT(30) DEF IInv, TypeOK, CleanupNeverLost, Absent, Unfinished, TerminalizedCreate
    <2>4. AbsenceStays /\ ClaimsGuarded
      BY DEF IInv, TypeOK, AbsenceStays, ClaimsGuarded
    <2>5. QED
      BY <2>1, <2>2, <2>3, <2>4 DEF Keeps, GenerationsReserved
  <1>MarkDestroyedKeeps. ASSUME IInv, NEW a \in Allocs, NEW token, MarkClaimedDestroyed(a, token)
                         PROVE  Keeps
    <2> USE <1>MarkDestroyedKeeps
    <2>1. desired[a] = "absent" /\ desired' = [desired EXCEPT ![a] = "absent"]
      BY DEF IInv, TypeOK, MarkClaimedDestroyed
    <2>2. QED
      BY <2>1, <1>AbsenceKeeps, ZenonT(30) DEF MarkClaimedDestroyed, controlVars
  <1>ConvergeKeeps. ASSUME IInv, NEW a \in Allocs, ConvergeLocalRestart(a)
                    PROVE  Keeps
    <2> USE <1>ConvergeKeeps
    <2>1. desired[a] # "none"
      BY DEF IInv, GenerationsReserved, ConvergeLocalRestart, ConvergeNext
    <2>2. QED
      BY <2>1, <1>AbsenceKeeps, ZenonT(30) DEF ConvergeLocalRestart
  <1>LeaseExpiresKeeps. ASSUME IInv, NEW a \in Allocs, CreateLeaseExpires(a) \/ DestroyLeaseExpires(a)
                        PROVE  Keeps
    <2> USE <1>LeaseExpiresKeeps
    <2>1. CASE DestroyLeaseExpires(a)
      BY <2>1, <1>QuietKeeps DEF DestroyLeaseExpires, sessVars, allocVars, createVars, controlVars
    <2>2. CASE CreateLeaseExpires(a)
      <3>1. GenerationsReserved'
        BY <2>2 DEF IInv, GenerationsReserved, CreateLeaseExpires,
           sessVars, allocVars, controlVars
      <3>2. CleanupNeverLost'
        BY <2>2 DEF IInv, TypeOK, CleanupNeverLost, Absent, CreateLeaseExpires, allocVars,
           destroyVars
      <3>3. AbsenceStays /\ ClaimsGuarded
        BY <2>2, ZenonT(30) DEF AbsenceStays, ClaimsGuarded, CreateLeaseExpires,
           allocVars
      <3>4. QED
        BY <3>1, <3>2, <3>3 DEF Keeps
    <2>3. QED
      BY <2>1, <2>2
  <1>ControlKeeps. ASSUME IInv, Control
                   PROVE  Keeps
    <2> USE <1>ControlKeeps
    <2>1. CASE Restart
      <3>1. GenerationsReserved'
        BY <2>1, ZenonT(30) DEF IInv, GenerationsReserved, Restart, sessVars,
           allocVars
      <3>2. CleanupNeverLost' /\ AbsenceStays /\ ClaimsGuarded
        BY <2>1 DEF IInv, CleanupNeverLost, Absent, AbsenceStays, ClaimsGuarded, Restart,
           allocVars, createVars, destroyVars
      <3>3. QED
        BY <3>1, <3>2 DEF Keeps
    <2>2. CASE RefuseRecovery \/ Activate
      BY <2>2, <1>QuietKeeps DEF RefuseRecovery, Activate, sessVars, allocVars, destroyVars
    <2>3. CASE PrepareRecoveryWork
      <3>1. GenerationsReserved'
        BY <2>3 DEF IInv, TypeOK, GenerationsReserved, PrepareRecoveryWork, RestoredState,
           allocVars
      <3>2. CleanupNeverLost'
        BY <2>3 DEF IInv, TypeOK, CleanupNeverLost, Absent, Unfinished,
           PrepareRecoveryWork, allocVars
      <3>3. AbsenceStays /\ ClaimsGuarded
        BY <2>3, ZenonT(30) DEF AbsenceStays, ClaimsGuarded, PrepareRecoveryWork,
           allocVars
      <3>4. QED
        BY <3>1, <3>2, <3>3 DEF Keeps
    <2>4. QED
      BY <2>1, <2>2, <2>3 DEF Control
  <1>CreateStep. ASSUME IInv, NEW a \in Allocs, Create(a)
                 PROVE  TypeOK' /\ Keeps
    <2> USE <1>CreateStep
    <2> TypeOK
      BY DEF IInv
    <2>1. CASE ClaimProvisionableCreate(a)
      BY <2>1, <1>ClaimCreateType, <1>ClaimCreateKeeps
    <2>2. ASSUME NEW token, MarkClaimedCreateSucceeded(a, token) PROVE TypeOK' /\ Keeps
      BY <2>2, <1>CreateSucceededType, <1>CreateSucceededKeeps
    <2>3. ASSUME NEW token, MarkClaimedCreateFailed(a, token) PROVE TypeOK' /\ Keeps
      BY <2>3, <1>CreateFailedType, <1>CreateFailedKeeps
    <2>4. CASE CreateLeaseExpires(a)
      BY <2>4, <1>LeaseExpiresType, <1>LeaseExpiresKeeps
    <2>5. CASE MarkSettingUp(a)
      <3>1. Keeps
        BY <2>5, <1>QuietKeeps, AllocParts, ZenonT(30) DEF TypeOK, MarkSettingUp, allocVars,
           createVars,
           destroyVars, controlVars
      <3>2. QED
        BY <2>5, <3>1, <1>MarkSettingUpType
    <2>6. CASE MarkReady(a)
      BY <2>6, <1>MarkReadyType, <1>MarkReadyKeeps
    <2>7. QED
      BY <2>1, <2>2, <2>3, <2>4, <2>5, <2>6 DEF Create
  <1>DestroyStep. ASSUME IInv, NEW a \in Allocs, Destroy(a)
                  PROVE  TypeOK' /\ Keeps
    <2> USE <1>DestroyStep
    <2> TypeOK
      BY DEF IInv
    <2>1. ASSUME NEW o \in DestroyOutcomes, RequestDestroy(a, o) PROVE TypeOK' /\ Keeps
      BY <2>1, <1>RequestDestroyType, <1>RequestDestroyKeeps
    <2>2. CASE ClaimDestroyWork(a)
      BY <2>2, <1>ClaimDestroyType, <1>DestroyWorkKeeps
    <2>3. ASSUME NEW token, RetryDestroyWork(a, token) PROVE TypeOK' /\ Keeps
      BY <2>3, <1>RetryDestroyType, <1>DestroyWorkKeeps
    <2>4. ASSUME NEW token, MarkClaimedDestroyed(a, token) PROVE TypeOK' /\ Keeps
      BY <2>4, <1>MarkDestroyedType, <1>MarkDestroyedKeeps
    <2>5. CASE DestroyLeaseExpires(a)
      BY <2>5, <1>LeaseExpiresType, <1>LeaseExpiresKeeps
    <2>6. CASE ConvergeLocalRestart(a)
      BY <2>6, <1>ConvergeType, <1>ConvergeKeeps
    <2>7. QED
      BY <2>1, <2>2, <2>3, <2>4, <2>5, <2>6 DEF Destroy
  <1>ClientStep. ASSUME IInv, NEW k \in ClientOps, Client(k)
                 PROVE  TypeOK' /\ Keeps
    <2> USE <1>ClientStep
    <2> TypeOK
      BY DEF IInv
    <2>1. ASSUME NEW a \in Allocs, BeginVerify(k, a) PROVE TypeOK' /\ Keeps
      <3>1. Keeps
        BY <2>1, <1>QuietKeeps DEF TypeOK, BeginVerify, allocVars, createVars, destroyVars,
           controlVars
      <3>2. QED
        BY <2>1, <3>1, <1>BeginVerifyType
    <2>2. ASSUME NEW a \in Allocs, NEW result \in {"passed", "rejected"},
                 RecordChoice(k, a, result)
          PROVE  TypeOK' /\ Keeps
      BY <2>2, <1>RecordChoiceType, <1>RecordChoiceKeeps
    <2>3. ASSUME NEW result \in Results, RecordVerifyResult(k, result)
          PROVE  TypeOK' /\ Keeps
      BY <2>3, <1>RecordVerifyResultType, <1>RecordVerifyResultKeeps
    <2>4. ASSUME NEW s \in Sessions, RequestEnd(k, s) PROVE TypeOK' /\ Keeps
      <3>1. currentGen[s] \in Generations
        <4>1. sessDesired[s] = "active"
          BY <2>4 DEF RequestEnd
        <4>2. currentGen[s] \in 0..MaxGen /\ currentGen[s] > 0
          BY <4>1, ZenonT(30) DEF IInv, TypeOK, GenerationsReserved
        <4>3. QED
          BY <4>2, BoundsAssumption DEF Generations
      <3>2. QED
        BY <2>4, <3>1, <1>RequestEndType, <1>RequestEndKeeps
    <2>5. CASE ReplayEnd(k)
      <3>1. Keeps
        BY <2>5, <1>QuietKeeps, ZenonT(30) DEF ReplayEnd, sessVars, allocVars,
           destroyVars, controlVars
      <3>2. TypeOK'
        BY <2>5 DEF TypeOK, ReplayEnd, ClientStates, sessVars, allocVars,
           createVars, destroyVars, journalVars, controlVars
      <3>3. QED
        BY <3>1, <3>2
    <2>6. QED
      BY <2>1, <2>2, <2>3, <2>4, <2>5 DEF Client
  <1> SUFFICES ASSUME IInv, [Next]_vars
               PROVE  TypeOK' /\ Keeps
    OBVIOUS
  <1> TypeOK
    BY DEF IInv
  <1>1. CASE UNCHANGED vars
    <2>1. TypeOK'
      BY <1>1 DEF TypeOK, vars, sessVars, allocVars, createVars,
         destroyVars, journalVars, clientVars, controlVars
    <2>2. Keeps
      BY <1>1, <1>QuietKeeps DEF vars, sessVars, allocVars, destroyVars, controlVars
    <2>3. QED
      BY <2>1, <2>2
  <1>2. ASSUME NEW s \in Sessions, ReserveSession(s) PROVE TypeOK' /\ Keeps
    BY <1>2, <1>ReserveSessionType, <1>ReserveSessionKeeps
  <1>3. ASSUME NEW s \in Sessions, ReserveReset(s) PROVE TypeOK' /\ Keeps
    BY <1>3, <1>ReserveResetType, <1>ReserveResetKeeps
  <1>4. QED
    BY <1>1, <1>2, <1>3, <1>CreateStep, <1>DestroyStep, <1>ClientStep, <1>ControlType, <1>ControlKeeps
       DEF Next

LEMMA IInvHolds == Spec => []IInv
  <1>InitIInv. Init => IInv
    <2> SUFFICES ASSUME Init PROVE IInv
      OBVIOUS
    <2>1. TypeOK
      BY BoundsAssumption DEF Init, TypeOK, SessionStates, ObservedStates, AttemptStates,
         WorkStates, ClientStates, Phases
    <2>2. GenerationsReserved /\ CleanupNeverLost
      BY AllocParts DEF Init, GenerationsReserved, CleanupNeverLost, Absent, Unfinished
    <2>3. OneProvisionedGeneration
      BY DEF Init, OneProvisionedGeneration
    <2>4. QED
      BY <2>1, <2>2, <2>3 DEF IInv
  \* A claimed create keeps its predecessors absent, because absence is stable
  \* and a first claim demands it.
  <1>OneProvisionedStep. ASSUME IInv, TypeOK', Keeps
                         PROVE  OneProvisionedGeneration'
    <2> USE <1>OneProvisionedStep
    <2> SUFFICES ASSUME NEW a \in Allocs, createClaims'[a] > 0, NEW g \in 1..(a[2] - 1)
                 PROVE  observed'[<<a[1], g>>] = "absent"
      BY DEF OneProvisionedGeneration
    <2>1. <<a[1], g>> \in Allocs
      BY AllocParts, AllocMade, BoundsAssumption, SMTT(30) DEF Generations
    <2>2. observed[<<a[1], g>>] = "absent"
      BY DEF IInv, Keeps, ClaimsGuarded, OneProvisionedGeneration,
         OlderAbsent, Absent
    <2>3. QED
      BY <2>1, <2>2 DEF Keeps, AbsenceStays
  <1>1. IInv /\ [Next]_vars => IInv'
    BY StepKeeps, <1>OneProvisionedStep DEF IInv, Keeps
  <1>2. QED
    BY <1>1, <1>InitIInv, PTL DEF Spec

\* Every row of the store keeps its type under every operation.
THEOREM TypeCorrect == Spec => []TypeOK
  <1>1. IInv => TypeOK
    BY DEF IInv
  <1>2. QED
    BY <1>1, IInvHolds, PTL

\* No create is handed to a worker while an older generation may still have
\* provider resources (claimProvisionableCreate), over any number of resets,
\* ends, lease expiries and restarts.
THEOREM OneGenerationProvisioned == Spec => []OneProvisionedGeneration
  <1>1. IInv => OneProvisionedGeneration
    BY DEF IInv
  <1>2. QED
    BY <1>1, IInvHolds, PTL

\* Cleanup is neither lost nor repeated: an unwanted allocation has a destroy
\* operation, which is unfinished exactly until absence is proven
\* (ensureDestroyOperationTx, markDestroyed, convergeOneLocalRestart).
THEOREM CleanupKept == Spec => []CleanupNeverLost
  <1>1. IInv => CleanupNeverLost
    BY DEF IInv
  <1>2. QED
    BY <1>1, IInvHolds, PTL

\* Proven absence is never withdrawn, whatever arrives late.
THEOREM AbsenceIsStable == Spec => [][AbsenceStays]_vars
  <1>1. IInv /\ [Next]_vars => [AbsenceStays]_vars
    BY StepKeeps DEF Keeps
  <1>2. QED
    BY <1>1, IInvHolds, PTL DEF Spec

-----------------------------------------------------------------------------
(***************************************************************************)
(* RunnerStore implements Environments, for every value of the constants.  *)
(* A transaction does one of five things to the rows the refinement        *)
(* mapping reads: nothing it can see, reserve a session, replace a         *)
(* generation, give the wanted allocation up, or prove an absence.  Each   *)
(* has one step of the proof, which also keeps Rows.  First, a success is  *)
(* only ever recorded in a running environment: a session that is          *)
(* verifying has one.                                                      *)
(***************************************************************************)

\* A step that starts no verification and disturbs none.
Undisturbed ==
    /\ \A k \in ClientOps : opState'[k] = "running" =>
          opState[k] = "running" /\ opAlloc'[k] = opAlloc[k]
    /\ \A s \in Sessions : sessState'[s] = "verifying" =>
          /\ sessState[s] = "verifying"
          /\ sessDesired'[s] = sessDesired[s]
          /\ currentGen'[s] = currentGen[s]
          /\ observed'[<<s, currentGen[s]>>] = observed[<<s, currentGen[s]>>]

LEMMA GradingStep ==
    IInv /\ Grading /\ [Next]_vars =>
           Grading'
  <1>UndisturbedGrading. ASSUME Grading, Undisturbed
                         PROVE  Grading'
    BY <1>UndisturbedGrading DEF Grading, Undisturbed
  <1>VerifyingAlloc. ASSUME IInv, Grading, NEW s \in Sessions, sessState[s] = "verifying"
                     PROVE  <<s, currentGen[s]>> \in Allocs
    <2> USE <1>VerifyingAlloc
    <2>1. sessDesired[s] = "active"
      BY DEF Grading
    <2>2. currentGen[s] \in 0..MaxGen /\ currentGen[s] > 0
      BY <2>1, ZenonT(30) DEF IInv, TypeOK, GenerationsReserved
    <2>3. currentGen[s] \in Generations
      BY <2>2, BoundsAssumption DEF Generations
    <2>4. QED
      BY <2>3, AllocMade
  \* A step on one allocation that is not that of a session left verifying.
  <1>OneAllocGrading. ASSUME IInv, Grading, NEW a \in Allocs,
                             \A s \in Sessions : s # a[1] =>
                                sessState'[s] = sessState[s] /\ sessDesired'[s] = sessDesired[s],
                             \A x \in Allocs : x # a => observed'[x] = observed[x],
                             \/ sessState'[a[1]] # "verifying"
                             \/ ~IsCurrent(a) /\ UNCHANGED <<sessState, sessDesired>>,
                             UNCHANGED <<currentGen, clientVars>>
                      PROVE  Grading'
    <2> USE <1>OneAllocGrading
    <2>1. \A k \in ClientOps : opState'[k] = "running" => opState[k] = "running" /\ opAlloc'[k] = opAlloc[k]
      BY DEF clientVars
    <2>2. ASSUME NEW s \in Sessions, sessState'[s] = "verifying"
          PROVE  /\ sessState[s] = "verifying"
                 /\ sessDesired'[s] = sessDesired[s]
                 /\ observed'[<<s, currentGen[s]>>] = observed[<<s, currentGen[s]>>]
      <3>1. /\ sessState[s] = "verifying" /\ sessDesired'[s] = sessDesired[s]
            /\ s = a[1] => ~IsCurrent(a)
        BY <2>2
      <3>2. <<s, currentGen[s]>> \in Allocs
        BY <3>1, <1>VerifyingAlloc
      <3>3. <<s, currentGen[s]>> # a
        BY <3>1, SMTT(30) DEF IsCurrent
      <3>4. QED
        BY <3>1, <3>2, <3>3
    <2>3. Undisturbed
      BY <2>1, <2>2 DEF Undisturbed
    <2>4. QED
      BY <2>3, <1>UndisturbedGrading
  \* A step that changes no session, no observation and no client operation.
  <1>QuietGrading. ASSUME Grading, UNCHANGED <<sessVars, observed, clientVars>>
                   PROVE  Grading'
    BY <1>QuietGrading DEF Grading, sessVars, clientVars
  <1>CreateGrading. ASSUME IInv, Grading, NEW a \in Allocs, Create(a)
                    PROVE  Grading'
    <2> USE <1>CreateGrading
    <2>1. CASE ClaimProvisionableCreate(a) \/ CreateLeaseExpires(a)
      BY <2>1, <1>QuietGrading DEF ClaimProvisionableCreate, CreateLeaseExpires, allocVars
    <2>2. ASSUME NEW token, MarkClaimedCreateSucceeded(a, token) PROVE Grading'
      <3>1. /\ sessState'[a[1]] # "verifying"
            /\ \A s \in Sessions : s # a[1] => sessState'[s] = sessState[s]
            /\ \A x \in Allocs : x # a => observed'[x] = observed[x]
            /\ UNCHANGED <<sessDesired, currentGen, clientVars>>
        BY <2>2, AllocParts, SMTT(30) DEF MarkClaimedCreateSucceeded, IInv, TypeOK
      <3>2. QED
        BY <3>1, <1>OneAllocGrading
    <2>3. ASSUME NEW token, MarkClaimedCreateFailed(a, token) PROVE Grading'
      <3>1. /\ sessState'[a[1]] # "verifying"
            /\ \A s \in Sessions : s # a[1] =>
                  sessState'[s] = sessState[s] /\ sessDesired'[s] = sessDesired[s]
            /\ \A x \in Allocs : x # a => observed'[x] = observed[x]
            /\ UNCHANGED <<currentGen, clientVars>>
        BY <2>3, AllocParts, ZenonT(30) DEF MarkClaimedCreateFailed, IInv, TypeOK
      <3>2. QED
        BY <3>1, <1>OneAllocGrading
    <2>4. CASE MarkSettingUp(a)
      <3>1. /\ \A s \in Sessions : sessState'[s] = "verifying" => sessState[s] = "verifying"
            /\ UNCHANGED <<sessDesired, currentGen, observed, clientVars>>
        BY <2>4, AllocParts, ZenonT(30) DEF MarkSettingUp, allocVars, IInv, TypeOK
      <3>2. Undisturbed
        BY <3>1 DEF Undisturbed, clientVars
      <3>3. QED
        BY <3>2, <1>UndisturbedGrading
    <2>5. CASE MarkReady(a)
      <3>1. /\ sessState'[a[1]] # "verifying"
            /\ \A s \in Sessions : s # a[1] => sessState'[s] = sessState[s]
            /\ \A x \in Allocs : x # a => observed'[x] = observed[x]
            /\ UNCHANGED <<sessDesired, currentGen, clientVars>>
        BY <2>5, AllocParts, SMTT(30) DEF MarkReady, IInv, TypeOK
      <3>2. QED
        BY <3>1, <1>OneAllocGrading
    <2>6. QED
      BY <2>1, <2>2, <2>3, <2>4, <2>5 DEF Create
  \* An outcome of the current generation ends a verification; one of an older
  \* generation does not touch it.
  <1>RequestDestroyGrading. ASSUME IInv, Grading, NEW a \in Allocs, NEW o \in DestroyOutcomes, RequestDestroy(a, o)
                            PROVE  Grading'
    <2> USE <1>RequestDestroyGrading
    <2> DEFINE first == IsCurrent(a) /\ outcome[a] = "none"
    <2>1. /\ OutcomeAcceptable(a, o)
          /\ sessState' = [sessState EXCEPT ![a[1]] = IF first THEN o ELSE @]
          /\ sessDesired' = [sessDesired EXCEPT ![a[1]] = IF first THEN "absent" ELSE @]
          /\ \A x \in Allocs : x # a => observed'[x] = observed[x]
          /\ UNCHANGED <<currentGen, clientVars>>
      BY DEF RequestDestroy, IInv, TypeOK
    <2>2. \A s \in Sessions : s # a[1] =>
             sessState'[s] = sessState[s] /\ sessDesired'[s] = sessDesired[s]
      BY <2>1 DEF IInv, TypeOK
    <2>3. CASE first
      <3>1. sessState'[a[1]] # "verifying"
        BY <2>1, <2>3, AllocParts DEF DestroyOutcomes, IInv, TypeOK
      <3>2. QED
        BY <2>1, <2>2, <3>1, <1>OneAllocGrading
    <2>4. CASE ~first
      <3>1. sessState' = sessState /\ sessDesired' = sessDesired
        BY <2>1, <2>4, AllocParts DEF IInv, TypeOK
      <3>2. IsCurrent(a) => sessState[a[1]] # "verifying"
        BY <2>1, <2>4, AllocParts DEF OutcomeAcceptable, Grading
      <3>3. QED
        BY <2>1, <2>2, <3>1, <3>2, <1>OneAllocGrading
    <2>5. QED
      BY <2>3, <2>4
  <1>AbsenceGrading. ASSUME IInv, Grading, NEW a \in Allocs,
                            sessState' = [sessState EXCEPT ![a[1]] = IF IsCurrent(a) THEN "destroyed" ELSE @],
                            sessDesired' = [sessDesired EXCEPT ![a[1]] = IF IsCurrent(a) THEN "absent" ELSE @],
                            observed' = [observed EXCEPT ![a] = "absent"],
                            UNCHANGED <<currentGen, clientVars>>
                     PROVE  Grading'
    <2> USE <1>AbsenceGrading
    <2>1. /\ \A s \in Sessions : s # a[1] =>
                sessState'[s] = sessState[s] /\ sessDesired'[s] = sessDesired[s]
          /\ \A x \in Allocs : x # a => observed'[x] = observed[x]
      BY DEF IInv, TypeOK
    <2>2. CASE IsCurrent(a)
      <3>1. sessState'[a[1]] # "verifying"
        BY <2>2, AllocParts DEF IInv, TypeOK
      <3>2. QED
        BY <2>1, <3>1, <1>OneAllocGrading
    <2>3. CASE ~IsCurrent(a)
      <3>1. sessState' = sessState /\ sessDesired' = sessDesired
        BY <2>3, AllocParts, SMTT(30) DEF IInv, TypeOK
      <3>2. QED
        BY <2>1, <2>3, <3>1, <1>OneAllocGrading
    <2>4. QED
      BY <2>2, <2>3
  <1>DestroyGrading. ASSUME IInv, Grading, NEW a \in Allocs, Destroy(a)
                     PROVE  Grading'
    <2> USE <1>DestroyGrading
    <2>1. ASSUME NEW token, ClaimDestroyWork(a) \/ RetryDestroyWork(a, token) \/ DestroyLeaseExpires(a)
          PROVE  Grading'
      BY <2>1, <1>QuietGrading DEF ClaimDestroyWork, RetryDestroyWork, DestroyLeaseExpires, allocVars
    <2>2. ASSUME NEW token, MarkClaimedDestroyed(a, token) PROVE Grading'
      BY <2>2, <1>AbsenceGrading DEF MarkClaimedDestroyed
    <2>3. CASE ConvergeLocalRestart(a)
      <3>1. /\ sessState' = [sessState EXCEPT ![a[1]] = IF IsCurrent(a) THEN "destroyed" ELSE @]
            /\ sessDesired' = [sessDesired EXCEPT ![a[1]] = IF IsCurrent(a) THEN "absent" ELSE @]
            /\ observed' = [observed EXCEPT ![a] = "absent"]
            /\ opState' = [k \in ClientOps |-> SweptClient(k, a)]
            /\ UNCHANGED <<currentGen, opAlloc>>
        BY <2>3 DEF ConvergeLocalRestart
      <3>2. \A k \in ClientOps : opState'[k] = "running" => opState[k] = "running"
        BY <3>1 DEF SweptClient
      <3>3. ASSUME NEW s \in Sessions, sessState'[s] = "verifying"
            PROVE  /\ sessState[s] = "verifying"
                   /\ sessDesired'[s] = sessDesired[s]
                   /\ observed'[<<s, currentGen[s]>>] = observed[<<s, currentGen[s]>>]
        <4>1. sessState[s] = "verifying" /\ (s = a[1] => ~IsCurrent(a))
          BY <3>1, <3>3, AllocParts DEF IInv, TypeOK
        <4>2. <<s, currentGen[s]>> # a
          BY <4>1 DEF IsCurrent
        <4>3. sessDesired'[s] = sessDesired[s]
          BY <3>1, <4>1, AllocParts DEF IInv, TypeOK
        <4>4. observed'[<<s, currentGen[s]>>] = observed[<<s, currentGen[s]>>]
          BY <3>1, <4>2, SMTT(30) DEF IInv, TypeOK
        <4>5. QED
          BY <4>1, <4>3, <4>4
      <3>4. Undisturbed
        BY <3>1, <3>2, <3>3 DEF Undisturbed
      <3>5. QED
        BY <3>4, <1>UndisturbedGrading
    <2>4. QED
      BY <2>1, <2>2, <2>3, <1>RequestDestroyGrading DEF Destroy
  <1>GradesGrading. ASSUME IInv, Grading, NEW k \in ClientOps, NEW a \in Allocs, NEW result \in Results,
                           GradePassed(a) \/ GradeNotPassed(a), opState' = [opState EXCEPT ![k] = result],
                           \A x \in ClientOps : x # k => opAlloc'[x] = opAlloc[x],
                           UNCHANGED currentGen
                    PROVE  Grading'
    <2> USE <1>GradesGrading
    <2>1. /\ sessState'[a[1]] # "verifying"
          /\ \A s \in Sessions : s # a[1] =>
                sessState'[s] = sessState[s] /\ sessDesired'[s] = sessDesired[s]
          /\ \A x \in Allocs : x # a => observed'[x] = observed[x]
      BY AllocParts, SMTT(30) DEF GradePassed, GradeNotPassed, IInv, TypeOK
    <2>2. \A x \in ClientOps : opState'[x] = "running" => opState[x] = "running" /\ opAlloc'[x] = opAlloc[x]
      BY DEF Results, IInv, TypeOK
    <2>3. \A s \in Sessions : s # a[1] => <<s, currentGen[s]>> # a
      BY SMTT(30)
    <2>4. \A s \in Sessions : sessState[s] = "verifying" => <<s, currentGen[s]>> \in Allocs
      BY <1>VerifyingAlloc
    <2>5. Undisturbed
      BY <2>1, <2>2, <2>3, <2>4 DEF Undisturbed
    <2>6. QED
      BY <2>5, <1>UndisturbedGrading
  <1>ClientGrading. ASSUME IInv, Grading, NEW k \in ClientOps, Client(k)
                    PROVE  Grading'
    <2> USE <1>ClientGrading
    <2>1. ASSUME NEW a \in Allocs, BeginVerify(k, a) PROVE Grading'
      <3>1. /\ a = <<a[1], currentGen[a[1]]>> /\ a[1] \in Sessions
            /\ sessDesired[a[1]] = "active" /\ observed[a] = "running"
        BY <2>1, AllocParts DEF BeginVerify, Gradable, Serviceable, IsCurrent
      <3>2. /\ opState' = [opState EXCEPT ![k] = "running"]
            /\ opAlloc' = [opAlloc EXCEPT ![k] = a]
            /\ sessState' = [sessState EXCEPT ![a[1]] = "verifying"]
            /\ UNCHANGED <<sessDesired, currentGen, observed>>
        BY <2>1 DEF BeginVerify, allocVars
      <3>3. \A x \in ClientOps : opState'[x] = "running" => opAlloc'[x] \in Allocs
        BY <3>2, SMTT(30) DEF Grading, IInv, TypeOK
      <3>4. \A s \in Sessions : sessState'[s] = "verifying" =>
               sessDesired'[s] = "active" /\ observed'[<<s, currentGen'[s]>>] = "running"
        <4> TAKE s \in Sessions
        <4>1. s = a[1] \/ sessState'[s] = sessState[s]
          BY <3>2 DEF IInv, TypeOK
        <4>2. sessState[s] = "verifying" =>
                 sessDesired[s] = "active" /\ observed[<<s, currentGen[s]>>] = "running"
          BY DEF Grading
        <4>3. QED
          BY <3>1, <3>2, <4>1, <4>2
      <3>5. QED
        BY <3>3, <3>4 DEF Grading
    <2>2. ASSUME NEW a \in Allocs, NEW result \in {"passed", "rejected"},
                 RecordChoice(k, a, result)
          PROVE  Grading'
      <3>1. /\ GradePassed(a) \/ GradeNotPassed(a)
            /\ opState' = [opState EXCEPT ![k] = result]
            /\ \A x \in ClientOps : x # k => opAlloc'[x] = opAlloc[x]
            /\ UNCHANGED currentGen
            /\ result \in Results
        BY <2>2 DEF RecordChoice, Results, IInv, TypeOK
      <3>2. QED
        BY <3>1, <1>GradesGrading
    <2>3. ASSUME NEW result \in Results, RecordVerifyResult(k, result) PROVE Grading'
      <3> PICK a : a = opAlloc[k]
        OBVIOUS
      <3>1. /\ GradePassed(a) \/ GradeNotPassed(a)
            /\ opState[k] = "running"
            /\ opState' = [opState EXCEPT ![k] = result]
            /\ UNCHANGED <<currentGen, opAlloc>>
        BY <2>3 DEF RecordVerifyResult
      <3>2. a \in Allocs
        BY <3>1 DEF Grading
      <3>3. QED
        BY <3>1, <3>2, <1>GradesGrading
    <2>4. ASSUME NEW s \in Sessions, RequestEnd(k, s) PROVE Grading'
      <3>1. /\ opState' = [opState EXCEPT ![k] = "end_pending"]
            /\ \A x \in ClientOps : x # k => opAlloc'[x] = opAlloc[x]
            /\ sessState' = [sessState EXCEPT ![s] = "failed"]
            /\ sessDesired' = [sessDesired EXCEPT ![s] = "absent"]
            /\ \A x \in Allocs : x[1] # s => observed'[x] = observed[x]
            /\ UNCHANGED currentGen
        BY <2>4 DEF RequestEnd, ReservedAllocs, IInv, TypeOK
      <3>2. \A x \in ClientOps : opState'[x] = "running" =>
               opState[x] = "running" /\ opAlloc'[x] = opAlloc[x]
        BY <3>1 DEF IInv, TypeOK
      <3>3. ASSUME NEW t \in Sessions, sessState'[t] = "verifying"
            PROVE  /\ sessState[t] = "verifying"
                   /\ sessDesired'[t] = sessDesired[t]
                   /\ observed'[<<t, currentGen[t]>>] = observed[<<t, currentGen[t]>>]
        <4>1. t # s /\ sessState[t] = "verifying"
          BY <3>1, <3>3 DEF IInv, TypeOK
        <4>2. <<t, currentGen[t]>> \in Allocs /\ <<t, currentGen[t]>>[1] # s
          BY <4>1, <1>VerifyingAlloc
        <4>3. QED
          BY <3>1, <4>1, <4>2 DEF IInv, TypeOK
      <3>4. Undisturbed
        BY <3>1, <3>2, <3>3 DEF Undisturbed
      <3>5. QED
        BY <3>4, <1>UndisturbedGrading
    <2>5. CASE ReplayEnd(k)
      <3>1. Undisturbed
        BY <2>5 DEF Undisturbed, ReplayEnd, sessVars, allocVars, IInv, TypeOK
      <3>2. QED
        BY <3>1, <1>UndisturbedGrading
    <2>6. QED
      BY <2>1, <2>2, <2>3, <2>4, <2>5 DEF Client
  <1>ReserveGrading. ASSUME IInv, Grading, NEW s \in Sessions, ReserveSession(s) \/ ReserveReset(s)
                     PROVE  Grading'
    <2> USE <1>ReserveGrading
    <2>1. /\ sessState' = [sessState EXCEPT ![s] = "queued"]
          /\ UNCHANGED clientVars
          /\ \A t \in Sessions : t # s => /\ sessDesired'[t] = sessDesired[t]
                                          /\ currentGen'[t] = currentGen[t]
          /\ \A x \in Allocs : x[1] # s => observed'[x] = observed[x]
      <3>1. CASE ReserveSession(s)
        BY <3>1, SMTT(30) DEF ReserveSession, IInv, TypeOK
      <3>2. CASE ReserveReset(s)
        BY <3>2, SMTT(30) DEF ReserveReset, IInv, TypeOK
      <3>3. QED
        BY <3>1, <3>2
    <2>2. \A k \in ClientOps : opState'[k] = "running" => opState[k] = "running" /\ opAlloc'[k] = opAlloc[k]
      BY <2>1 DEF clientVars
    <2>3. ASSUME NEW t \in Sessions, sessState'[t] = "verifying"
          PROVE  /\ sessState[t] = "verifying"
                 /\ sessDesired'[t] = sessDesired[t]
                 /\ currentGen'[t] = currentGen[t]
                 /\ observed'[<<t, currentGen[t]>>] = observed[<<t, currentGen[t]>>]
      <3>1. t # s /\ sessState[t] = "verifying"
        BY <2>1, <2>3 DEF IInv, TypeOK
      <3>2. <<t, currentGen[t]>> \in Allocs /\ <<t, currentGen[t]>>[1] # s
        BY <3>1, <1>VerifyingAlloc
      <3>3. QED
        BY <2>1, <3>1, <3>2
    <2>4. Undisturbed
      BY <2>2, <2>3 DEF Undisturbed
    <2>5. QED
      BY <2>4, <1>UndisturbedGrading
  <1>ControlGrading. ASSUME IInv, Grading, Control
                     PROVE  Grading'
    <2> USE <1>ControlGrading
    <2>1. CASE Restart \/ RefuseRecovery \/ Activate
      BY <2>1, <1>QuietGrading DEF Restart, RefuseRecovery, Activate, allocVars
    <2>2. CASE PrepareRecoveryWork
      <3>1. /\ \A k \in ClientOps : opState'[k] = "running" => opState[k] = "running"
            /\ \A s \in Sessions : sessState'[s] = "verifying" => sessState[s] = "verifying"
            /\ UNCHANGED <<opAlloc, sessDesired, currentGen, observed>>
        BY <2>2 DEF PrepareRecoveryWork, RestoredState, Interrupted, allocVars
      <3>2. Undisturbed
        BY <3>1 DEF Undisturbed
      <3>3. QED
        BY <3>2, <1>UndisturbedGrading
    <2>3. QED
      BY <2>1, <2>2 DEF Control
  <1> SUFFICES ASSUME IInv, Grading, [Next]_vars
               PROVE  Grading'
    OBVIOUS
  <1>1. CASE UNCHANGED vars
    BY <1>1, <1>QuietGrading DEF vars, allocVars
  <1>2. QED
    BY <1>1, <1>CreateGrading, <1>DestroyGrading, <1>ClientGrading, <1>ReserveGrading, <1>ControlGrading
       DEF Next

\* A verification only ever runs in a running environment of an active session
\* (BeginVerify), over resets, outcomes, ends and restarts (Grading).
THEOREM VerifiesRunning == Spec => []Grading
  <1>1. Init => Grading
    BY DEF Init, Grading
  <1>2. IInv /\ Grading /\ [Next]_vars => Grading'
    BY GradingStep
  <1>3. QED
    BY <1>1, <1>2, IInvHolds, PTL DEF Spec

-----------------------------------------------------------------------------
(***************************************************************************)
(* The five things a transaction does.                                     *)
(***************************************************************************)

LEMMA PlacesAreAllocs == Promise!Places = Allocs
  BY DEF Promise!Places, Allocs, Generations

LEMMA CurrentAlloc ==
    ASSUME IInv, NEW s \in Sessions, sessDesired[s] = "active"
    PROVE  <<s, currentGen[s]>> \in Allocs
  <1>1. currentGen[s] \in 0..MaxGen /\ currentGen[s] > 0
    BY ZenonT(30) DEF IInv, TypeOK, GenerationsReserved
  <1>2. currentGen[s] \in Generations
    BY <1>1, BoundsAssumption DEF Generations
  <1>3. QED
    BY <1>2, AllocMade

\* The other environments stay, though an end may begin deleting one that was
\* given up before.
OthersStay(a) ==
    \A x \in Allocs \ {a} :
       /\ desired'[x] = desired[x]
       /\ \/ observed'[x] = observed[x]
          \/ desired[x] = "absent" /\ observed[x] # "absent" /\ observed'[x] = "deleting"

\* What a step may do that Environments does not see.
Unseen ==
    /\ UNCHANGED <<currentGen, desired, attempt>>
    /\ \A s \in Sessions : \/ sessDesired'[s] = sessDesired[s]
                           \/ sessDesired'[s] = "absent" /\ sessDesired[s] # "active"
    /\ \A a \in Allocs :
          /\ observed'[a] = "absent" <=> observed[a] = "absent"
          /\ desired[a] = "active" => (observed'[a] = "running" <=> observed[a] = "running")
          /\ createClaims[a] > 0 => createClaims'[a] > 0
          /\ observed'[a] = "running" => observed[a] = "running"
          /\ createOp'[a] = "succeeded" => createOp[a] = "succeeded" \/ createClaims[a] > 0

\* The wanted allocation is given up.
GivesUp(a, v, l) ==
    /\ desired[a] = "active"
    /\ desired'[a] = "absent"
    /\ observed'[a] = "absent" <=> l = "gone"
    /\ observed'[a] # "running"
    /\ OthersStay(a)
    /\ \A x \in Allocs : createOp'[x] = "succeeded" => createOp[x] = "succeeded"
    /\ attempt' = [attempt EXCEPT ![a] = v]
    /\ sessDesired' = [sessDesired EXCEPT ![a[1]] = "absent"]
    /\ UNCHANGED <<currentGen, createClaims>>

\* Absence of a given-up allocation is proven.
ProvesAbsence(a) ==
    /\ desired[a] = "absent"
    /\ UNCHANGED <<desired, attempt, currentGen, createClaims>>
    /\ observed' = [observed EXCEPT ![a] = "absent"]
    /\ \A x \in Allocs : createOp'[x] = "succeeded" => createOp[x] = "succeeded"
    /\ sessDesired' = [sessDesired EXCEPT ![a[1]] = IF IsCurrent(a) THEN "absent" ELSE @]

-----------------------------------------------------------------------------
(***************************************************************************)
(* The steps of Next.                                                      *)
(***************************************************************************)
Kept == Rows' /\ [Promise!Next]_(Promise!evars)

LEMMA StepKept ==
    IInv /\ Rows /\ Grading /\ [Next]_vars =>
           Kept
  \* One environment's life changes.
  <1>EnvironmentUpdate. ASSUME NEW a \in Allocs, NEW l, Life(a)' = l, OthersStay(a)
                        PROVE  environment' = [environment EXCEPT ![a] = l]
    <2> USE <1>EnvironmentUpdate
    <2>1. \A x \in Allocs \ {a} : Life(x)' = Life(x)
      BY DEF Life, Absent, OthersStay
    <2>2. QED
      BY <2>1 DEF environment
  <1>UnseenStep. ASSUME IInv, Rows, Unseen
                 PROVE  Rows' /\ UNCHANGED <<environment, attempt, currentGen>>
    <2> USE <1>UnseenStep
    <2>1. \A a \in Allocs : Life(a)' = Life(a)
      BY DEF Life, Absent, Unseen, IInv, TypeOK
    <2>2. environment' = environment
      BY <2>1 DEF environment
    <2>3. ASSUME NEW a \in Allocs
          PROVE  /\ desired'[a] = "active" => IsCurrent(a)' /\ sessDesired'[a[1]] = "active"
                 /\ attempt'[a] = "in_progress" <=> desired'[a] = "active"
                 /\ desired'[a] = "none" <=> a[2] > currentGen'[a[1]]
                 /\ observed'[a] = "running" \/ createOp'[a] = "succeeded" => createClaims'[a] > 0
      BY AllocParts, <2>3, SMTT(30) DEF Rows, Unseen, IsCurrent
    <2>4. \A s \in Sessions : sessDesired'[s] = "active" => desired'[<<s, currentGen'[s]>>] = "active"
      BY SMTT(30) DEF Rows, Unseen
    <2>5. QED
      BY <2>2, <2>3, <2>4 DEF Rows, Unseen
  <1>GivesUpStep. ASSUME IInv, Rows, NEW a \in Allocs, NEW v \in {"success", "failed", "timeout"},
                         NEW l \in {"leaving", "gone"}, GivesUp(a, v, l),
                         v = "success" => observed[a] = "running" /\ l = "leaving"
                  PROVE  Rows' /\ Promise!Finish(a, v, l)
    <2> USE <1>GivesUpStep
    <2>1. Life(a)' = l
      BY DEF GivesUp, Life, Absent
    <2>2. environment' = [environment EXCEPT ![a] = l]
      BY <2>1, <1>EnvironmentUpdate DEF GivesUp
    <2>3. environment[a] = IF observed[a] = "running" THEN "usable" ELSE "wanted"
      BY DEF environment, Life, Absent, GivesUp
    <2>4. Promise!Finish(a, v, l)
      BY <2>2, <2>3 DEF Promise!Finish, Promise!Wanted, GivesUp
    <2>5. \A x \in Allocs \ {a} : desired[x] = "active" => x[1] # a[1]
      BY AllocParts, SMTT(30) DEF Rows, GivesUp, IsCurrent
    <2>6. ASSUME NEW x \in Allocs
          PROVE  /\ desired'[x] = "active" => IsCurrent(x)' /\ sessDesired'[x[1]] = "active"
                 /\ attempt'[x] = "in_progress" <=> desired'[x] = "active"
                 /\ desired'[x] = "none" <=> x[2] > currentGen'[x[1]]
                 /\ observed'[x] = "running" \/ createOp'[x] = "succeeded" => createClaims'[x] > 0
      <3>1. CASE x = a
        BY <3>1, AllocParts, SMTT(30) DEF Rows, GivesUp, OthersStay, IInv, TypeOK, IsCurrent
      <3>2. CASE x # a
        BY <3>2, <2>5, AllocParts, SMTT(30) DEF Rows, GivesUp, OthersStay, IInv, TypeOK, IsCurrent
      <3>3. QED
        BY <3>1, <3>2
    <2>7. ASSUME NEW s \in Sessions, sessDesired'[s] = "active"
          PROVE  desired'[<<s, currentGen'[s]>>] = "active"
      <3>1. s # a[1] /\ sessDesired[s] = "active"
        BY <2>7, AllocParts DEF GivesUp, IInv, TypeOK
      <3>2. desired[<<s, currentGen[s]>>] = "active" /\ <<s, currentGen[s]>> # a
        BY <3>1, SMTT(30) DEF Rows
      <3>3. QED
        BY <3>1, <3>2, CurrentAlloc DEF GivesUp, OthersStay
    <2>8. QED
      BY <2>4, <2>6, <2>7 DEF Rows
  <1>ProvesAbsenceStep. ASSUME IInv, Rows, NEW a \in Allocs, ProvesAbsence(a), observed[a] # "absent"
                        PROVE  Rows' /\ Promise!Vanish(a)
    <2> USE <1>ProvesAbsenceStep
    <2>1. Life(a) = "leaving" /\ Life(a)' = "gone"
      BY DEF ProvesAbsence, Life, Absent, IInv, TypeOK
    <2>2. environment' = [environment EXCEPT ![a] = "gone"]
      BY <2>1, <1>EnvironmentUpdate DEF ProvesAbsence, OthersStay, IInv, TypeOK
    <2>3. Promise!Vanish(a)
      BY <2>1, <2>2 DEF Promise!Vanish, ProvesAbsence, environment
    <2>4. ASSUME NEW x \in Allocs
          PROVE  /\ desired'[x] = "active" => IsCurrent(x)' /\ sessDesired'[x[1]] = "active"
                 /\ attempt'[x] = "in_progress" <=> desired'[x] = "active"
                 /\ desired'[x] = "none" <=> x[2] > currentGen'[x[1]]
                 /\ observed'[x] = "running" \/ createOp'[x] = "succeeded" => createClaims'[x] > 0
      <3>1. desired[x] = "active" => ~(x[1] = a[1] /\ IsCurrent(a))
        BY AllocParts, SMTT(30) DEF Rows, IsCurrent, ProvesAbsence
      <3>2. QED
        BY <3>1, AllocParts, SMTT(30) DEF Rows, ProvesAbsence, IInv, TypeOK, IsCurrent
    <2>5. ASSUME NEW s \in Sessions, sessDesired'[s] = "active"
          PROVE  desired'[<<s, currentGen'[s]>>] = "active"
      BY <2>5, AllocParts, SMTT(30) DEF Rows, ProvesAbsence, IInv, TypeOK
    <2>6. QED
      BY <2>3, <2>4, <2>5 DEF Rows
  <1>ReserveSessionOpens. ASSUME IInv, Rows, NEW s \in Sessions, ReserveSession(s)
                          PROVE  Rows' /\ Promise!Open(s)
    <2> USE <1>ReserveSessionOpens
    <2> DEFINE a == <<s, 1>>
    <2>1. a \in Allocs /\ a[1] = s /\ a[2] = 1
      BY AllocMade, BoundsAssumption DEF Generations
    <2>2. currentGen[s] = 0
      BY DEF IInv, GenerationsReserved, ReserveSession
    <2>3. /\ NoActiveSession(Owner[s])
          /\ sessDesired' = [sessDesired EXCEPT ![s] = "active"]
          /\ currentGen' = [currentGen EXCEPT ![s] = 1]
          /\ desired' = [desired EXCEPT ![a] = "active"]
          /\ observed' = [observed EXCEPT ![a] = "unknown"]
          /\ attempt' = [attempt EXCEPT ![a] = "in_progress"]
          /\ createOp' = [createOp EXCEPT ![a] = "pending"]
          /\ createClaims' = createClaims
      BY DEF ReserveSession
    <2> HIDE DEF a
    <2>4. environment' = [environment EXCEPT ![a] = "wanted"]
      <3>1. Life(a)' = "wanted"
        BY <2>1, <2>3 DEF Life, Absent, IInv, TypeOK
      <3>2. QED
        BY <2>1, <2>3, <3>1, <1>EnvironmentUpdate DEF OthersStay, IInv, TypeOK
    <2>5. ASSUME NEW x \in Allocs, Owner[x[1]] = Owner[s]
          PROVE  environment[x] \notin {"wanted", "usable"}
      <3>1. desired[x] # "active"
        BY <2>3, <2>5 DEF NoActiveSession, Rows
      <3>2. desired[x] \in {"none", "absent"}
        BY <3>1 DEF IInv, TypeOK
      <3>3. QED
        BY <3>2 DEF environment, Life, Absent
    <2>6. Promise!Open(s)
      BY <2>2, <2>3, <2>4, <2>5, PlacesAreAllocs DEF Promise!Open, Promise!Wanted, a
    <2>7. ASSUME NEW x \in Allocs
          PROVE  /\ desired'[x] = "active" => IsCurrent(x)' /\ sessDesired'[x[1]] = "active"
                 /\ attempt'[x] = "in_progress" <=> desired'[x] = "active"
                 /\ desired'[x] = "none" <=> x[2] > currentGen'[x[1]]
                 /\ observed'[x] = "running" \/ createOp'[x] = "succeeded" => createClaims'[x] > 0
      <3>1. CASE x = a
        BY <2>1, <2>3, <3>1, SMTT(30) DEF Rows, IsCurrent, IInv, TypeOK
      <3>2. CASE x # a
        <4>1. x[1] = s => x[2] > 1 /\ desired[x] = "none"
          BY <2>2, <3>2, AllocParts, SMTT(30) DEF Rows, a
        <4>2. QED
          BY <2>1, <2>3, <3>2, <4>1, AllocParts, SMTT(30) DEF Rows, IsCurrent, IInv, TypeOK
      <3>3. QED
        BY <3>1, <3>2
    <2>8. ASSUME NEW t \in Sessions, sessDesired'[t] = "active"
          PROVE  desired'[<<t, currentGen'[t]>>] = "active"
      <3>1. CASE t = s
        BY <2>1, <2>3, <3>1 DEF IInv, TypeOK, a
      <3>2. CASE t # s
        BY <2>1, <2>3, <2>8, <3>2, CurrentAlloc, SMTT(30) DEF Rows, IInv, TypeOK, a
      <3>3. QED
        BY <3>1, <3>2
    <2>9. QED
      BY <2>6, <2>7, <2>8 DEF Rows
  <1>ReserveResetReplaces. ASSUME IInv, Rows, NEW s \in Sessions, ReserveReset(s)
                           PROVE  Rows' /\ Promise!Replace(s)
    <2> USE <1>ReserveResetReplaces
    <2> PICK g : g = currentGen[s]
      OBVIOUS
    <2> DEFINE a == <<s, g>>
               b == <<s, g + 1>>
    <2>1. /\ currentGen[s] \in 1..(MaxGen - 1)
          /\ Gradable(a)
          /\ currentGen' = [currentGen EXCEPT ![s] = @ + 1]
          /\ desired' = [desired EXCEPT ![a] = "absent", ![b] = "active"]
          /\ observed' = [observed EXCEPT ![a] = Deleting(@), ![b] = "unknown"]
          /\ attempt' = [attempt EXCEPT ![a] = "failed", ![b] = "in_progress"]
          /\ createOp' = [createOp EXCEPT ![b] = "pending"]
          /\ UNCHANGED <<sessDesired, createClaims>>
      BY DEF ReserveReset
    <2>2. /\ a \in Allocs /\ b \in Allocs /\ a # b
          /\ a[1] = s /\ a[2] = currentGen[s]
          /\ b[1] = s /\ b[2] = currentGen[s] + 1
          /\ currentGen[s] \in Nat
      BY <2>1, AllocMade, BoundsAssumption DEF Generations
    <2>3. /\ desired[a] = "active" /\ observed[a] = "running" /\ sessDesired[a[1]] = "active"
          /\ desired[b] = "none"
      <3>1. desired[a] = "active" /\ observed[a] = "running" /\ sessDesired[a[1]] = "active"
        BY <2>1 DEF Gradable, Serviceable
      <3>2. b[2] > currentGen[b[1]]
        BY <2>2
      <3> HIDE DEF a, b
      <3>3. QED
        BY <2>2, <3>1, <3>2 DEF Rows
    <2> HIDE DEF a, b
    <2>4. environment' = [environment EXCEPT ![a] = "leaving", ![b] = "wanted"]
      <3>1. \A x \in Allocs \ {a, b} : Life(x)' = Life(x)
        BY <2>1, <2>2 DEF Life, Absent, IInv, TypeOK
      <3>2. /\ desired'[a] = "absent" /\ observed'[a] = "deleting"
            /\ desired'[b] = "active" /\ observed'[b] = "unknown"
        BY <2>1, <2>2, <2>3 DEF Deleting, IInv, TypeOK
      <3>3. Life(a)' = "leaving" /\ Life(b)' = "wanted"
        BY <3>2 DEF Life, Absent
      <3>4. environment' = [x \in Allocs |-> IF x = a THEN "leaving" ELSE
                              IF x = b THEN "wanted" ELSE environment[x]]
        BY <2>2, <3>1, <3>3 DEF environment
      <3>5. environment = [x \in Allocs |-> environment[x]]
        BY DEF environment
      <3>6. QED
        BY <2>2, <3>4, <3>5
    <2>5. environment[a] = "usable"
      BY <2>2, <2>3 DEF environment, Life, Absent
    <2>6. Promise!Replace(s)
      BY <2>1, <2>4, <2>5 DEF Promise!Replace, a, b
    <2>7. ASSUME NEW x \in Allocs
          PROVE  /\ desired'[x] = "active" => IsCurrent(x)' /\ sessDesired'[x[1]] = "active"
                 /\ attempt'[x] = "in_progress" <=> desired'[x] = "active"
                 /\ desired'[x] = "none" <=> x[2] > currentGen'[x[1]]
                 /\ observed'[x] = "running" \/ createOp'[x] = "succeeded" => createClaims'[x] > 0
      <3>1. CASE x = a
        BY <2>1, <2>2, <2>3, <3>1, SMTT(30) DEF Rows, IsCurrent, IInv, TypeOK, Deleting
      <3>2. CASE x = b
        BY <2>1, <2>2, <2>3, <3>2, SMTT(30) DEF Rows, IsCurrent, IInv, TypeOK
      <3>3. CASE x # a /\ x # b
        <4>1. x[1] = s => x[2] # currentGen[s] /\ x[2] # currentGen[s] + 1
          BY <3>3, AllocParts DEF a, b
        <4>2. QED
          BY <2>1, <2>2, <3>3, <4>1, AllocParts, SMTT(30) DEF Rows, IsCurrent, IInv, TypeOK
      <3>4. QED
        BY <3>1, <3>2, <3>3
    <2>8. ASSUME NEW t \in Sessions, sessDesired'[t] = "active"
          PROVE  desired'[<<t, currentGen'[t]>>] = "active"
      <3>1. CASE t = s
        BY <2>1, <2>2, <3>1 DEF IInv, TypeOK, b
      <3>2. CASE t # s
        BY <2>1, <2>2, <2>8, <3>2, CurrentAlloc, SMTT(30) DEF Rows, IInv, TypeOK, a, b
      <3>3. QED
        BY <3>1, <3>2
    <2>9. QED
      BY <2>6, <2>7, <2>8 DEF Rows
  <1>UnseenKept. ASSUME IInv, Rows, Unseen
                 PROVE  Kept
    BY <1>UnseenKept, <1>UnseenStep DEF Kept, Promise!evars
  <1>GivesUpKept. ASSUME IInv, Rows, NEW a \in Allocs, NEW v \in {"success", "failed", "timeout"},
                         NEW l \in {"leaving", "gone"}, GivesUp(a, v, l),
                         v = "success" => observed[a] = "running" /\ l = "leaving"
                  PROVE  Kept
    BY <1>GivesUpKept, <1>GivesUpStep, PlacesAreAllocs DEF Kept, Promise!Next
  \* A ready environment was claimed, and so everything older is absent.
  <1>MarkReadyKept. ASSUME IInv, Rows, NEW a \in Allocs, MarkReady(a)
                    PROVE  Kept
    <2> USE <1>MarkReadyKept
    <2>1. /\ desired[a] = "active" /\ createOp[a] = "succeeded"
          /\ observed' = [observed EXCEPT ![a] = "running"]
          /\ UNCHANGED <<sessDesired, currentGen, desired, attempt, createVars>>
      BY DEF MarkReady, Serviceable
    <2>2. CASE observed[a] = "running"
      <3>1. Unseen
        BY <2>1, <2>2 DEF Unseen, createVars, IInv, TypeOK
      <3>2. QED
        BY <3>1, <1>UnseenKept
    <2>3. CASE observed[a] # "running"
      <3>1. createClaims[a] > 0
        BY <2>1 DEF Rows
      <3>2. environment[a] = "wanted" /\ Life(a)' = "usable"
        BY <2>1, <2>3 DEF environment, Life, Absent, IInv, TypeOK
      <3>3. environment' = [environment EXCEPT ![a] = "usable"]
        BY <2>1, <3>2, <1>EnvironmentUpdate DEF OthersStay, IInv, TypeOK
      <3>4. ASSUME NEW g \in 1..(a[2] - 1) PROVE environment[<<a[1], g>>] = "gone"
        <4>1. <<a[1], g>> \in Allocs
          BY AllocParts, AllocMade, BoundsAssumption, SMTT(30) DEF Generations
        <4>2. observed[<<a[1], g>>] = "absent"
          BY <3>1 DEF IInv, OneProvisionedGeneration
        <4>3. Absent(<<a[1], g>>)
          BY <4>1, <4>2 DEF IInv, CleanupNeverLost
        <4>4. QED
          BY <4>1, <4>3 DEF environment, Life, Absent
      <3>5. Promise!Provide(a)
        BY <2>1, <3>2, <3>3, <3>4 DEF Promise!Provide
      <3>6. Rows'
        BY <2>1, <3>1, SMTT(30) DEF Rows, IsCurrent, createVars, IInv, TypeOK
      <3>7. QED
        BY <3>5, <3>6, PlacesAreAllocs DEF Kept, Promise!Next
    <2>4. QED
      BY <2>2, <2>3
  <1>CreateKept. ASSUME IInv, Rows, NEW a \in Allocs, Create(a)
                 PROVE  Kept
    <2> USE <1>CreateKept
    <2>1. CASE ClaimProvisionableCreate(a)
      <3>1. Unseen
        BY <2>1, SMTT(30) DEF Unseen, ClaimProvisionableCreate, sessVars, allocVars, IInv, TypeOK
      <3>2. QED
        BY <3>1, <1>UnseenKept
    <2>2. ASSUME NEW token \in 1..createClaims[a], MarkClaimedCreateSucceeded(a, token)
          PROVE  Kept
      <3>1. createClaims[a] > 0
        BY DEF IInv, TypeOK
      <3>2. Unseen
        BY <2>2, <3>1, SMTT(30) DEF Unseen, MarkClaimedCreateSucceeded, IInv, TypeOK
      <3>3. QED
        BY <3>2, <1>UnseenKept
    <2>3. ASSUME NEW token, MarkClaimedCreateFailed(a, token) PROVE Kept
      <3>1. desired[a] = "active"
        BY <2>3 DEF MarkClaimedCreateFailed, Serviceable
      <3>2. attempt[a] = "in_progress"
        BY <3>1 DEF Rows
      <3>3. GivesUp(a, "failed", "leaving")
        BY <2>3, <3>1, <3>2 DEF GivesUp, OthersStay, MarkClaimedCreateFailed, IInv, TypeOK
      <3>4. QED
        BY <3>3, <1>GivesUpKept
    <2>4. CASE CreateLeaseExpires(a)
      <3>1. Unseen
        BY <2>4 DEF Unseen, CreateLeaseExpires, sessVars, allocVars
      <3>2. QED
        BY <3>1, <1>UnseenKept
    <2>5. CASE MarkSettingUp(a)
      <3>1. Unseen
        BY <2>5 DEF Unseen, MarkSettingUp, allocVars, createVars
      <3>2. QED
        BY <3>1, <1>UnseenKept
    <2>6. CASE MarkReady(a)
      BY <2>6, <1>MarkReadyKept
    <2>7. QED
      BY <2>1, <2>2, <2>3, <2>4, <2>5, <2>6 DEF Create
  \* A first outcome gives the wanted allocation up; a later one changes nothing.
  <1>RequestDestroyKept. ASSUME IInv, Rows, NEW a \in Allocs, NEW o \in DestroyOutcomes, RequestDestroy(a, o)
                         PROVE  Kept
    <2> USE <1>RequestDestroyKept
    <2>1. /\ desired[a] # "none"
          /\ OutcomeAcceptable(a, o)
          /\ attempt' = [attempt EXCEPT ![a] = IF IsCurrent(a) THEN AttemptStatus(o) ELSE @]
          /\ sessDesired' = [sessDesired EXCEPT ![a[1]] =
                                IF IsCurrent(a) /\ outcome[a] = "none" THEN "absent" ELSE @]
          /\ desired' = [desired EXCEPT ![a] = "absent"]
          /\ observed' = [observed EXCEPT ![a] =
                            IF desired[a] = "absent" THEN @ ELSE Deleting(@)]
          /\ UNCHANGED <<currentGen, createVars>>
      BY DEF RequestDestroy
    <2>2. AttemptStatus(o) \in {"failed", "timeout"}
      BY DEF AttemptStatus
    <2>3. CASE desired[a] = "active"
      <3>1. IsCurrent(a) /\ sessDesired[a[1]] = "active" /\ observed[a] # "absent"
        BY <2>3 DEF Rows, IInv, CleanupNeverLost, Absent
      <3>2. outcome[a] = "none"
        BY <2>1, <3>1 DEF OutcomeAcceptable
      <3>3. GivesUp(a, AttemptStatus(o), "leaving")
        BY <2>1, <2>3, <3>1, <3>2 DEF GivesUp, OthersStay, Deleting, IInv, TypeOK, createVars
      <3>4. QED
        BY <2>2, <3>3, <1>GivesUpKept
    <2>4. CASE desired[a] = "absent"
      <3>1. attempt[a] # "in_progress"
        BY <2>4 DEF Rows
      <3>2. attempt' = attempt
        BY <2>1, <3>1 DEF OutcomeAcceptable, IInv, TypeOK
      <3>3. IsCurrent(a) => sessDesired[a[1]] # "active"
        <4>1. a = <<a[1], a[2]>> /\ a[1] \in Sessions
          BY AllocParts
        <4>2. QED
          BY <2>4, <4>1 DEF Rows, IsCurrent
      <3>4. Unseen
        BY <2>1, <2>4, <3>2, <3>3, AllocParts, SMTT(30) DEF Unseen, IInv, TypeOK, createVars
      <3>5. QED
        BY <3>4, <1>UnseenKept
    <2>5. QED
      BY <2>1, <2>3, <2>4 DEF IInv, TypeOK
  \* A lease that is held is on a destroy that is unfinished.
  <1>MarkDestroyedKept. ASSUME IInv, Rows, NEW a \in Allocs, NEW token, MarkClaimedDestroyed(a, token)
                        PROVE  Kept
    <2> USE <1>MarkDestroyedKept
    <2>1. desired[a] = "absent" /\ destroyOp[a] = "running"
      BY DEF MarkClaimedDestroyed, HoldsLease
    <2>2. observed[a] # "absent"
      BY <2>1 DEF IInv, CleanupNeverLost, Unfinished
    <2>3. ProvesAbsence(a)
      BY <2>1 DEF ProvesAbsence, MarkClaimedDestroyed, TerminalizedCreate, IInv, TypeOK
    <2>4. QED
      BY <2>2, <2>3, <1>ProvesAbsenceStep, PlacesAreAllocs DEF Kept, Promise!Next
  <1>ConvergeKept. ASSUME IInv, Rows, NEW a \in Allocs, ConvergeLocalRestart(a)
                   PROVE  Kept
    <2> USE <1>ConvergeKept
    <2>1. /\ a \in recoverySet
          /\ desired' = [desired EXCEPT ![a] = "absent"]
          /\ observed' = [observed EXCEPT ![a] = "absent"]
          /\ sessDesired' = [sessDesired EXCEPT ![a[1]] = IF IsCurrent(a) THEN "absent" ELSE @]
          /\ attempt' = [attempt EXCEPT ![a] =
                           IF IsCurrent(a) /\ attempt[a] = "in_progress" THEN "failed" ELSE @]
          /\ createOp' = [createOp EXCEPT ![a] = TerminalizedCreate(@)]
          /\ UNCHANGED <<currentGen, createClaims>>
      BY DEF ConvergeLocalRestart, ConvergeNext
    <2>2. \A x \in Allocs : createOp'[x] = "succeeded" => createOp[x] = "succeeded"
      BY <2>1 DEF TerminalizedCreate, IInv, TypeOK
    <2>3. desired[a] \in {"active", "absent"}
      BY <2>1 DEF IInv, TypeOK, GenerationsReserved
    <2>4. CASE desired[a] = "active"
      <3>1. IsCurrent(a) /\ attempt[a] = "in_progress"
        BY <2>4 DEF Rows
      <3>2. GivesUp(a, "failed", "gone")
        BY <2>1, <2>2, <2>4, <3>1 DEF GivesUp, OthersStay, IInv, TypeOK
      <3>3. QED
        BY <3>2, <1>GivesUpKept
    <2>5. CASE desired[a] = "absent"
      <3>1. attempt' = attempt /\ desired' = desired
        BY <2>1, <2>5, SMTT(30) DEF Rows, IInv, TypeOK
      <3>2. ProvesAbsence(a)
        BY <2>1, <2>2, <2>5, <3>1 DEF ProvesAbsence
      <3>3. CASE observed[a] # "absent"
        BY <3>2, <3>3, <1>ProvesAbsenceStep, PlacesAreAllocs DEF Kept, Promise!Next
      <3>4. CASE observed[a] = "absent"
        <4>1. observed' = observed
          BY <2>1, <3>4 DEF IInv, TypeOK
        <4>2. IsCurrent(a) => sessDesired[a[1]] # "active"
          <5>1. a = <<a[1], a[2]>> /\ a[1] \in Sessions
            BY AllocParts
          <5>2. QED
            BY <2>5, <5>1, ZenonT(30) DEF Rows, IsCurrent
        <4>3. Unseen
          BY <2>1, <2>2, <3>1, <4>1, <4>2, AllocParts, SMTT(30) DEF Unseen, IInv, TypeOK
        <4>4. QED
          BY <4>3, <1>UnseenKept
      <3>5. QED
        BY <3>3, <3>4
    <2>6. QED
      BY <2>3, <2>4, <2>5
  <1>DestroyKept. ASSUME IInv, Rows, NEW a \in Allocs, Destroy(a)
                  PROVE  Kept
    <2> USE <1>DestroyKept
    <2>1. ASSUME NEW token, ClaimDestroyWork(a) \/ RetryDestroyWork(a, token) \/ DestroyLeaseExpires(a)
          PROVE  Kept
      <3>1. UNCHANGED <<sessVars, allocVars, createVars>>
        BY <2>1 DEF ClaimDestroyWork, RetryDestroyWork, DestroyLeaseExpires
      <3>2. Unseen
        BY <3>1 DEF Unseen, sessVars, allocVars, createVars
      <3>3. QED
        BY <3>2, <1>UnseenKept
    <2>2. QED
      BY <2>1, <1>RequestDestroyKept, <1>MarkDestroyedKept, <1>ConvergeKept DEF Destroy
  <1>GradeKept. ASSUME IInv, Rows, NEW a \in Allocs, GradePassed(a) \/ GradeNotPassed(a),
                       IsCurrent(a), sessDesired[a[1]] = "active", observed[a] = "running",
                       UNCHANGED <<currentGen, createVars>>
                PROVE  Kept
    <2> USE <1>GradeKept
    <2>1. CASE GradeNotPassed(a)
      <3>1. Unseen
        BY <2>1 DEF Unseen, GradeNotPassed, createVars
      <3>2. QED
        BY <3>1, <1>UnseenKept
    <2>2. CASE GradePassed(a)
      <3>1. desired[a] = "active" /\ attempt[a] = "in_progress"
        <4>1. a = <<a[1], a[2]>> /\ a[1] \in Sessions
          BY AllocParts
        <4>2. QED
          BY <4>1, SMTT(30) DEF Rows, IsCurrent
      <3>2. GivesUp(a, "success", "leaving")
        BY <2>2, <3>1 DEF GivesUp, OthersStay, GradePassed, Deleting, IInv, TypeOK, createVars
      <3>3. QED
        BY <3>2, <1>GivesUpKept
    <2>3. QED
      BY <2>1, <2>2
  <1>RequestEndKept. ASSUME IInv, Rows, NEW k, NEW s \in Sessions, RequestEnd(k, s)
                     PROVE  Kept
    <2> USE <1>RequestEndKept
    <2> PICK a : a = <<s, currentGen[s]>>
      OBVIOUS
    <2>1. /\ sessDesired[s] = "active"
          /\ attempt' = [attempt EXCEPT ![a] = IF @ = "in_progress" THEN "failed" ELSE @]
          /\ sessDesired' = [sessDesired EXCEPT ![s] = "absent"]
          /\ desired' = [x \in Allocs |-> IF x \in ReservedAllocs(s) THEN "absent" ELSE desired[x]]
          /\ observed' = [x \in Allocs |->
                IF x \in ReservedAllocs(s) THEN Deleting(observed[x]) ELSE observed[x]]
          /\ UNCHANGED <<currentGen, createVars>>
      BY DEF RequestEnd
    <2>2. a \in Allocs /\ a[1] = s /\ a[2] = currentGen[s]
      BY <2>1, CurrentAlloc
    <2>3. desired[a] = "active" /\ attempt[a] = "in_progress"
      BY <2>1, <2>2 DEF Rows
    <2>4. a \in ReservedAllocs(s)
      BY <2>2, AllocParts, SMTT(30) DEF ReservedAllocs
    <2>5. observed[a] # "absent"
      BY <2>2, <2>3 DEF IInv, CleanupNeverLost, Absent
    <2>6. ASSUME NEW x \in Allocs \ {a}, x \in ReservedAllocs(s) PROVE desired[x] = "absent"
      <3>1. x[1] = s /\ x[2] \in 1..currentGen[s] /\ x = <<x[1], x[2]>>
        BY <2>6, AllocParts DEF ReservedAllocs
      <3>2. x[2] # currentGen[s] /\ ~(x[2] > currentGen[s])
        BY <3>1, SMTT(30) DEF IInv, TypeOK
      <3>3. QED
        BY <3>1, <3>2, SMTT(30) DEF Rows, IsCurrent, IInv, TypeOK
    <2>7. GivesUp(a, "failed", "leaving")
      BY <2>1, <2>2, <2>3, <2>4, <2>5, <2>6 DEF GivesUp, OthersStay, Deleting, IInv, TypeOK,
         createVars
    <2>8. QED
      BY <2>2, <2>7, <1>GivesUpKept
  <1>ClientKept. ASSUME IInv, Rows, Grading, NEW k \in ClientOps, Client(k)
                 PROVE  Kept
    <2> USE <1>ClientKept
    <2>1. ASSUME NEW a \in Allocs, BeginVerify(k, a) PROVE Kept
      <3>1. Unseen
        BY <2>1 DEF Unseen, BeginVerify, allocVars, createVars
      <3>2. QED
        BY <3>1, <1>UnseenKept
    <2>2. ASSUME NEW a \in Allocs, NEW result, RecordChoice(k, a, result) PROVE Kept
      <3>1. /\ GradePassed(a) \/ GradeNotPassed(a)
            /\ IsCurrent(a) /\ sessDesired[a[1]] = "active" /\ observed[a] = "running"
            /\ UNCHANGED <<currentGen, createVars>>
        BY <2>2 DEF RecordChoice, Gradable, Serviceable
      <3>2. QED
        BY <3>1, <1>GradeKept
    <2>3. ASSUME NEW result, RecordVerifyResult(k, result) PROVE Kept
      <3> PICK a : a = opAlloc[k]
        OBVIOUS
      <3>1. /\ GradePassed(a) \/ GradeNotPassed(a)
            /\ opState[k] = "running" /\ IsCurrent(a)
            /\ sessState[a[1]] = "verifying" /\ sessDesired[a[1]] = "active"
            /\ UNCHANGED <<currentGen, createVars>>
        BY <2>3 DEF RecordVerifyResult
      <3>2. a \in Allocs
        BY <3>1 DEF Grading
      <3>3. a = <<a[1], currentGen[a[1]]>> /\ a[1] \in Sessions
        BY <3>1, <3>2, AllocParts DEF IsCurrent
      <3>4. observed[a] = "running"
        BY <3>1, <3>3 DEF Grading
      <3>5. QED
        BY <3>1, <3>2, <3>4, <1>GradeKept
    <2>4. CASE ReplayEnd(k)
      <3>1. Unseen
        BY <2>4 DEF Unseen, ReplayEnd, sessVars, allocVars, createVars
      <3>2. QED
        BY <3>1, <1>UnseenKept
    <2>5. QED
      BY <2>1, <2>2, <2>3, <2>4, <1>RequestEndKept DEF Client
  <1>ControlKept. ASSUME IInv, Rows, Control
                  PROVE  Kept
    <2> USE <1>ControlKept
    <2>1. Unseen
      BY DEF Control, Restart, PrepareRecoveryWork, RefuseRecovery, Activate, Unseen,
         sessVars, allocVars, createVars
    <2>2. QED
      BY <2>1, <1>UnseenKept
  <1> SUFFICES ASSUME IInv, Rows, Grading, [Next]_vars
               PROVE  Kept
    OBVIOUS
  <1>1. CASE UNCHANGED vars
    <2>1. Unseen
      BY <1>1 DEF Unseen, vars, sessVars, allocVars, createVars
    <2>2. QED
      BY <2>1, <1>UnseenKept
  <1>2. ASSUME NEW s \in Sessions, ReserveSession(s) PROVE Kept
    BY <1>2, <1>ReserveSessionOpens DEF Kept, Promise!Next
  <1>3. ASSUME NEW s \in Sessions, ReserveReset(s) PROVE Kept
    BY <1>3, <1>ReserveResetReplaces DEF Kept, Promise!Next
  <1>4. QED
    BY <1>1, <1>2, <1>3, <1>CreateKept, <1>DestroyKept, <1>ClientKept, <1>ControlKept DEF Next

LEMMA InitKept == Init => Rows /\ Promise!Init
  <1> SUFFICES ASSUME Init PROVE Rows /\ Promise!Init
    OBVIOUS
  <1>1. Rows
    BY AllocParts DEF Init, Rows
  <1>2. \A a \in Allocs : Life(a) = "none"
    BY DEF Init, Life, Absent
  <1>3. Promise!Init
    BY <1>2, PlacesAreAllocs DEF Init, Promise!Init, environment
  <1>4. QED
    BY <1>1, <1>3

\* The store implements the environments it promises, for every set of users,
\* sessions and keys, and over any number of resets, failures and restarts.
THEOREM StoreKeepsPromise == Spec => KeepsPromise
  <1>1. IInv /\ Rows /\ Grading /\ [Next]_vars => Rows' /\ [Promise!Next]_(Promise!evars)
    BY StepKept DEF Kept
  <1>2. QED
    BY <1>1, InitKept, IInvHolds, VerifiesRunning, PTL DEF Spec, KeepsPromise, Promise!Spec

=============================================================================
