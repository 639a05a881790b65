------------------------ MODULE RunnerStoreOutcomes -------------------------
(***************************************************************************)
(* What the rows of sessions, attempts and client operations say about one *)
(* another, for every value of the constants.                              *)
(***************************************************************************)
EXTENDS RunnerStoreProofs

\* The provers for the leaves that name none, and their time limits.
USE ZenonT(4), SMTT(30)

\* The three invariants of the earlier modules, in one.
Base == IInv /\ Rows /\ Grading

LEMMA BaseHolds == Spec => []Base
  <1>1. Init => Rows
    BY InitKept
  <1>2. IInv /\ Rows /\ Grading /\ [Next]_vars => Rows'
    BY StepKept DEF Kept
  <1>3. QED
    BY <1>1, <1>2, IInvHolds, VerifiesRunning, PTL DEF Spec, Base

-----------------------------------------------------------------------------
(***************************************************************************)
(* What a step may do to a session and to a client operation.              *)
(***************************************************************************)

\* A session that is over stays over, and has no further generation.
SessionStep(s) ==
    /\ currentGen'[s] >= currentGen[s]
    /\ sessDesired[s] = "absent" =>
          sessDesired'[s] = "absent" /\ currentGen'[s] = currentGen[s]

\* A client operation is stored once, for the current allocation of an active
\* session, and moves on from there.
OperationStep(k) ==
    \/ opState'[k] = opState[k] /\ opAlloc'[k] = opAlloc[k]
    \/ /\ opState[k] = "none" /\ opState'[k] # "end_succeeded"
       /\ opAlloc'[k] \in Allocs /\ IsCurrent(opAlloc'[k])
       /\ currentGen' = currentGen
       /\ opState'[k] = "end_pending" => sessDesired'[opAlloc'[k][1]] = "absent"
    \/ opState[k] = "running" /\ opState'[k] \in Results /\ opAlloc'[k] = opAlloc[k]
    \/ opState[k] = "end_pending" /\ opState'[k] = "end_failed" /\ opAlloc'[k] = opAlloc[k]
    \/ /\ opState[k] = "end_pending" /\ opState'[k] = "end_succeeded" /\ opAlloc'[k] = opAlloc[k]
       /\ EndComplete(opAlloc[k][1])
       /\ UNCHANGED <<sessDesired, currentGen, observed>>

LEMMA Steps ==
    Base /\ [Next]_vars =>
           /\ \A t \in Sessions : SessionStep(t)
           /\ \A k \in ClientOps : OperationStep(k)
  <1>ReserveSteps. ASSUME Base, NEW s \in Sessions, ReserveSession(s) \/ ReserveReset(s)
                   PROVE  /\ \A t \in Sessions : SessionStep(t)
                          /\ \A k \in ClientOps : OperationStep(k)
    <2> USE <1>ReserveSteps
    <2>1. UNCHANGED clientVars
      BY DEF ReserveSession, ReserveReset
    <2>2. \A t \in Sessions \ {s} : sessDesired'[t] = sessDesired[t] /\ currentGen'[t] = currentGen[t]
      BY DEF ReserveSession, ReserveReset, Base, IInv, TypeOK
    <2>3. currentGen'[s] >= currentGen[s] /\ sessDesired[s] # "absent"
      <3>1. CASE ReserveSession(s)
        <4>1. currentGen[s] = 0 /\ currentGen'[s] = 1
          BY <3>1 DEF ReserveSession, Base, IInv, TypeOK, GenerationsReserved
        <4>2. QED
          BY <4>1, SMTT(30) DEF Base, IInv, GenerationsReserved
      <3>2. CASE ReserveReset(s)
        BY <3>2, SMTT(30) DEF ReserveReset, Gradable, Serviceable, Base, IInv, TypeOK
      <3>3. QED
        BY <3>1, <3>2
    <2>4. QED
      <3>1. \A t \in Sessions : currentGen[t] \in Nat
        BY SMTT(30) DEF Base, IInv, TypeOK
      <3>2. \A t \in Sessions : SessionStep(t)
        BY <2>2, <2>3, <3>1 DEF SessionStep
      <3>3. QED
        BY <2>1, <3>2 DEF OperationStep, clientVars
  <1>CreateSteps. ASSUME Base, NEW a \in Allocs, Create(a)
                  PROVE  /\ \A t \in Sessions : SessionStep(t)
                         /\ \A k \in ClientOps : OperationStep(k)
    <2> USE <1>CreateSteps
    <2>1. /\ UNCHANGED <<currentGen, clientVars>>
          /\ sessDesired' = sessDesired \/ sessDesired' = [sessDesired EXCEPT ![a[1]] = "absent"]
      BY DEF Create, ClaimProvisionableCreate, MarkClaimedCreateSucceeded,
         MarkClaimedCreateFailed, CreateLeaseExpires, MarkSettingUp, MarkReady, sessVars
    <2>2. QED
      BY <2>1, SMTT(30) DEF SessionStep, OperationStep, clientVars, Base, IInv, TypeOK
  <1>DestroySteps. ASSUME Base, NEW a \in Allocs, Destroy(a)
                   PROVE  /\ \A t \in Sessions : SessionStep(t)
                          /\ \A k \in ClientOps : OperationStep(k)
    <2> USE <1>DestroySteps
    <2>1. /\ UNCHANGED <<currentGen, opAlloc>>
          /\ UNCHANGED opState \/ opState' = [k \in ClientOps |-> SweptClient(k, a)]
      BY DEF Destroy, RequestDestroy, ClaimDestroyWork, RetryDestroyWork, MarkClaimedDestroyed,
         DestroyLeaseExpires, ConvergeLocalRestart, sessVars, clientVars
    <2>2. \/ sessDesired' = sessDesired
          \/ \E b \in BOOLEAN :
                sessDesired' = [sessDesired EXCEPT ![a[1]] = IF b THEN "absent" ELSE @]
      BY DEF Destroy, RequestDestroy, ClaimDestroyWork, RetryDestroyWork, MarkClaimedDestroyed,
         DestroyLeaseExpires, ConvergeLocalRestart, sessVars
    <2>3. \A k \in ClientOps : OperationStep(k)
      BY <2>1 DEF OperationStep, SweptClient
    <2>4. \A t \in Sessions : SessionStep(t)
      BY <2>1, <2>2, SMTT(30) DEF SessionStep, Base, IInv, TypeOK
    <2>5. QED
      BY <2>3, <2>4
  <1>BeginStep. ASSUME Base, NEW k \in ClientOps, NEW a \in Allocs, NEW result,
                       BeginVerify(k, a) \/ RecordChoice(k, a, result), result # "end_succeeded",
                       result # "end_pending"
                PROVE  OperationStep(k)
    <2> USE <1>BeginStep
    <2>1. /\ opState[k] = "none" /\ IsCurrent(a) /\ currentGen' = currentGen
          /\ opAlloc' = [opAlloc EXCEPT ![k] = a]
          /\ opState' = [opState EXCEPT ![k] = "running"] \/ opState' = [opState EXCEPT ![k] = result]
      BY DEF BeginVerify, RecordChoice, FreshKey, Gradable, Serviceable
    <2>2. opAlloc'[k] = a /\ opState'[k] \in {"running", result}
      BY <2>1 DEF Base, IInv, TypeOK
    <2>3. QED
      BY <2>1, <2>2 DEF OperationStep
  <1>RecordVerifyStep. ASSUME Base, NEW k \in ClientOps, NEW result \in Results, RecordVerifyResult(k, result)
                       PROVE  OperationStep(k)
    <2> USE <1>RecordVerifyStep
    <2>1. /\ opState[k] = "running" /\ opAlloc' = opAlloc
          /\ opState' = [opState EXCEPT ![k] = result]
      BY DEF RecordVerifyResult
    <2>2. opState'[k] = result
      BY <2>1 DEF Base, IInv, TypeOK
    <2>3. QED
      BY <2>1, <2>2 DEF OperationStep
  <1>EndSteps. ASSUME Base, NEW k \in ClientOps, ReplayEnd(k) \/ \E s \in Sessions : RequestEnd(k, s)
               PROVE  OperationStep(k)
    <2> USE <1>EndSteps
    <2>1. ASSUME NEW s \in Sessions, RequestEnd(k, s) PROVE OperationStep(k)
      <3> PICK a : a = <<s, currentGen[s]>>
        OBVIOUS
      <3>1. /\ opState[k] = "none" /\ sessDesired[s] = "active" /\ currentGen' = currentGen
            /\ opAlloc' = [opAlloc EXCEPT ![k] = a]
            /\ opState' = [opState EXCEPT ![k] = "end_pending"]
            /\ sessDesired' = [sessDesired EXCEPT ![s] = "absent"]
        BY <2>1 DEF RequestEnd, FreshKey
      <3>2. a \in Allocs /\ a[1] = s /\ a[2] = currentGen[s]
        BY <3>1, CurrentAlloc DEF Base
      <3>3. opAlloc'[k] = a /\ opState'[k] = "end_pending" /\ sessDesired'[s] = "absent"
        BY <3>1 DEF Base, IInv, TypeOK
      <3>4. QED
        BY <3>1, <3>2, <3>3 DEF OperationStep, IsCurrent
    <2>2. CASE ReplayEnd(k)
      <3>1. /\ opState[k] = "end_pending" /\ EndComplete(opAlloc[k][1])
            /\ opState' = [opState EXCEPT ![k] = "end_succeeded"]
            /\ UNCHANGED <<sessDesired, currentGen, observed, opAlloc>>
        BY <2>2 DEF ReplayEnd, sessVars, allocVars
      <3>2. opState'[k] = "end_succeeded"
        BY <3>1 DEF Base, IInv, TypeOK
      <3>3. QED
        BY <3>1, <3>2 DEF OperationStep
    <2>3. QED
      BY <2>1, <2>2
  <1>ClientSteps. ASSUME Base, NEW k \in ClientOps, Client(k)
                  PROVE  /\ \A t \in Sessions : SessionStep(t)
                         /\ \A x \in ClientOps : OperationStep(x)
    <2> USE <1>ClientSteps
    <2>1. /\ currentGen' = currentGen
          /\ \E v : opState' = [opState EXCEPT ![k] = v]
          /\ opAlloc' = opAlloc \/ \E v : opAlloc' = [opAlloc EXCEPT ![k] = v]
      BY Zenon DEF Client, BeginVerify, RecordChoice, RecordVerifyResult, RequestEnd, ReplayEnd, sessVars
    <2>2. \/ sessDesired' = sessDesired
          \/ \E s : sessDesired' = [sessDesired EXCEPT ![s] = "absent"]
      <3>1. CASE \/ \E a \in Allocs : BeginVerify(k, a)
                 \/ ReplayEnd(k)
                 \/ \E s \in Sessions : RequestEnd(k, s)
        BY <3>1, Zenon DEF BeginVerify, RequestEnd, ReplayEnd, sessVars
      <3>2. ASSUME NEW a, GradePassed(a) \/ GradeNotPassed(a) PROVE <2>2!1 \/ <2>2!2
        BY <3>2, Zenon DEF GradePassed, GradeNotPassed
      <3>3. QED
        BY <3>1, <3>2, Zenon DEF Client, RecordChoice, RecordVerifyResult
    <2>3. \A t \in Sessions : SessionStep(t)
      BY <2>1, <2>2, SMTT(30) DEF SessionStep, Base, IInv, TypeOK
    <2>4. OperationStep(k)
      BY <1>BeginStep, <1>RecordVerifyStep, <1>EndSteps DEF Client
    <2>5. \A x \in ClientOps \ {k} : opState'[x] = opState[x] /\ opAlloc'[x] = opAlloc[x]
      BY <2>1 DEF Base, IInv, TypeOK
    <2>6. QED
      BY <2>3, <2>4, <2>5 DEF OperationStep
  <1>ControlSteps. ASSUME Base, Control
                   PROVE  /\ \A t \in Sessions : SessionStep(t)
                          /\ \A x \in ClientOps : OperationStep(x)
    <2> USE <1>ControlSteps
    <2>1. UNCHANGED <<sessDesired, currentGen, opAlloc>>
      BY DEF Control, Restart, PrepareRecoveryWork, RefuseRecovery, Activate, sessVars, clientVars
    <2>2. ASSUME NEW x \in ClientOps
          PROVE  \/ opState'[x] = opState[x]
                 \/ opState[x] = "running" /\ opState'[x] = "infrastructure"
      <3>1. CASE PrepareRecoveryWork
        BY <3>1 DEF PrepareRecoveryWork, Interrupted
      <3>2. CASE Restart \/ RefuseRecovery \/ Activate
        BY <3>2 DEF Restart, RefuseRecovery, Activate, clientVars
      <3>3. QED
        BY <3>1, <3>2 DEF Control
    <2>3. ASSUME NEW x \in ClientOps PROVE OperationStep(x)
      <3>1. opAlloc'[x] = opAlloc[x]
        BY <2>1
      <3>2. opState'[x] = opState[x] \/ (opState[x] = "running" /\ opState'[x] \in Results)
        BY <2>2 DEF Results
      <3>3. QED
        BY <3>1, <3>2 DEF OperationStep
    <2>4. QED
      BY <2>1, <2>3 DEF SessionStep, Base, IInv, TypeOK
  <1> SUFFICES ASSUME Base, [Next]_vars
               PROVE  /\ \A t \in Sessions : SessionStep(t)
                      /\ \A k \in ClientOps : OperationStep(k)
    OBVIOUS
  <1>1. CASE UNCHANGED vars
    BY <1>1 DEF vars, sessVars, clientVars, SessionStep, OperationStep, Base, IInv, TypeOK
  <1>2. QED
    BY <1>1, <1>ReserveSteps, <1>CreateSteps, <1>DestroySteps, <1>ClientSteps, <1>ControlSteps DEF Next

-----------------------------------------------------------------------------
(***************************************************************************)
(* Ends.                                                                   *)
(***************************************************************************)

\* A stored operation names an allocation that was reserved; one that ends a
\* session is stored with the session's intent to be gone.
Stored ==
    \A k \in ClientOps :
       /\ opState[k] # "none" =>
             opAlloc[k] \in Allocs /\ opAlloc[k][2] <= currentGen[opAlloc[k][1]]
       /\ opState[k] \in {"end_pending", "end_succeeded"} =>
             sessDesired[opAlloc[k][1]] = "absent"

LEMMA StoredHolds == Spec => []Stored
  <1>StoredStep. ASSUME Base, Stored, TypeOK', [Next]_vars
                 PROVE  Stored'
    <2> USE <1>StoredStep
    <2> SUFFICES ASSUME NEW k \in ClientOps
                 PROVE  /\ opState'[k] # "none" =>
                              opAlloc'[k] \in Allocs /\ opAlloc'[k][2] <= currentGen'[opAlloc'[k][1]]
                        /\ opState'[k] \in {"end_pending", "end_succeeded"} =>
                              sessDesired'[opAlloc'[k][1]] = "absent"
      BY DEF Stored
    <2>1. OperationStep(k) /\ \A t \in Sessions : SessionStep(t)
      BY Steps
    <2>2. CASE opAlloc'[k] = opAlloc[k] /\ opState[k] # "none"
      <3>1. opAlloc[k] \in Allocs /\ opAlloc[k][1] \in Sessions /\ opAlloc[k][2] \in Nat
            /\ currentGen[opAlloc[k][1]] \in Nat /\ currentGen'[opAlloc[k][1]] \in Nat
        BY <2>2, AllocParts, SMTT(30) DEF Stored, Base, IInv, TypeOK
      <3>2. opAlloc[k][2] <= currentGen'[opAlloc[k][1]]
        BY <2>1, <2>2, <3>1, SMTT(30) DEF Stored, SessionStep
      <3>3. opState'[k] \in {"end_pending", "end_succeeded"} =>
               opState[k] \in {"end_pending", "end_succeeded"}
        BY <2>1, <2>2 DEF OperationStep, Results
      <3>4. QED
        BY <2>1, <2>2, <3>1, <3>2, <3>3 DEF Stored, SessionStep
    <2>3. CASE opState[k] = "none"
      BY <2>1, <2>3, AllocParts, SMTT(30) DEF OperationStep, IsCurrent, Results
    <2>4. QED
      BY <2>1, <2>2, <2>3 DEF OperationStep
  <1>1. Init => Stored
    BY DEF Init, Stored
  <1>2. Base /\ Stored /\ [Next]_vars => Stored'
    BY <1>StoredStep, StepKeeps DEF Base
  <1>3. QED
    BY <1>1, <1>2, BaseHolds, PTL DEF Spec

\* An end operation that is reported complete left nothing of its session, and
\* nothing comes back (reconcileEndOperationTx, createEndOperationTx).
THEOREM EndsAreFinal == Spec => []EndMeansGone
  <1>EndStep. ASSUME Base, Stored, EndMeansGone, [Next]_vars
              PROVE  EndMeansGone'
    <2> USE <1>EndStep
    <2> SUFFICES ASSUME NEW k \in ClientOps, opState'[k] = "end_succeeded"
                 PROVE  /\ sessDesired'[opAlloc'[k][1]] = "absent"
                        /\ \A g \in 1..currentGen'[opAlloc'[k][1]] :
                              observed'[<<opAlloc'[k][1], g>>] = "absent"
      BY DEF EndMeansGone
    <2>1. OperationStep(k) /\ \A t \in Sessions : SessionStep(t)
      BY Steps
    <2>2. opAlloc'[k] = opAlloc[k] /\ opState[k] \in {"end_pending", "end_succeeded"}
      BY <2>1 DEF OperationStep, Results
    <2> PICK s : s = opAlloc[k][1]
      OBVIOUS
    <2>3. s \in Sessions /\ sessDesired[s] = "absent"
      BY <2>2, AllocParts DEF Stored
    <2>4. sessDesired'[s] = "absent" /\ currentGen'[s] = currentGen[s]
      BY <2>1, <2>3 DEF SessionStep
    <2>5. ASSUME NEW g \in 1..currentGen[s] PROVE observed'[<<s, g>>] = "absent"
      <3>1. <<s, g>> \in Allocs /\ <<s, g>> \in ReservedAllocs(s)
        <4>1. g \in Generations
          BY <2>3, BoundsAssumption, SMTT(30) DEF Generations, Base, IInv, TypeOK
        <4>2. QED
          BY <2>3, <4>1, AllocMade DEF ReservedAllocs
      <3>2. observed[<<s, g>>] = "absent"
        <4>1. CASE opState[k] = "end_succeeded"
          BY <4>1 DEF EndMeansGone
        <4>2. CASE opState[k] = "end_pending"
          <5>1. EndComplete(s)
            BY <2>1, <4>2 DEF OperationStep, Results
          <5>2. QED
            BY <3>1, <5>1 DEF EndComplete
        <4>3. QED
          BY <2>2, <4>1, <4>2
      <3>3. QED
        BY <3>1, <3>2, StepKeeps DEF Base, Keeps, AbsenceStays
    <2>6. QED
      BY <2>2, <2>4, <2>5
  <1>1. Init => EndMeansGone
    BY DEF Init, EndMeansGone
  <1>2. Base /\ Stored /\ EndMeansGone /\ [Next]_vars => EndMeansGone'
    BY <1>EndStep
  <1>3. QED
    BY <1>1, <1>2, BaseHolds, StoredHolds, PTL DEF Spec

-----------------------------------------------------------------------------
(***************************************************************************)
(* Verifications.                                                          *)
(***************************************************************************)

\* The strengthening of VerifyingHasOneOperation: a session is verifying exactly
\* while a verification of it runs, and a controller that recovers has ended all
\* of them.
Verifies ==
    /\ \A s \in Sessions : sessState[s] = "verifying" => \E k \in Interrupted : opAlloc[k][1] = s
    /\ \A k \in Interrupted : sessDesired[opAlloc[k][1]] = "active" =>
          IsCurrent(opAlloc[k]) /\ sessState[opAlloc[k][1]] = "verifying"
    /\ \A k, l \in Interrupted :
          opAlloc[k][1] = opAlloc[l][1] /\ sessDesired[opAlloc[k][1]] = "active" => k = l
    /\ phase = "recovering" => \A s \in Sessions : sessState[s] # "verifying"

\* The verifications of a session after a step that starts and ends none.
SameVerifications(s) ==
    \/ sessState'[s] # "verifying" /\ sessDesired'[s] # "active"
    \/ /\ sessDesired'[s] = sessDesired[s] /\ currentGen'[s] = currentGen[s]
       /\ sessState'[s] = "verifying" <=> sessState[s] = "verifying"
    \/ sessState'[s] # "verifying" /\ \A k \in Interrupted : opAlloc[k][1] # s

LEMMA VerifiesHolds == Spec => []Verifies
  <1>SameVerifies. ASSUME Base, Stored, Verifies, \A s \in Sessions : SameVerifications(s),
                          Interrupted' = Interrupted, \A k \in Interrupted : opAlloc'[k] = opAlloc[k],
                          phase' = "recovering" => phase = "recovering"
                   PROVE  Verifies'
    <2> USE <1>SameVerifies
    <2>1. \A k \in Interrupted : opAlloc[k] \in Allocs /\ opAlloc[k][1] \in Sessions
      BY AllocParts DEF Stored, Interrupted
    <2>2. \A s \in Sessions : sessState'[s] = "verifying" => sessState[s] = "verifying"
      BY DEF SameVerifications
    <2>3. \A s \in Sessions : sessState'[s] = "verifying" => \E k \in Interrupted' : opAlloc'[k][1] = s
      BY <2>2, SMTT(30) DEF Verifies
    <2>4. ASSUME NEW k \in Interrupted, sessDesired'[opAlloc[k][1]] = "active"
          PROVE  /\ sessDesired[opAlloc[k][1]] = "active"
                 /\ currentGen'[opAlloc[k][1]] = currentGen[opAlloc[k][1]]
                 /\ sessState'[opAlloc[k][1]] = "verifying" <=> sessState[opAlloc[k][1]] = "verifying"
      BY <2>1, <2>4 DEF SameVerifications
    <2>5. \A k \in Interrupted' : sessDesired'[opAlloc'[k][1]] = "active" =>
             IsCurrent(opAlloc[k])' /\ sessState'[opAlloc'[k][1]] = "verifying"
      BY <2>4, SMTT(30) DEF Verifies, IsCurrent
    <2>6. \A k, l \in Interrupted' :
             opAlloc'[k][1] = opAlloc'[l][1] /\ sessDesired'[opAlloc'[k][1]] = "active" => k = l
      BY <2>4, SMTT(30) DEF Verifies
    <2>7. QED
      BY <2>2, <2>3, <2>5, <2>6 DEF Verifies
  \* Nothing verifies in a session that is ready.
  <1>ReadyIsIdle. ASSUME Verifies, NEW s \in Sessions, sessState[s] # "verifying", sessDesired[s] = "active"
                  PROVE  \A k \in Interrupted : opAlloc[k][1] # s
    BY <1>ReadyIsIdle DEF Verifies
  <1>ReserveVerifies. ASSUME Base, Stored, Verifies, NEW s \in Sessions, ReserveSession(s) \/ ReserveReset(s)
                      PROVE  Verifies'
    <2> USE <1>ReserveVerifies
    <2>1. /\ UNCHANGED <<clientVars, controlVars>>
          /\ sessState' = [sessState EXCEPT ![s] = "queued"]
      BY DEF ReserveSession, ReserveReset
    <2>2. \A t \in Sessions \ {s} : sessDesired'[t] = sessDesired[t] /\ currentGen'[t] = currentGen[t]
      BY DEF ReserveSession, ReserveReset, Base, IInv, TypeOK
    <2>3. \A k \in Interrupted : opAlloc[k][1] # s
      <3>1. CASE ReserveSession(s)
        <4>1. currentGen[s] = 0
          BY <3>1 DEF ReserveSession, Base, IInv, GenerationsReserved
        <4>2. QED
          BY <4>1, AllocParts, SMTT(30) DEF Stored, Interrupted
      <3>2. CASE ReserveReset(s)
        BY <3>2, <1>ReadyIsIdle DEF ReserveReset, Gradable, Serviceable
      <3>3. QED
        BY <3>1, <3>2
    <2>4. \A t \in Sessions : SameVerifications(t)
      BY <2>1, <2>2, <2>3 DEF SameVerifications, Base, IInv, TypeOK
    <2>5. QED
      BY <2>1, <2>4, <1>SameVerifies DEF clientVars, controlVars, Interrupted
  <1>CreateVerifies. ASSUME Base, Stored, Verifies, NEW a \in Allocs, Create(a)
                     PROVE  Verifies'
    <2> USE <1>CreateVerifies
    <2>1. UNCHANGED <<currentGen, clientVars>> /\ (phase' = "recovering" => phase = "recovering")
      BY DEF Create, ClaimProvisionableCreate, MarkClaimedCreateSucceeded, FailStart, controlVars,
         MarkClaimedCreateFailed, CreateLeaseExpires, MarkSettingUp, MarkReady, sessVars
    <2>2. \A s \in Sessions : SameVerifications(s)
      <3>1. CASE ClaimProvisionableCreate(a) \/ CreateLeaseExpires(a)
        BY <3>1 DEF ClaimProvisionableCreate, CreateLeaseExpires, sessVars, SameVerifications
      <3>2. ASSUME NEW token, MarkClaimedCreateFailed(a, token)
            PROVE  \A s \in Sessions : SameVerifications(s)
        BY <2>1, <3>2 DEF MarkClaimedCreateFailed, SameVerifications, Base, IInv, TypeOK
      <3>3. ASSUME NEW token, MarkClaimedCreateSucceeded(a, token) \/ MarkSettingUp(a) \/ MarkReady(a)
            PROVE  \A s \in Sessions : SameVerifications(s)
        BY <3>3, SMTT(30) DEF MarkClaimedCreateSucceeded, MarkSettingUp, SetupAdvanced, MarkReady,
           SameVerifications, Base, IInv, TypeOK
      <3>4. QED
        BY <3>1, <3>2, <3>3 DEF Create
    <2>3. QED
      BY <2>1, <2>2, <1>SameVerifies DEF clientVars, Interrupted
  <1>DestroyVerifies. ASSUME Base, Stored, Verifies, NEW a \in Allocs, Destroy(a)
                      PROVE  Verifies'
    <2> USE <1>DestroyVerifies
    <2>1. /\ UNCHANGED <<currentGen, opAlloc>>
          /\ UNCHANGED opState \/ opState' = [k \in ClientOps |-> SweptClient(k, a)]
          /\ phase' = "recovering" => phase = "recovering"
      BY DEF Destroy, RequestDestroy, ClaimDestroyWork, RetryDestroyWork, MarkClaimedDestroyed,
         DestroyLeaseExpires, ConvergeLocalRestart, sessVars, clientVars, FailStart, controlVars
    <2>2. Interrupted' = Interrupted
      BY <2>1 DEF Interrupted, SweptClient
    <2>3. \A s \in Sessions : SameVerifications(s)
      <3>1. \/ UNCHANGED <<sessState, sessDesired>>
            \/ \E v \in SessionStates \ {"verifying"} :
                  /\ sessState' = [sessState EXCEPT ![a[1]] = v]
                  /\ sessDesired' = [sessDesired EXCEPT ![a[1]] = "absent"]
        <4>1. CASE \/ ClaimDestroyWork(a)
                   \/ DestroyLeaseExpires(a)
                   \/ \E token \in 1..destroyClaims[a] : RetryDestroyWork(a, token)
          BY <4>1 DEF ClaimDestroyWork, DestroyLeaseExpires, RetryDestroyWork, sessVars
        <4>2. ASSUME NEW o \in DestroyOutcomes, RequestDestroy(a, o)
              PROVE  <3>1!1 \/ <3>1!2
          <5>1. o \in SessionStates \ {"verifying"}
            BY DEF DestroyOutcomes, SessionStates, Outcomes
          <5>2. CASE IsCurrent(a) /\ outcome[a] = "none"
            BY <4>2, <5>1, <5>2 DEF RequestDestroy
          <5>3. CASE ~(IsCurrent(a) /\ outcome[a] = "none")
            BY <4>2, <5>3, AllocParts DEF RequestDestroy, Base, IInv, TypeOK
          <5>4. QED
            BY <5>2, <5>3
        <4>3. ASSUME NEW token, MarkClaimedDestroyed(a, token) \/ ConvergeLocalRestart(a)
              PROVE  <3>1!1 \/ <3>1!2
          <5>1. /\ sessState' = [sessState EXCEPT ![a[1]] = IF IsCurrent(a) THEN "destroyed" ELSE @]
                /\ sessDesired' = [sessDesired EXCEPT ![a[1]] = IF IsCurrent(a) THEN "absent" ELSE @]
            BY <4>3 DEF MarkClaimedDestroyed, ConvergeLocalRestart
          <5>2. "destroyed" \in SessionStates \ {"verifying"}
            BY DEF SessionStates
          <5>3. CASE IsCurrent(a)
            BY <5>1, <5>2, <5>3
          <5>4. CASE ~IsCurrent(a)
            BY <5>1, <5>4, AllocParts, SMTT(30) DEF Base, IInv, TypeOK
          <5>5. QED
            BY <5>3, <5>4
        <4>4. QED
          BY <4>1, <4>2, <4>3 DEF Destroy
      <3>2. QED
        BY <2>1, <3>1, SMTT(30) DEF SameVerifications, Base, IInv, TypeOK
    <2>4. QED
      BY <2>1, <2>2, <2>3, <1>SameVerifies
  <1>BeginVerifies. ASSUME Base, Stored, Verifies, NEW k \in ClientOps, NEW a \in Allocs, BeginVerify(k, a)
                    PROVE  Verifies'
    <2> USE <1>BeginVerifies
    <2>1. /\ Serving /\ opState[k] = "none" /\ IsCurrent(a) /\ a[1] \in Sessions
          /\ sessDesired[a[1]] = "active" /\ sessState[a[1]] = "ready"
      BY AllocParts DEF BeginVerify, FreshKey, Gradable, Serviceable
    <2>2. /\ opState' = [opState EXCEPT ![k] = "running"]
          /\ opAlloc' = [opAlloc EXCEPT ![k] = a]
          /\ sessState' = [sessState EXCEPT ![a[1]] = "verifying"]
          /\ UNCHANGED <<sessDesired, currentGen, phase>>
      BY DEF BeginVerify, controlVars
    <2>3. \A x \in Interrupted : opAlloc[x][1] # a[1]
      BY <2>1, <1>ReadyIsIdle
    <2>4. /\ Interrupted' = Interrupted \cup {k} /\ k \notin Interrupted /\ opAlloc'[k] = a
          /\ \A x \in Interrupted : opAlloc'[x] = opAlloc[x] /\ opAlloc[x][1] \in Sessions
      BY <2>1, <2>2, AllocParts, SMTT(30) DEF Interrupted, Stored, Base, IInv, TypeOK
    <2>5. sessState'[a[1]] = "verifying" /\ \A s \in Sessions \ {a[1]} : sessState'[s] = sessState[s]
      BY <2>1, <2>2 DEF Base, IInv, TypeOK
    <2>6. ASSUME NEW s \in Sessions, sessState'[s] = "verifying"
          PROVE  \E x \in Interrupted' : opAlloc'[x][1] = s
      <3>1. CASE s = a[1]
        BY <2>4, <3>1
      <3>2. CASE s # a[1]
        <4>1. PICK x \in Interrupted : opAlloc[x][1] = s
          BY <2>5, <2>6, <3>2 DEF Verifies
        <4>2. x \in Interrupted' /\ opAlloc'[x][1] = s
          BY <2>4, <4>1
        <4>3. QED
          BY <4>2
      <3>3. QED
        BY <3>1, <3>2
    <2>7. \A x \in Interrupted' : sessDesired'[opAlloc'[x][1]] = "active" =>
             IsCurrent(opAlloc[x])' /\ sessState'[opAlloc'[x][1]] = "verifying"
      <3>1. IsCurrent(opAlloc[k])' /\ sessState'[opAlloc'[k][1]] = "verifying"
        BY <2>1, <2>2, <2>4, <2>5 DEF IsCurrent
      <3>2. ASSUME NEW x \in Interrupted, sessDesired'[opAlloc'[x][1]] = "active"
            PROVE  IsCurrent(opAlloc[x])' /\ sessState'[opAlloc'[x][1]] = "verifying"
        <4>1. /\ opAlloc'[x] = opAlloc[x] /\ opAlloc[x][1] \in Sessions \ {a[1]}
              /\ sessDesired[opAlloc[x][1]] = "active"
          BY <2>2, <2>3, <2>4, <3>2
        <4>2. IsCurrent(opAlloc[x]) /\ sessState[opAlloc[x][1]] = "verifying"
          BY <4>1 DEF Verifies
        <4>3. QED
          BY <2>2, <2>5, <4>1, <4>2 DEF IsCurrent
      <3>3. QED
        BY <2>4, <3>1, <3>2
    <2>8. \A x, y \in Interrupted' :
             opAlloc'[x][1] = opAlloc'[y][1] /\ sessDesired'[opAlloc'[x][1]] = "active" => x = y
      BY <2>2, <2>3, <2>4, SMTT(30) DEF Verifies
    <2>9. QED
      BY <2>1, <2>2, <2>6, <2>7, <2>8 DEF Verifies, Serving
  <1>RecordVerifyVerifies. ASSUME Base, Stored, Verifies, NEW k \in ClientOps, NEW result \in Results,
                                  RecordVerifyResult(k, result)
                           PROVE  Verifies'
    <2> USE <1>RecordVerifyVerifies
    <2> PICK a : a = opAlloc[k]
      OBVIOUS
    <2>1. /\ Serving /\ opState[k] = "running" /\ sessDesired[a[1]] = "active"
          /\ GradePassed(a) \/ GradeNotPassed(a)
          /\ opState' = [opState EXCEPT ![k] = result]
          /\ UNCHANGED <<currentGen, opAlloc, phase>>
      BY DEF RecordVerifyResult, controlVars
    <2>2. a \in Allocs /\ a[1] \in Sessions
      BY <2>1, AllocParts DEF Stored
    <2>3. k \in Interrupted /\ Interrupted' = Interrupted \ {k}
      BY <2>1 DEF Interrupted, Results, Base, IInv, TypeOK
    <2>4. \A x \in Interrupted' : opAlloc[x][1] # a[1] /\ opAlloc[x][1] \in Sessions
      BY <2>1, <2>3, AllocParts DEF Verifies, Stored, Interrupted
    <2>5. /\ sessState'[a[1]] # "verifying"
          /\ \A s \in Sessions \ {a[1]} : sessState'[s] = sessState[s] /\ sessDesired'[s] = sessDesired[s]
      BY <2>1, <2>2, SMTT(30) DEF GradePassed, GradeNotPassed, Base, IInv, TypeOK
    <2>6. ASSUME NEW s \in Sessions, sessState'[s] = "verifying"
          PROVE  \E x \in Interrupted' : opAlloc'[x][1] = s
      <3>1. s # a[1] /\ sessState[s] = "verifying"
        BY <2>5, <2>6
      <3>2. PICK x \in Interrupted : opAlloc[x][1] = s
        BY <3>1 DEF Verifies
      <3>3. x # k
        BY <3>1, <3>2
      <3>4. QED
        BY <2>1, <2>3, <3>2, <3>3
    <2>7. \A x \in Interrupted' : sessDesired'[opAlloc'[x][1]] = "active" =>
             IsCurrent(opAlloc[x])' /\ sessState'[opAlloc'[x][1]] = "verifying"
      BY <2>1, <2>3, <2>4, <2>5, SMTT(30) DEF Verifies, IsCurrent
    <2>8. \A x, y \in Interrupted' :
             opAlloc'[x][1] = opAlloc'[y][1] /\ sessDesired'[opAlloc'[x][1]] = "active" => x = y
      BY <2>1, <2>3, <2>4, <2>5, SMTT(30) DEF Verifies
    <2>9. QED
      BY <2>1, <2>6, <2>7, <2>8 DEF Verifies, Serving
  <1>RecordChoiceVerifies. ASSUME Base, Stored, Verifies, NEW k \in ClientOps, NEW a \in Allocs, NEW result \in Results,
                                  RecordChoice(k, a, result)
                           PROVE  Verifies'
    <2> USE <1>RecordChoiceVerifies
    <2>1. /\ opState[k] = "none" /\ sessDesired[a[1]] = "active" /\ sessState[a[1]] = "ready"
          /\ GradePassed(a) \/ GradeNotPassed(a)
          /\ opState' = [opState EXCEPT ![k] = result]
          /\ opAlloc' = [opAlloc EXCEPT ![k] = a]
          /\ UNCHANGED <<currentGen, phase>>
      BY DEF RecordChoice, FreshKey, Gradable, Serviceable, controlVars
    <2>2. \A x \in Interrupted : opAlloc[x][1] # a[1]
      BY <2>1, AllocParts, <1>ReadyIsIdle
    <2>3. Interrupted' = Interrupted /\ \A x \in Interrupted : opAlloc'[x] = opAlloc[x]
      BY <2>1 DEF Interrupted, Results, Base, IInv, TypeOK
    <2>4. /\ sessState'[a[1]] # "verifying"
          /\ \A s \in Sessions \ {a[1]} : sessState'[s] = sessState[s] /\ sessDesired'[s] = sessDesired[s]
      BY <2>1, AllocParts, SMTT(30) DEF GradePassed, GradeNotPassed, Base, IInv, TypeOK
    <2>5. \A s \in Sessions : SameVerifications(s)
      BY <2>1, <2>2, <2>4 DEF SameVerifications
    <2>6. QED
      BY <2>1, <2>3, <2>5, <1>SameVerifies
  <1>ClientVerifies. ASSUME Base, Stored, Verifies, NEW k \in ClientOps, Client(k)
                     PROVE  Verifies'
    <2> USE <1>ClientVerifies
    <2>1. ASSUME NEW s \in Sessions, RequestEnd(k, s) PROVE Verifies'
      <3>1. /\ opState[k] = "none"
            /\ opState' = [opState EXCEPT ![k] = "end_pending"]
            /\ \A x \in ClientOps \ {k} : opAlloc'[x] = opAlloc[x]
            /\ sessState' = [sessState EXCEPT ![s] = "failed"]
            /\ sessDesired' = [sessDesired EXCEPT ![s] = "absent"]
            /\ UNCHANGED <<currentGen, phase>>
        BY <2>1 DEF RequestEnd, FreshKey, controlVars, Base, IInv, TypeOK
      <3>2. Interrupted' = Interrupted /\ \A x \in Interrupted : opAlloc'[x] = opAlloc[x]
        BY <3>1 DEF Interrupted, Base, IInv, TypeOK
      <3>3. \A t \in Sessions : SameVerifications(t)
        BY <3>1, ZenonT(30) DEF SameVerifications, Base, IInv, TypeOK
      <3>4. QED
        BY <3>1, <3>2, <3>3, <1>SameVerifies
    <2>2. CASE ReplayEnd(k)
      <3>1. /\ UNCHANGED <<sessState, sessDesired, currentGen, opAlloc, phase>>
            /\ opState[k] = "end_pending"
            /\ opState' = [opState EXCEPT ![k] = "end_succeeded"]
        BY <2>2 DEF ReplayEnd, sessVars, controlVars
      <3>2. Interrupted' = Interrupted
        BY <3>1 DEF Interrupted, Base, IInv, TypeOK
      <3>3. QED
        BY <3>1, <3>2, <1>SameVerifies DEF SameVerifications
    <2>3. {"passed", "rejected"} \subseteq Results
      BY DEF Results
    <2>4. QED
      BY <2>1, <2>2, <2>3, <1>BeginVerifies, <1>RecordVerifyVerifies, <1>RecordChoiceVerifies DEF Client
  <1>ControlVerifies. ASSUME Base, Stored, Verifies, Control
                      PROVE  Verifies'
    <2> USE <1>ControlVerifies
    <2>1. CASE Restart \/ RefuseRecovery \/ Activate
      <3>1. UNCHANGED <<sessVars, clientVars>> /\ phase' # "recovering"
        BY <2>1 DEF Restart, RefuseRecovery, Activate
      <3>2. QED
        BY <3>1, <1>SameVerifies DEF sessVars, clientVars, SameVerifications, Interrupted
    <2>2. CASE PrepareRecoveryWork
      <3>1. Interrupted' = {}
        BY <2>2 DEF PrepareRecoveryWork, Interrupted
      <3>2. \A s \in Sessions : sessState'[s] # "verifying"
        BY <2>2 DEF PrepareRecoveryWork, RestoredState, Verifies
      <3>3. QED
        BY <3>1, <3>2 DEF Verifies
    <2>3. QED
      BY <2>1, <2>2 DEF Control
  <1>1. Init => Verifies
    BY ZenonT(30) DEF Init, Verifies, Interrupted
  <1>2. ASSUME Base, Stored, Verifies, [Next]_vars PROVE Verifies'
    <2>1. CASE UNCHANGED vars
      BY <1>2, <2>1, <1>SameVerifies DEF vars, sessVars, clientVars, controlVars, SameVerifications,
         Interrupted
    <2>2. QED
      BY <1>2, <2>1, <1>ReserveVerifies, <1>CreateVerifies, <1>DestroyVerifies, <1>ClientVerifies,
         <1>ControlVerifies DEF Next
  <1>3. QED
    BY <1>1, <1>2, BaseHolds, StoredHolds, PTL DEF Spec

-----------------------------------------------------------------------------
(***************************************************************************)
(* Hydration: what startup recovery and the durable worker rebuild.        *)
(***************************************************************************)

\* The session's state and the create operation of its current allocation.
Hydrated(s) ==
    LET op == createOp[<<s, currentGen[s]>>] IN
    /\ sessState[s] \in ActiveStates
    /\ op \in {"pending", "running", "succeeded"}
    /\ op = "succeeded" <=> sessState[s] # "queued"

\* The strengthening of ActiveReservationsHydrate.
Hydrates ==
    /\ \A s \in Sessions : sessDesired[s] = "active" => Hydrated(s)
    /\ \A s, t \in Sessions :
          sessDesired[s] = "active" /\ sessDesired[t] = "active" /\ Owner[s] = Owner[t] => s = t

HydrateStep(s) == sessDesired'[s] = "active" => Hydrated(s)'

\* A step leaves the session and its current create operation alone.
SameReservation(s) ==
    /\ sessState'[s] = sessState[s] /\ sessDesired'[s] = sessDesired[s]
    /\ currentGen'[s] = currentGen[s]
    /\ createOp'[<<s, currentGen[s]>>] = createOp[<<s, currentGen[s]>>]

LEMMA HydratesHold == Spec => []Hydrates
  <1>SameHydrated. ASSUME Hydrates, NEW s \in Sessions, SameReservation(s)
                   PROVE  HydrateStep(s)
    BY <1>SameHydrated DEF Hydrates, HydrateStep, Hydrated, SameReservation
  \* A step on one allocation leaves the reservations of other sessions alone.
  <1>OthersSame. ASSUME Base, NEW a \in Allocs, UNCHANGED currentGen, NEW t \in Sessions, t # a[1],
                        sessState'[t] = sessState[t], sessDesired'[t] = sessDesired[t],
                        \A x \in Allocs \ {a} : createOp'[x] = createOp[x],
                        sessDesired[t] = "active"
                 PROVE  SameReservation(t)
    BY <1>OthersSame, CurrentAlloc, AllocParts DEF SameReservation, Base
  <1>CurrentIs. ASSUME NEW a \in Allocs, IsCurrent(a)
                PROVE  a = <<a[1], currentGen[a[1]]>> /\ a[1] \in Sessions
    BY <1>CurrentIs, AllocParts DEF IsCurrent, Allocs
  <1>ReserveHydrates. ASSUME Base, Hydrates, NEW s \in Sessions, ReserveSession(s) \/ ReserveReset(s)
                      PROVE  \A t \in Sessions : HydrateStep(t)
    <2> USE <1>ReserveHydrates
    <2>1. PICK b : /\ b = <<s, currentGen'[s]>>
                   /\ createOp' = [createOp EXCEPT ![b] = "pending"]
                   /\ sessState' = [sessState EXCEPT ![s] = "queued"]
      <3>1. CASE ReserveSession(s)
        <4>1. currentGen'[s] = 1
          BY <3>1 DEF ReserveSession, Base, IInv, TypeOK
        <4>2. QED
          BY <3>1, <4>1 DEF ReserveSession
      <3>2. CASE ReserveReset(s)
        <4>1. currentGen'[s] = currentGen[s] + 1
          BY <3>2 DEF ReserveReset, Base, IInv, TypeOK
        <4>2. QED
          BY <3>2, <4>1 DEF ReserveReset
      <3>3. QED
        BY <3>1, <3>2
    <2>2. b \in Allocs
      <3>1. currentGen'[s] \in Generations
        <4>1. MaxGen \in Nat \ {0} /\ currentGen[s] \in 0..MaxGen
          BY BoundsAssumption DEF Base, IInv, TypeOK
        <4>2. CASE ReserveSession(s)
          <5>1. currentGen'[s] = 1
            BY <4>2 DEF ReserveSession, Base, IInv, TypeOK
          <5>2. QED
            BY <4>1, <5>1 DEF Generations
        <4>3. CASE ReserveReset(s)
          <5>1. /\ currentGen' = [currentGen EXCEPT ![s] = currentGen[s] + 1]
                /\ currentGen[s] \in 1..(MaxGen - 1)
            BY <4>3 DEF ReserveReset
          <5>2. currentGen'[s] = currentGen[s] + 1
            BY <5>1 DEF Base, IInv, TypeOK
          <5>3. QED
            BY <4>1, <5>1, <5>2 DEF Generations
        <4>4. QED
          BY <4>2, <4>3
      <3>2. QED
        BY <2>1, <3>1, AllocMade
    <2>3. HydrateStep(s)
      BY <2>1, <2>2 DEF HydrateStep, Hydrated, ActiveStates, Base, IInv, TypeOK
    <2>4. ASSUME NEW t \in Sessions \ {s} PROVE HydrateStep(t)
      <3>1. currentGen'[t] = currentGen[t] /\ sessDesired'[t] = sessDesired[t]
        BY ZenonT(30) DEF ReserveSession, ReserveReset, Base, IInv, TypeOK
      <3>2. sessState'[t] = sessState[t]
        BY <2>1 DEF Base, IInv, TypeOK
      <3>3. CASE sessDesired[t] = "active"
        <4>1. <<t, currentGen[t]>> \in Allocs
          BY <3>3, CurrentAlloc DEF Base
        <4>2. <<t, currentGen[t]>> # b
          BY <2>1
        <4>3. createOp'[<<t, currentGen[t]>>] = createOp[<<t, currentGen[t]>>]
          BY <2>1, <4>1, <4>2 DEF Base, IInv, TypeOK
        <4>4. QED
          BY <3>1, <3>2, <4>3, <1>SameHydrated DEF SameReservation
      <3>4. QED
        BY <3>1, <3>3 DEF HydrateStep
    <2>5. QED
      BY <2>3, <2>4
  \* A step that changes rows of one allocation and of its session.
  <1>OneHydrated. ASSUME Base, Hydrates, NEW a \in Allocs, UNCHANGED currentGen,
                         \A t \in Sessions \ {a[1]} : sessState'[t] = sessState[t] /\ sessDesired'[t] = sessDesired[t],
                         \A x \in Allocs \ {a} : createOp'[x] = createOp[x],
                         HydrateStep(a[1])
                  PROVE  \A t \in Sessions : HydrateStep(t)
    <2> USE <1>OneHydrated
    <2> SUFFICES ASSUME NEW t \in Sessions \ {a[1]} PROVE HydrateStep(t)
      OBVIOUS
    <2>1. CASE sessDesired[t] = "active"
      BY <2>1, <1>OthersSame, <1>SameHydrated
    <2>2. CASE sessDesired[t] # "active"
      BY <2>2 DEF HydrateStep
    <2>3. QED
      BY <2>1, <2>2
  \* What an active session's current allocation looks like.
  <1>ActiveHydrated. ASSUME Hydrates, NEW a \in Allocs, Serviceable(a)
                     PROVE  /\ a[1] \in Sessions /\ sessState[a[1]] \in ActiveStates
                            /\ createOp[a] \in {"pending", "running", "succeeded"}
                            /\ createOp[a] = "succeeded" <=> sessState[a[1]] # "queued"
    BY <1>ActiveHydrated, <1>CurrentIs DEF Hydrates, Hydrated, Serviceable
  <1>CurrentHydrated. ASSUME NEW a \in Allocs, IsCurrent(a), UNCHANGED currentGen, sessState'[a[1]] \in ActiveStates,
                             createOp'[a] \in {"pending", "running", "succeeded"},
                             createOp'[a] = "succeeded" <=> sessState'[a[1]] # "queued"
                      PROVE  HydrateStep(a[1])
    BY <1>CurrentHydrated, <1>CurrentIs DEF HydrateStep, Hydrated
  <1>CreateHydrates. ASSUME Base, Hydrates, NEW a \in Allocs, Create(a)
                     PROVE  \A t \in Sessions : HydrateStep(t)
    <2> USE <1>CreateHydrates
    <2>1. CASE CreateLeaseExpires(a)
      BY <2>1, <1>SameHydrated DEF CreateLeaseExpires, sessVars, SameReservation
    <2>2. CASE ClaimProvisionableCreate(a)
      <3>1. /\ Serviceable(a) /\ createOp[a] \in {"pending", "running"}
            /\ createOp' = [createOp EXCEPT ![a] = "running"]
            /\ UNCHANGED <<sessState, sessDesired, currentGen>>
        BY <2>2 DEF ClaimProvisionableCreate, CreateClaimable, Claimable, sessVars
      <3>2. createOp'[a] = "running" /\ \A x \in Allocs \ {a} : createOp'[x] = createOp[x]
        BY <3>1 DEF Base, IInv, TypeOK
      <3>3. HydrateStep(a[1])
        BY <3>1, <3>2, <1>ActiveHydrated, <1>CurrentHydrated DEF Serviceable
      <3>4. QED
        BY <3>1, <3>2, <3>3, <1>OneHydrated
    <2>3. ASSUME NEW token, MarkClaimedCreateSucceeded(a, token)
          PROVE  \A t \in Sessions : HydrateStep(t)
      <3>1. /\ Serviceable(a) /\ createOp[a] = "running"
            /\ createOp' = [createOp EXCEPT ![a] = "succeeded"]
            /\ sessState' = [sessState EXCEPT ![a[1]] = IF @ = "queued" THEN "booting" ELSE @]
            /\ UNCHANGED <<sessDesired, currentGen>>
        BY <2>3 DEF MarkClaimedCreateSucceeded, HoldsLease
      <3>2. createOp'[a] = "succeeded" /\ \A x \in Allocs \ {a} : createOp'[x] = createOp[x]
        BY <3>1 DEF Base, IInv, TypeOK
      <3>3. a[1] \in Sessions /\ sessState[a[1]] = "queued"
        BY <3>1, <1>ActiveHydrated
      <3>4. /\ sessState'[a[1]] = "booting"
            /\ \A t \in Sessions \ {a[1]} : sessState'[t] = sessState[t]
        BY <3>1, <3>3 DEF Base, IInv, TypeOK
      <3>5. HydrateStep(a[1])
        BY <3>1, <3>2, <3>4, <1>CurrentHydrated DEF Serviceable, ActiveStates
      <3>6. QED
        BY <3>1, <3>2, <3>4, <3>5, <1>OneHydrated
    <2>4. ASSUME NEW token, MarkClaimedCreateFailed(a, token)
          PROVE  \A t \in Sessions : HydrateStep(t)
      <3>1. /\ createOp' = [createOp EXCEPT ![a] = "cleanup_required"]
            /\ sessState' = [sessState EXCEPT ![a[1]] = "failed"]
            /\ sessDesired' = [sessDesired EXCEPT ![a[1]] = "absent"]
            /\ UNCHANGED currentGen
        BY <2>4 DEF MarkClaimedCreateFailed
      <3>2. \A x \in Allocs \ {a} : createOp'[x] = createOp[x]
        BY <3>1 DEF Base, IInv, TypeOK
      <3>3. /\ sessDesired'[a[1]] = "absent"
            /\ \A t \in Sessions \ {a[1]} : sessState'[t] = sessState[t] /\ sessDesired'[t] = sessDesired[t]
        BY <3>1, AllocParts, ZenonT(30) DEF Base, IInv, TypeOK
      <3>4. QED
        BY <3>1, <3>2, <3>3, <1>OneHydrated DEF HydrateStep
    <2>5. CASE MarkSettingUp(a) \/ MarkReady(a)
      <3>1. /\ Serviceable(a) /\ createOp[a] = "succeeded" /\ UNCHANGED <<createOp, sessDesired, currentGen>>
            /\ \E v \in ActiveStates \ {"queued"} : sessState' = [sessState EXCEPT ![a[1]] = v]
        <4>1. CASE MarkReady(a)
          BY <2>5, <4>1 DEF MarkReady, createVars, ActiveStates
        <4>2. CASE MarkSettingUp(a)
          <5>1. PICK v : v = IF SetupAdvanced(a) THEN sessState[a[1]] ELSE "setting_up"
            OBVIOUS
          <5>2. v \in ActiveStates \ {"queued"}
            BY <5>1 DEF SetupAdvanced, ActiveStates
          <5>3. sessState' = [sessState EXCEPT ![a[1]] = v]
            BY <4>2, <5>1 DEF MarkSettingUp
          <5>4. QED
            BY <4>2, <5>2, <5>3 DEF MarkSettingUp, createVars
        <4>3. QED
          BY <2>5, <4>1, <4>2
      <3>2. /\ sessState'[a[1]] \in ActiveStates \ {"queued"}
            /\ \A t \in Sessions \ {a[1]} : sessState'[t] = sessState[t]
        BY <3>1, AllocParts, SMTT(30) DEF Base, IInv, TypeOK
      <3>3. HydrateStep(a[1])
        BY <3>1, <3>2, <1>CurrentHydrated DEF Serviceable
      <3>4. QED
        BY <3>1, <3>2, <3>3, <1>OneHydrated
    <2>6. QED
      BY <2>1, <2>2, <2>3, <2>4, <2>5 DEF Create
  \* A step on an allocation that ends the session of a current one, and that
  \* leaves the session of an older one alone.
  <1>GiveUpHydrates. ASSUME Base, Hydrates, NEW a \in Allocs, UNCHANGED currentGen,
                            \A x \in Allocs \ {a} : createOp'[x] = createOp[x],
                            createOp'[a] = createOp[a] \/ ~IsCurrent(a) \/ sessDesired'[a[1]] = "absent",
                            \/ UNCHANGED <<sessState, sessDesired>>
                            \/ \E v : /\ sessState' = [sessState EXCEPT ![a[1]] = v]
                                      /\ sessDesired' = [sessDesired EXCEPT ![a[1]] = "absent"]
                     PROVE  \A t \in Sessions : HydrateStep(t)
    <2> USE <1>GiveUpHydrates
    <2>1. a[1] \in Sessions
      BY AllocParts
    <2>2. \A t \in Sessions \ {a[1]} : sessState'[t] = sessState[t] /\ sessDesired'[t] = sessDesired[t]
      BY ZenonT(30) DEF Base, IInv, TypeOK
    <2>3. CASE sessDesired'[a[1]] # "active"
      BY <2>2, <2>3, <1>OneHydrated DEF HydrateStep
    <2>4. CASE sessDesired'[a[1]] = "active"
      <3>1. UNCHANGED <<sessState, sessDesired>>
        BY <2>1, <2>4 DEF Base, IInv, TypeOK
      <3>2. createOp'[<<a[1], currentGen[a[1]]>>] = createOp[<<a[1], currentGen[a[1]]>>]
        <4>1. <<a[1], currentGen[a[1]]>> \in Allocs
          BY <2>1, <2>4, <3>1, CurrentAlloc DEF Base
        <4>2. CASE <<a[1], currentGen[a[1]]>> = a
          <5>1. IsCurrent(a)
            BY <2>1, <4>2, AllocParts, SMTT(30) DEF IsCurrent, Allocs
          <5>2. QED
            BY <2>4, <4>2, <5>1, SMTT(30)
        <4>3. QED
          BY <4>1, <4>2
      <3>3. HydrateStep(a[1])
        BY <2>1, <3>1, <3>2, <1>SameHydrated DEF SameReservation
      <3>4. QED
        BY <2>2, <3>3, <1>OneHydrated
    <2>5. QED
      BY <2>3, <2>4
  <1>DestroyHydrates. ASSUME Base, Hydrates, NEW a \in Allocs, Destroy(a)
                      PROVE  \A t \in Sessions : HydrateStep(t)
    <2> USE <1>DestroyHydrates
    <2>1. CASE \/ ClaimDestroyWork(a)
               \/ DestroyLeaseExpires(a)
               \/ \E token \in 1..destroyClaims[a] : RetryDestroyWork(a, token)
      BY <2>1, <1>SameHydrated DEF ClaimDestroyWork, DestroyLeaseExpires, RetryDestroyWork, sessVars,
         createVars, SameReservation
    <2>2. ASSUME NEW o \in DestroyOutcomes, RequestDestroy(a, o)
          PROVE  \A t \in Sessions : HydrateStep(t)
      <3>1. /\ UNCHANGED <<currentGen, createOp>>
            /\ sessState' = [sessState EXCEPT ![a[1]] =
                               IF IsCurrent(a) /\ outcome[a] = "none" THEN o ELSE @]
            /\ sessDesired' = [sessDesired EXCEPT ![a[1]] =
                                 IF IsCurrent(a) /\ outcome[a] = "none" THEN "absent" ELSE @]
        BY <2>2 DEF RequestDestroy, createVars
      <3>2. CASE IsCurrent(a) /\ outcome[a] = "none"
        BY <3>1, <3>2, <1>GiveUpHydrates
      <3>3. CASE ~(IsCurrent(a) /\ outcome[a] = "none")
        <4>1. UNCHANGED <<sessState, sessDesired>>
          BY <3>1, <3>3, AllocParts, ZenonT(30) DEF Base, IInv, TypeOK
        <4>2. QED
          BY <3>1, <4>1, <1>GiveUpHydrates
      <3>4. QED
        BY <3>2, <3>3
    <2>3. ASSUME NEW token, MarkClaimedDestroyed(a, token) \/ ConvergeLocalRestart(a)
          PROVE  \A t \in Sessions : HydrateStep(t)
      <3>1. /\ UNCHANGED currentGen
            /\ createOp' = [createOp EXCEPT ![a] = TerminalizedCreate(@)]
            /\ sessState' = [sessState EXCEPT ![a[1]] = IF IsCurrent(a) THEN "destroyed" ELSE @]
            /\ sessDesired' = [sessDesired EXCEPT ![a[1]] = IF IsCurrent(a) THEN "absent" ELSE @]
        BY <2>3 DEF MarkClaimedDestroyed, ConvergeLocalRestart
      <3>2. \A x \in Allocs \ {a} : createOp'[x] = createOp[x]
        BY <3>1 DEF Base, IInv, TypeOK
      <3>3. CASE IsCurrent(a)
        <4>1. sessDesired'[a[1]] = "absent"
          BY <3>1, <3>3, AllocParts DEF Base, IInv, TypeOK
        <4>2. QED
          BY <3>1, <3>2, <3>3, <4>1, <1>GiveUpHydrates
      <3>4. CASE ~IsCurrent(a)
        <4>1. UNCHANGED <<sessState, sessDesired>>
          BY <3>1, <3>4, AllocParts, SMTT(30) DEF Base, IInv, TypeOK
        <4>2. QED
          BY <3>1, <3>2, <3>4, <4>1, <1>GiveUpHydrates
      <3>5. QED
        BY <3>3, <3>4
    <2>4. QED
      BY <2>1, <2>2, <2>3 DEF Destroy
  <1>GradeHydrates. ASSUME Base, Hydrates, NEW a \in Allocs, IsCurrent(a), sessDesired[a[1]] = "active",
                           sessState[a[1]] \in {"ready", "verifying"},
                           GradePassed(a) \/ GradeNotPassed(a), UNCHANGED <<currentGen, createOp>>
                    PROVE  \A t \in Sessions : HydrateStep(t)
    <2> USE <1>GradeHydrates
    <2>1. a[1] \in Sessions /\ createOp[a] = "succeeded"
      BY <1>CurrentIs DEF Hydrates, Hydrated
    <2>2. CASE GradePassed(a)
      BY <2>2, <1>GiveUpHydrates DEF GradePassed
    <2>3. CASE GradeNotPassed(a)
      <3>1. /\ sessState'[a[1]] = "ready" /\ sessDesired' = sessDesired
            /\ \A t \in Sessions \ {a[1]} : sessState'[t] = sessState[t]
        BY <2>1, <2>3 DEF GradeNotPassed, Base, IInv, TypeOK
      <3>2. HydrateStep(a[1])
        BY <2>1, <3>1, <1>CurrentHydrated DEF ActiveStates
      <3>3. QED
        BY <3>1, <3>2, <1>OneHydrated
    <2>4. QED
      BY <2>2, <2>3
  <1>ClientHydrates. ASSUME Base, Stored, Hydrates, NEW k \in ClientOps, Client(k)
                     PROVE  \A t \in Sessions : HydrateStep(t)
    <2> USE <1>ClientHydrates
    <2>1. ASSUME NEW a \in Allocs, BeginVerify(k, a) PROVE \A t \in Sessions : HydrateStep(t)
      <3>1. /\ Serviceable(a) /\ sessState[a[1]] = "ready"
            /\ sessState' = [sessState EXCEPT ![a[1]] = "verifying"]
            /\ UNCHANGED <<sessDesired, currentGen, createOp>>
        BY <2>1 DEF BeginVerify, Gradable, createVars
      <3>2. a[1] \in Sessions /\ createOp[a] = "succeeded"
        BY <3>1, <1>ActiveHydrated
      <3>3. /\ sessState'[a[1]] = "verifying"
            /\ \A t \in Sessions \ {a[1]} : sessState'[t] = sessState[t]
        BY <3>1, <3>2, ZenonT(30) DEF Base, IInv, TypeOK
      <3>4. HydrateStep(a[1])
        BY <3>1, <3>2, <3>3, <1>CurrentHydrated DEF ActiveStates, Serviceable
      <3>5. QED
        BY <3>1, <3>3, <3>4, <1>OneHydrated
    <2>2. ASSUME NEW a \in Allocs, NEW result, RecordChoice(k, a, result)
          PROVE  \A t \in Sessions : HydrateStep(t)
      BY <2>2, <1>GradeHydrates DEF RecordChoice, Gradable, Serviceable, createVars
    <2>3. ASSUME NEW result, RecordVerifyResult(k, result)
          PROVE  \A t \in Sessions : HydrateStep(t)
      <3>1. opAlloc[k] \in Allocs
        BY <2>3 DEF RecordVerifyResult, Stored
      <3>2. QED
        BY <2>3, <3>1, <1>GradeHydrates DEF RecordVerifyResult, createVars
    <2>4. ASSUME NEW s \in Sessions, RequestEnd(k, s) PROVE \A t \in Sessions : HydrateStep(t)
      <3>1. /\ sessDesired[s] = "active" /\ UNCHANGED <<currentGen, createOp>>
            /\ sessState' = [sessState EXCEPT ![s] = "failed"]
            /\ sessDesired' = [sessDesired EXCEPT ![s] = "absent"]
        BY <2>4 DEF RequestEnd, createVars
      <3>2. PICK a \in Allocs : a[1] = s
        BY <3>1, CurrentAlloc DEF Base
      <3>3. QED
        BY <3>1, <3>2, <1>GiveUpHydrates
    <2>5. CASE ReplayEnd(k)
      BY <2>5, <1>SameHydrated DEF ReplayEnd, sessVars, createVars, SameReservation
    <2>6. QED
      BY <2>1, <2>2, <2>3, <2>4, <2>5 DEF Client
  <1>ControlHydrates. ASSUME Base, Stored, Verifies, Hydrates, Control
                      PROVE  \A t \in Sessions : HydrateStep(t)
    <2> USE <1>ControlHydrates
    <2>1. CASE Restart \/ RefuseRecovery \/ Activate
      BY <2>1, <1>SameHydrated DEF Restart, RefuseRecovery, Activate, sessVars, createVars, SameReservation
    <2>2. ASSUME PrepareRecoveryWork, NEW s \in Sessions PROVE HydrateStep(s)
      <3>1. /\ sessState'[s] = RestoredState(s) /\ UNCHANGED <<sessDesired, currentGen>>
            /\ createOp' = [a \in Allocs |-> IF createOp[a] = "running" THEN "pending" ELSE createOp[a]]
        BY <2>2 DEF PrepareRecoveryWork
      <3> SUFFICES ASSUME sessDesired[s] = "active" PROVE Hydrated(s)'
        BY <3>1 DEF HydrateStep
      <3> PICK a : a = <<s, currentGen[s]>>
        OBVIOUS
      <3>2. a \in Allocs
        BY CurrentAlloc DEF Base
      <3>3. createOp'[a] = IF createOp[a] = "running" THEN "pending" ELSE createOp[a]
        BY <3>1, <3>2
      <3>4. \/ sessState'[s] = sessState[s]
            \/ sessState'[s] = "ready" /\ sessState[s] = "verifying"
        BY <3>1 DEF RestoredState, Verifies
      <3>5. Hydrated(s)
        BY DEF Hydrates
      <3>6. sessState'[s] \in ActiveStates /\ (sessState'[s] = "queued" <=> sessState[s] = "queued")
        BY <3>4, <3>5 DEF Hydrated, ActiveStates
      <3>7. /\ createOp'[a] \in {"pending", "running", "succeeded"}
            /\ createOp'[a] = "succeeded" <=> createOp[a] = "succeeded"
        BY <3>3, <3>5 DEF Hydrated
      <3>8. QED
        BY <3>1, <3>5, <3>6, <3>7 DEF Hydrated
    <2>3. QED
      BY <2>1, <2>2 DEF Control
  \* A user gets an active session only while having none.
  <1>OwnersStep. ASSUME Base, [Next]_vars
                 PROVE  \/ \A s \in Sessions : sessDesired'[s] = "active" => sessDesired[s] = "active"
                        \/ \E s \in Sessions :
                              /\ NoActiveSession(Owner[s])
                              /\ \A t \in Sessions \ {s} : sessDesired'[t] = sessDesired[t]
    <2> USE <1>OwnersStep
    <2> DEFINE NoneMore == \A s \in Sessions : sessDesired'[s] = "active" => sessDesired[s] = "active"
    <2>1. CASE UNCHANGED vars \/ Control
      BY <2>1 DEF vars, sessVars, Control, Restart, PrepareRecoveryWork, RefuseRecovery, Activate
    <2>2. ASSUME NEW s \in Sessions, ReserveSession(s)
          PROVE  NoActiveSession(Owner[s]) /\ \A t \in Sessions \ {s} : sessDesired'[t] = sessDesired[t]
      BY <2>2 DEF ReserveSession, Base, IInv, TypeOK
    <2>3. ASSUME NEW s \in Sessions, ReserveReset(s) PROVE NoneMore
      BY <2>3 DEF ReserveReset
    <2>4. ASSUME NEW a \in Allocs, Create(a) PROVE NoneMore
      <3>1. sessDesired' = sessDesired \/ sessDesired' = [sessDesired EXCEPT ![a[1]] = "absent"]
        BY <2>4 DEF Create, ClaimProvisionableCreate, MarkClaimedCreateSucceeded,
           MarkClaimedCreateFailed, CreateLeaseExpires, MarkSettingUp, MarkReady, sessVars
      <3>2. QED
        BY <3>1 DEF Base, IInv, TypeOK
    <2>5. ASSUME NEW a \in Allocs, Destroy(a) PROVE NoneMore
      <3>1. \/ sessDesired' = sessDesired
            \/ \E b \in BOOLEAN :
                  sessDesired' = [sessDesired EXCEPT ![a[1]] = IF b THEN "absent" ELSE @]
        BY <2>5 DEF Destroy, RequestDestroy, ClaimDestroyWork, RetryDestroyWork,
           MarkClaimedDestroyed, DestroyLeaseExpires, ConvergeLocalRestart, sessVars
      <3>2. QED
        BY <3>1 DEF Base, IInv, TypeOK
    <2>6. ASSUME NEW k \in ClientOps, Client(k) PROVE NoneMore
      <3>1. \/ sessDesired' = sessDesired
            \/ \E s : sessDesired' = [sessDesired EXCEPT ![s] = "absent"]
        <4>1. CASE \/ \E a \in Allocs : BeginVerify(k, a)
                   \/ ReplayEnd(k)
                   \/ \E s \in Sessions : RequestEnd(k, s)
          BY <4>1, Zenon DEF BeginVerify, RequestEnd, ReplayEnd, sessVars
        <4>2. ASSUME NEW a, GradePassed(a) \/ GradeNotPassed(a) PROVE <3>1!1 \/ <3>1!2
          BY <4>2, Zenon DEF GradePassed, GradeNotPassed
        <4>3. QED
          BY <2>6, <4>1, <4>2, Zenon DEF Client, RecordChoice, RecordVerifyResult
      <3>2. QED
        BY <3>1 DEF Base, IInv, TypeOK
    <2>7. QED
      BY <2>1, <2>2, <2>3, <2>4, <2>5, <2>6 DEF Next
  <1>1. Init => Hydrates
    BY ZenonT(30) DEF Init, Hydrates
  <1>2. ASSUME Base, Stored, Verifies, Hydrates, [Next]_vars PROVE Hydrates'
    <2>1. \A s \in Sessions : HydrateStep(s)
      <3>1. CASE UNCHANGED vars
        BY <1>2, <3>1, <1>SameHydrated DEF vars, sessVars, createVars, SameReservation
      <3>2. QED
        BY <1>2, <3>1, <1>ReserveHydrates, <1>CreateHydrates, <1>DestroyHydrates, <1>ClientHydrates,
           <1>ControlHydrates DEF Next
    <2>2. \A s, t \in Sessions :
             sessDesired'[s] = "active" /\ sessDesired'[t] = "active" /\ Owner[s] = Owner[t] => s = t
      BY <1>2, <1>OwnersStep DEF Hydrates, NoActiveSession
    <2>3. QED
      BY <2>1, <2>2 DEF Hydrates, HydrateStep
  <1>3. QED
    BY <1>1, <1>2, BaseHolds, StoredHolds, VerifiesHolds, PTL DEF Spec

\* Startup recovery and the durable worker can hydrate every active session at
\* any moment: what ListActiveReservations and hydrateReservation demand holds
\* after every history of requests, failures and restarts.
THEOREM ReservationsHydrate == Spec => []ActiveReservationsHydrate
  <1>1. ASSUME Base, Verifies, Hydrates PROVE ActiveReservationsHydrate
    <2>1. ASSUME NEW s \in Sessions, sessDesired[s] = "active"
          PROVE  LET a == <<s, currentGen[s]>> IN
                 /\ a \in Allocs /\ desired[a] = "active" /\ attempt[a] = "in_progress"
                 /\ phase = "recovering" => sessState[s] # "verifying"
      BY <1>1, <2>1, CurrentAlloc DEF Base, Rows, Verifies
    <2>2. \A a \in Allocs : attempt[a] = "in_progress" => IsCurrent(a) /\ sessDesired[a[1]] = "active"
      BY <1>1 DEF Base, Rows
    <2>3. QED
      BY <1>1, <2>1, <2>2 DEF Hydrates, Hydrated, ActiveReservationsHydrate
  <1>2. QED
    BY <1>1, BaseHolds, VerifiesHolds, HydratesHold, PTL

-----------------------------------------------------------------------------
(***************************************************************************)
(* The operations of an allocation that is gone are settled.               *)
(***************************************************************************)

\* Destroy work is retried until it succeeds; it never fails for good.
DestroyNeverFails == \A a \in Allocs : destroyOp[a] # "failed"

\* What a step does to the operations of an allocation that is gone.
SettledStep(a) ==
    /\ destroyOp'[a] # "failed"
    /\ Absent(a) => createOp'[a] = createOp[a] /\ destroyOp'[a] = destroyOp[a]

LEMMA NextSettled ==
    Base /\ DestroyNeverFails /\ [Next]_vars =>
           \A x \in Allocs : SettledStep(x)
  <1>GoneOperations. ASSUME Base, DestroyNeverFails, NEW x \in Allocs
                     PROVE  /\ destroyOp[x] # "failed"
                            /\ Absent(x) => /\ destroyOp[x] = "succeeded" /\ desired[x] = "absent"
                                            /\ observed[x] = "absent" /\ createOp[x] \notin Unfinished
    BY <1>GoneOperations DEF DestroyNeverFails, Base, IInv, TypeOK, CleanupNeverLost, Absent, WorkStates, Unfinished
  <1>ReserveSettled. ASSUME Base, DestroyNeverFails, NEW s \in Sessions, ReserveSession(s) \/ ReserveReset(s),
                            NEW x \in Allocs
                     PROVE  SettledStep(x)
    <2> USE <1>ReserveSettled
    <2>1. CASE ReserveSession(s)
      <3> PICK a : a = <<s, 1>>
        OBVIOUS
      <3>1. /\ sessState[s] = "none" /\ createOp' = [createOp EXCEPT ![a] = "pending"]
            /\ destroyOp' = destroyOp
        BY <2>1 DEF ReserveSession, destroyVars
      <3>2. a \in Allocs /\ a[1] = s /\ a[2] = 1
        BY AllocMade, BoundsAssumption DEF Generations
      <3>3. desired[a] = "none"
        <4>1. currentGen[s] = 0
          BY <3>1 DEF Base, IInv, GenerationsReserved
        <4>2. QED
          BY <3>2, <4>1, SMTT(30) DEF Base, Rows
      <3>4. Absent(x) => x # a
        BY <3>3 DEF Absent
      <3>5. QED
        BY <3>1, <3>4, <1>GoneOperations DEF SettledStep, Base, IInv, TypeOK
    <2>2. CASE ReserveReset(s)
      <3> PICK a : a = <<s, currentGen[s]>>
        OBVIOUS
      <3> PICK b : b = <<s, currentGen[s] + 1>>
        OBVIOUS
      <3>1. /\ currentGen[s] \in 1..(MaxGen - 1)
            /\ createOp' = [createOp EXCEPT ![b] = "pending"]
            /\ destroyOp' = [destroyOp EXCEPT ![a] = EnsureDestroyOperation(@)]
        BY <2>2 DEF ReserveReset
      <3>2. b \in Allocs /\ b[1] = s /\ b[2] = currentGen[s] + 1
        BY <3>1, AllocMade, BoundsAssumption DEF Generations
      <3>3. desired[b] = "none"
        BY <3>1, <3>2, BoundsAssumption, SMTT(30) DEF Base, Rows
      <3>4. Absent(x) => x # b
        BY <3>3 DEF Absent
      <3>5. destroyOp[x] # "failed" /\ (Absent(x) => destroyOp[x] = "succeeded")
        BY <1>GoneOperations
      <3>6. createOp \in [Allocs -> WorkStates] /\ destroyOp \in [Allocs -> WorkStates]
        BY DEF Base, IInv, TypeOK
      <3>7. Absent(x) => createOp'[x] = createOp[x]
        BY <3>1, <3>4, <3>6
      <3>8. destroyOp'[x] = destroyOp[x] \/ destroyOp'[x] = EnsureDestroyOperation(destroyOp[x])
        BY <3>1, <3>6
      <3>9. destroyOp'[x] # "failed" /\ (Absent(x) => destroyOp'[x] = destroyOp[x])
        BY <3>5, <3>8 DEF EnsureDestroyOperation
      <3>10. QED
        BY <3>7, <3>9 DEF SettledStep
    <2>3. QED
      BY <2>1, <2>2
  <1>CreateSettled. ASSUME Base, DestroyNeverFails, NEW a \in Allocs, Create(a), NEW x \in Allocs
                    PROVE  SettledStep(x)
    <2> USE <1>CreateSettled
    <2>1. \/ destroyOp' = destroyOp
          \/ destroyOp' = [destroyOp EXCEPT ![a] = EnsureDestroyOperation(@)]
      BY DEF Create, ClaimProvisionableCreate, MarkClaimedCreateSucceeded, MarkClaimedCreateFailed,
         CreateLeaseExpires, MarkSettingUp, MarkReady, destroyVars
    <2>2. \/ createOp' = createOp
          \/ /\ createOp[a] \in {"pending", "running"}
             /\ \E v : createOp' = [createOp EXCEPT ![a] = v]
      <3>1. CASE ClaimProvisionableCreate(a)
        BY <3>1 DEF ClaimProvisionableCreate, CreateClaimable, Claimable
      <3>2. ASSUME NEW token, MarkClaimedCreateSucceeded(a, token) \/ MarkClaimedCreateFailed(a, token)
            PROVE  createOp[a] = "running" /\ \E v : createOp' = [createOp EXCEPT ![a] = v]
        BY <3>2 DEF MarkClaimedCreateSucceeded, MarkClaimedCreateFailed, HoldsLease
      <3>3. CASE CreateLeaseExpires(a) \/ MarkSettingUp(a) \/ MarkReady(a)
        BY <3>3 DEF CreateLeaseExpires, MarkSettingUp, MarkReady, createVars
      <3>4. QED
        BY <3>1, <3>2, <3>3 DEF Create
    <2>3. destroyOp'[x] # "failed" /\ (Absent(x) => destroyOp'[x] = destroyOp[x])
      BY <2>1, <1>GoneOperations, SMTT(30) DEF EnsureDestroyOperation, Base, IInv, TypeOK
    <2>4. Absent(x) => createOp'[x] = createOp[x]
      BY <2>2, <1>GoneOperations DEF Unfinished, Base, IInv, TypeOK
    <2>5. QED
      BY <2>3, <2>4 DEF SettledStep
  <1>DestroySettled. ASSUME Base, DestroyNeverFails, NEW a \in Allocs, Destroy(a), NEW x \in Allocs
                     PROVE  SettledStep(x)
    <2> USE <1>DestroySettled
    <2>1. \/ createOp' = createOp
          \/ createOp' = [createOp EXCEPT ![a] = TerminalizedCreate(@)]
      BY DEF Destroy, RequestDestroy, ClaimDestroyWork, RetryDestroyWork, MarkClaimedDestroyed,
         DestroyLeaseExpires, ConvergeLocalRestart, createVars
    <2>2. Absent(x) => createOp'[x] = createOp[x]
      BY <2>1, <1>GoneOperations, ZenonT(30) DEF TerminalizedCreate, Base, IInv, TypeOK
    <2>3. \/ destroyOp' = destroyOp
          \/ destroyOp' = [destroyOp EXCEPT ![a] = EnsureDestroyOperation(@)]
          \/ destroyOp' = [destroyOp EXCEPT ![a] = "succeeded"]
          \/ /\ destroyOp[a] \in Unfinished
             /\ \E v \in {"running", "cleanup_required"} : destroyOp' = [destroyOp EXCEPT ![a] = v]
      <3>1. ASSUME NEW o, RequestDestroy(a, o)
            PROVE  destroyOp' = [destroyOp EXCEPT ![a] = EnsureDestroyOperation(@)]
        BY <3>1 DEF RequestDestroy
      <3>2. CASE ClaimDestroyWork(a)
        BY <3>2 DEF ClaimDestroyWork, DestroyClaimable, Claimable
      <3>3. ASSUME NEW token, RetryDestroyWork(a, token)
            PROVE  /\ destroyOp[a] \in Unfinished
                   /\ destroyOp' = [destroyOp EXCEPT ![a] = "cleanup_required"]
        BY <3>3 DEF RetryDestroyWork, HoldsLease, Unfinished
      <3>4. ASSUME NEW token, MarkClaimedDestroyed(a, token) \/ ConvergeLocalRestart(a)
            PROVE  destroyOp' = [destroyOp EXCEPT ![a] = "succeeded"]
        BY <3>4 DEF MarkClaimedDestroyed, ConvergeLocalRestart
      <3>5. CASE DestroyLeaseExpires(a)
        BY <3>5 DEF DestroyLeaseExpires
      <3>6. QED
        BY <3>1, <3>2, <3>3, <3>4, <3>5 DEF Destroy
    <2>4. destroyOp'[x] # "failed" /\ (Absent(x) => destroyOp'[x] = destroyOp[x])
      <3>1. /\ destroyOp \in [Allocs -> WorkStates]
            /\ destroyOp[x] # "failed" /\ (Absent(x) => destroyOp[x] = "succeeded")
        BY <1>GoneOperations DEF Base, IInv, TypeOK
      <3>2. CASE x # a
        BY <2>3, <3>1, <3>2
      <3>3. CASE x = a
        <4>1. \/ destroyOp'[x] \in {destroyOp[x], EnsureDestroyOperation(destroyOp[x]), "succeeded"}
              \/ destroyOp[x] \in Unfinished /\ destroyOp'[x] \in {"running", "cleanup_required"}
          BY <2>3, <3>1, <3>3
        <4>2. QED
          BY <3>1, <4>1 DEF EnsureDestroyOperation, Unfinished
      <3>4. QED
        BY <3>2, <3>3
    <2>5. QED
      BY <2>2, <2>4 DEF SettledStep
  <1>ClientSettled. ASSUME Base, DestroyNeverFails, NEW k \in ClientOps, Client(k), NEW x \in Allocs
                    PROVE  SettledStep(x)
    <2> USE <1>ClientSettled
    <2>1. createOp' = createOp
      BY DEF Client, BeginVerify, RecordChoice, RecordVerifyResult, RequestEnd, ReplayEnd, createVars
    <2>2. \/ destroyOp' = destroyOp
          \/ \E a : destroyOp' = [destroyOp EXCEPT ![a] = EnsureDestroyOperation(@)]
          \/ \E A : destroyOp' = [a \in Allocs |->
                       CASE a \notin A -> destroyOp[a]
                         [] a \in A /\ observed[a] = "absent" -> "succeeded"
                         [] OTHER -> EnsureDestroyOperation(destroyOp[a])]
      <3>1. CASE ReplayEnd(k) \/ \E a \in Allocs : BeginVerify(k, a)
        BY <3>1 DEF ReplayEnd, BeginVerify, destroyVars
      <3>2. ASSUME NEW a, NEW r, IF r = "passed" THEN GradePassed(a) ELSE GradeNotPassed(a)
            PROVE  \/ destroyOp' = destroyOp
                   \/ destroyOp' = [destroyOp EXCEPT ![a] = EnsureDestroyOperation(@)]
        BY <3>2 DEF GradePassed, GradeNotPassed
      <3>3. ASSUME NEW a \in Allocs, NEW r, RecordChoice(k, a, r)
            PROVE  \/ destroyOp' = destroyOp
                   \/ destroyOp' = [destroyOp EXCEPT ![a] = EnsureDestroyOperation(@)]
        BY <3>2, <3>3 DEF RecordChoice
      <3>4. ASSUME NEW r, RecordVerifyResult(k, r)
            PROVE  \/ destroyOp' = destroyOp
                   \/ destroyOp' = [destroyOp EXCEPT ![opAlloc[k]] = EnsureDestroyOperation(@)]
        BY <3>2, <3>4 DEF RecordVerifyResult
      <3>5. ASSUME NEW s \in Sessions, RequestEnd(k, s)
            PROVE  \E A : destroyOp' = [a \in Allocs |->
                       CASE a \notin A -> destroyOp[a]
                         [] a \in A /\ observed[a] = "absent" -> "succeeded"
                         [] OTHER -> EnsureDestroyOperation(destroyOp[a])]
        BY <3>5, Zenon DEF RequestEnd
      <3>6. QED
        BY <3>1, <3>3, <3>4, <3>5 DEF Client
    <2>3. destroyOp'[x] # "failed" /\ (Absent(x) => destroyOp'[x] = destroyOp[x])
      <3>1. /\ destroyOp[x] # "failed" /\ destroyOp \in [Allocs -> WorkStates]
            /\ Absent(x) => destroyOp[x] = "succeeded"
        BY <1>GoneOperations DEF Base, IInv, TypeOK
      <3>2. \/ destroyOp'[x] = destroyOp[x]
            \/ destroyOp'[x] = EnsureDestroyOperation(destroyOp[x])
            \/ destroyOp'[x] = "succeeded"
        BY <2>2, <3>1
      <3>3. QED
        BY <3>1, <3>2 DEF EnsureDestroyOperation
    <2>4. QED
      BY <2>1, <2>3 DEF SettledStep
  <1> SUFFICES ASSUME Base, DestroyNeverFails, [Next]_vars
               PROVE  \A x \in Allocs : SettledStep(x)
    OBVIOUS
  <1> TAKE x \in Allocs
  <1>1. CASE UNCHANGED vars \/ Restart \/ RefuseRecovery \/ Activate
    <2>1. createOp' = createOp /\ destroyOp' = destroyOp
      BY <1>1 DEF vars, createVars, destroyVars, Restart, RefuseRecovery, Activate
    <2>2. QED
      BY <2>1, <1>GoneOperations DEF SettledStep
  <1>2. CASE PrepareRecoveryWork
    <2>1. /\ createOp'[x] = IF createOp[x] = "running" THEN "pending" ELSE createOp[x]
          /\ destroyOp'[x] = IF destroyOp[x] = "running" THEN "cleanup_required" ELSE destroyOp[x]
      BY <1>2 DEF PrepareRecoveryWork
    <2>2. QED
      BY <2>1, <1>GoneOperations DEF SettledStep, Unfinished
  <1>3. QED
    BY <1>1, <1>2, <1>ReserveSettled, <1>CreateSettled, <1>DestroySettled, <1>ClientSettled DEF Next, Control

LEMMA DestroyNeverFailsHolds == Spec => []DestroyNeverFails
  <1>1. Init => DestroyNeverFails
    BY DEF Init, DestroyNeverFails
  <1>2. Base /\ DestroyNeverFails /\ [Next]_vars => DestroyNeverFails'
    BY NextSettled DEF SettledStep, DestroyNeverFails
  <1>3. QED
    BY <1>1, <1>2, BaseHolds, PTL DEF Spec

-----------------------------------------------------------------------------
(***************************************************************************)
(* Attempts, cleanup reasons and grades tell one story.                    *)
(***************************************************************************)

\* The attempt status that goes with a cleanup reason.
VerdictOf(o) == IF o = "completed" THEN "success" ELSE AttemptStatus(o)

StateAgrees(a) ==
    IsCurrent(a) /\ sessState[a[1]] \in Outcomes =>
       outcome[a] \in {sessState[a[1]], "none"}

\* The strengthening of OutcomesAgree: a reason is recorded only for what was
\* given up, and every older generation has one.
Verdicts ==
    \A a \in Allocs :
       /\ desired[a] = "none" => attempt[a] = "none" /\ outcome[a] = "none"
       /\ desired[a] = "active" => outcome[a] = "none"
       /\ desired[a] = "absent" /\ ~IsCurrent(a) => outcome[a] # "none"
       /\ attempt[a] = "success" <=> outcome[a] = "completed"
       /\ attempt[a] = "timeout" <=> outcome[a] = "timed_out"
       /\ outcome[a] = "reset" => a[2] < currentGen[a[1]]
       /\ StateAgrees(a)

\* What a step may do to the verdict on an allocation: nothing; reserve it; give
\* it up with a reason; give it up without one; add the reason of a failure.
VerdictStep(a) ==
    \/ /\ desired'[a] = desired[a] /\ attempt'[a] = attempt[a] /\ outcome'[a] = outcome[a]
       /\ IsCurrent(a)' <=> IsCurrent(a)
    \/ /\ desired[a] = "none" /\ desired'[a] = "active"
       /\ attempt'[a] = "in_progress" /\ outcome'[a] = outcome[a]
    \/ /\ desired[a] = "active" /\ desired'[a] = "absent"
       /\ outcome'[a] \in Outcomes \cup {"reset"} /\ attempt'[a] = VerdictOf(outcome'[a])
       /\ outcome'[a] = "reset" => a[2] < currentGen'[a[1]]
    \/ /\ desired[a] = "active" /\ desired'[a] = "absent" /\ IsCurrent(a)'
       /\ outcome'[a] = outcome[a] /\ attempt'[a] = "failed"
    \/ /\ desired[a] = "absent" /\ desired'[a] = "absent" /\ IsCurrent(a)'
       /\ outcome[a] = "none" /\ outcome'[a] \in {"failed", "provider_lost"}
       /\ attempt[a] = "failed" /\ attempt'[a] = "failed"

\* The sizes of small sets, from the definition of Cardinality.
LEMMA SmallSets == Cardinality({}) = 0 /\ \A x : Cardinality({x}) = 1
  <1> DEFINE Counts(f, S) ==
          f = [T \in SUBSET S |-> IF T = {} THEN 0 ELSE 1 + f[T \ {CHOOSE y : y \in T}]]
  <1>1. \A S : Cardinality(S) = (CHOOSE f : Counts(f, S))[S]
    BY Zenon DEF Cardinality
  <1>2. ASSUME NEW x PROVE Cardinality({x}) = 1
    <2> DEFINE g == [T \in SUBSET {x} |-> IF T = {} THEN 0 ELSE 1]
    <2>1. \A T \in SUBSET {x} : T # {} => T = {x} /\ (CHOOSE y : y \in T) = x
      OBVIOUS
    <2>2. Counts(g, {x})
      <3>1. ASSUME NEW T \in SUBSET {x}
            PROVE  g[T] = IF T = {} THEN 0 ELSE 1 + g[T \ {CHOOSE y : y \in T}]
        BY <2>1
      <3>2. QED
        BY <3>1
    <2> HIDE DEF Counts
    <2>3. PICK f : f = (CHOOSE h : Counts(h, {x}))
      OBVIOUS
    <2>4. Counts(f, {x})
      BY <2>2, <2>3
    <2>5. f[{}] = 0 /\ f[{x}] = 1 + f[{x} \ {CHOOSE y : y \in {x}}]
      BY <2>4 DEF Counts
    <2>6. {x} \ {CHOOSE y : y \in {x}} = {}
      BY <2>1
    <2>7. Cardinality({x}) = f[{x}]
      BY <1>1, <2>3
    <2>8. QED
      BY <2>5, <2>6, <2>7
  <1>3. Cardinality({}) = 0
    <2>1. Counts([T \in SUBSET {} |-> 0], {})
      OBVIOUS
    <2> HIDE DEF Counts
    <2>2. PICK f : f = (CHOOSE h : Counts(h, {}))
      OBVIOUS
    <2>3. Counts(f, {})
      BY <2>1, <2>2
    <2>4. f[{}] = 0
      BY <2>3 DEF Counts
    <2>5. QED
      BY <1>1, <2>2, <2>4
  <1>4. QED
    BY <1>2, <1>3

\* A session is verifying exactly while one verification of its current
\* allocation runs, so its result can be recorded and the environment given
\* back (BeginVerify, recordVerifyResult, convergeInterruptedVerificationsTx).
THEOREM OneVerification == Spec => []VerifyingHasOneOperation
  <1>1. ASSUME Verifies PROVE VerifyingHasOneOperation
    <2> SUFFICES ASSUME NEW s \in Sessions, sessDesired[s] = "active"
                 PROVE  LET running == {k \in Interrupted : opAlloc[k][1] = s} IN
                        /\ sessState[s] = "verifying" <=> Cardinality(running) = 1
                        /\ \A k \in running : IsCurrent(opAlloc[k])
      BY DEF VerifyingHasOneOperation
    <2> DEFINE running == {k \in Interrupted : opAlloc[k][1] = s}
    <2>1. \A k \in running : IsCurrent(opAlloc[k])
      BY <1>1 DEF Verifies
    <2>2. CASE sessState[s] = "verifying"
      <3>1. PICK k \in running : TRUE
        BY <1>1, <2>2 DEF Verifies
      <3>2. running = {k}
        BY <1>1, <3>1 DEF Verifies
      <3>3. QED
        BY <2>1, <2>2, <3>2, SmallSets
    <2>3. CASE sessState[s] # "verifying"
      <3>1. running = {}
        BY <1>1, <2>3, SMTT(30) DEF Verifies
      <3>2. Cardinality(running) = 0
        BY <3>1, SmallSets
      <3>3. QED
        BY <2>1, <2>3, <3>2
    <2>4. QED
      BY <2>2, <2>3
  <1>2. QED
    BY <1>1, VerifiesHolds, PTL

Judged == \A a \in Allocs : VerdictStep(a) /\ StateAgrees(a)'

LEMMA NextJudged ==
    Base /\ Stored /\ Verdicts /\ [Next]_vars =>
           Judged
  \* A step that touches no verdict.
  <1>QuietJudged. ASSUME Base, Verdicts, UNCHANGED <<currentGen, desired, attempt, outcome>>,
                         \A s \in Sessions : sessState'[s] \in Outcomes => sessState'[s] = sessState[s]
                  PROVE  Judged
    BY <1>QuietJudged, AllocParts DEF Judged, VerdictStep, Verdicts, StateAgrees, IsCurrent
  \* A step on one allocation.
  <1>OneJudged. ASSUME Base, Verdicts, NEW a \in Allocs, VerdictStep(a), StateAgrees(a)',
                       \A x \in Allocs \ {a} :
                          desired'[x] = desired[x] /\ attempt'[x] = attempt[x] /\ outcome'[x] = outcome[x],
                       \A s \in Sessions : s # a[1] \/ ~IsCurrent(a) => sessState'[s] = sessState[s],
                       UNCHANGED currentGen
                PROVE  Judged
    <2> USE <1>OneJudged
    <2> SUFFICES ASSUME NEW x \in Allocs \ {a} PROVE VerdictStep(x) /\ StateAgrees(x)'
      BY DEF Judged
    <2>1. VerdictStep(x)
      BY DEF VerdictStep, IsCurrent
    <2>2. IsCurrent(x) => sessState'[x[1]] = sessState[x[1]]
      BY AllocParts, SMTT(30) DEF IsCurrent
    <2>3. StateAgrees(x)'
      BY <2>2 DEF StateAgrees, Verdicts, IsCurrent
    <2>4. QED
      BY <2>1, <2>3
  <1>ReserveSessionJudged. ASSUME Base, Verdicts, NEW s \in Sessions, ReserveSession(s)
                           PROVE  Judged
    <2> USE <1>ReserveSessionJudged
    <2> PICK a : a = <<s, 1>>
      OBVIOUS
    <2>1. /\ sessState[s] = "none"
          /\ sessState' = [sessState EXCEPT ![s] = "queued"]
          /\ currentGen' = [currentGen EXCEPT ![s] = 1]
          /\ desired' = [desired EXCEPT ![a] = "active"]
          /\ attempt' = [attempt EXCEPT ![a] = "in_progress"]
          /\ outcome' = outcome
      BY DEF ReserveSession
    <2>2. a \in Allocs /\ a[1] = s /\ a[2] = 1
      BY AllocMade, BoundsAssumption DEF Generations
    <2>3. currentGen[s] = 0 /\ currentGen'[s] = 1 /\ \A t \in Sessions \ {s} : currentGen'[t] = currentGen[t]
      BY <2>1 DEF Base, IInv, TypeOK, GenerationsReserved
    <2>4. \A x \in Allocs : x[1] = s => desired[x] = "none" /\ (IsCurrent(x)' => x = a)
      <3>1. \A x \in Allocs : x[1] = s => desired[x] = "none"
        BY <2>3, AllocParts, SMTT(30) DEF Base, Rows
      <3>2. \A x \in Allocs : x[1] = s /\ IsCurrent(x)' => x = a
        BY <2>2, <2>3, AllocParts, SMTT(30) DEF IsCurrent
      <3>3. QED
        BY <3>1, <3>2
    <2>5. VerdictStep(a)
      BY <2>1, <2>2, <2>4 DEF VerdictStep, Base, IInv, TypeOK
    <2>6. ASSUME NEW x \in Allocs \ {a}
          PROVE  VerdictStep(x)
      <3>1. desired'[x] = desired[x] /\ attempt'[x] = attempt[x] /\ outcome'[x] = outcome[x]
        BY <2>1 DEF Base, IInv, TypeOK
      <3>2. IsCurrent(x)' <=> IsCurrent(x)
        BY <2>3, <2>4, AllocParts DEF IsCurrent
      <3>3. QED
        BY <3>1, <3>2 DEF VerdictStep
    <2>7. ASSUME NEW x \in Allocs PROVE StateAgrees(x)'
      <3>1. sessState'[s] = "queued" /\ \A t \in Sessions \ {s} : sessState'[t] = sessState[t]
        BY <2>1 DEF Base, IInv, TypeOK
      <3>2. QED
        BY <2>1, <2>3, <3>1, AllocParts, SMTT(30) DEF StateAgrees, Verdicts, IsCurrent, Outcomes
    <2>8. QED
      BY <2>5, <2>6, <2>7 DEF Judged
  <1>ReserveResetJudged. ASSUME Base, Verdicts, NEW s \in Sessions, ReserveReset(s)
                         PROVE  Judged
    <2> USE <1>ReserveResetJudged
    <2> PICK a : a = <<s, currentGen[s]>>
      OBVIOUS
    <2> PICK b : b = <<s, currentGen[s] + 1>>
      OBVIOUS
    <2>1. /\ currentGen[s] \in 1..(MaxGen - 1) /\ desired[a] = "active"
          /\ sessState' = [sessState EXCEPT ![s] = "queued"]
          /\ currentGen' = [currentGen EXCEPT ![s] = @ + 1]
          /\ desired' = [desired EXCEPT ![a] = "absent", ![b] = "active"]
          /\ attempt' = [attempt EXCEPT ![a] = "failed", ![b] = "in_progress"]
          /\ outcome' = [outcome EXCEPT ![a] = FirstOutcome(@, "reset")]
      BY DEF ReserveReset, Gradable, Serviceable
    <2>2. /\ a \in Allocs /\ a[1] = s /\ a[2] = currentGen[s]
          /\ b \in Allocs /\ b[1] = s /\ b[2] = currentGen[s] + 1 /\ a # b
      BY <2>1, AllocMade, BoundsAssumption DEF Generations
    <2>3. /\ currentGen[s] \in Nat /\ currentGen'[s] = currentGen[s] + 1
          /\ \A t \in Sessions \ {s} : currentGen'[t] = currentGen[t]
      BY <2>1, SMTT(30) DEF Base, IInv, TypeOK
    <2>4. VerdictStep(a)
      <3>1. outcome[a] = "none"
        BY <2>1, <2>2 DEF Verdicts
      <3>2. outcome'[a] = "reset" /\ desired'[a] = "absent" /\ attempt'[a] = "failed"
        BY <2>1, <2>2, <3>1 DEF FirstOutcome, Base, IInv, TypeOK
      <3>3. VerdictOf("reset") = "failed"
        BY DEF VerdictOf, AttemptStatus
      <3>4. a[2] < currentGen'[a[1]]
        BY <2>2, <2>3, SMTT(30)
      <3>5. QED
        BY <2>1, <3>2, <3>3, <3>4 DEF VerdictStep
    <2>5. VerdictStep(b)
      <3>1. desired[b] = "none"
        BY <2>2, <2>3, SMTT(30) DEF Base, Rows
      <3>2. outcome'[b] = outcome[b] /\ desired'[b] = "active" /\ attempt'[b] = "in_progress"
        BY <2>1, <2>2 DEF Base, IInv, TypeOK
      <3>3. QED
        BY <3>1, <3>2 DEF VerdictStep
    <2>6. ASSUME NEW x \in Allocs \ {a, b}
          PROVE  VerdictStep(x)
      <3>1. desired'[x] = desired[x] /\ attempt'[x] = attempt[x] /\ outcome'[x] = outcome[x]
        BY <2>1 DEF Base, IInv, TypeOK
      <3>2. IsCurrent(x)' <=> IsCurrent(x)
        BY <2>2, <2>3, AllocParts DEF IsCurrent
      <3>3. QED
        BY <3>1, <3>2 DEF VerdictStep
    <2>7. ASSUME NEW x \in Allocs PROVE StateAgrees(x)'
      <3>1. sessState'[s] = "queued" /\ \A t \in Sessions \ {s} : sessState'[t] = sessState[t]
        BY <2>1 DEF Base, IInv, TypeOK
      <3>2. x[1] # s => outcome'[x] = outcome[x]
        BY <2>1, <2>2 DEF Base, IInv, TypeOK
      <3>3. QED
        BY <2>3, <3>1, <3>2, AllocParts DEF StateAgrees, Verdicts, IsCurrent, Outcomes
    <2>8. QED
      BY <2>4, <2>5, <2>6, <2>7 DEF Judged
  <1>CreateJudged. ASSUME Base, Verdicts, NEW a \in Allocs, Create(a)
                   PROVE  Judged
    <2> USE <1>CreateJudged
    <2>1. CASE ClaimProvisionableCreate(a) \/ CreateLeaseExpires(a)
      BY <2>1, <1>QuietJudged DEF ClaimProvisionableCreate, CreateLeaseExpires, sessVars, allocVars,
         journalVars
    <2>2. ASSUME NEW token, MarkClaimedCreateSucceeded(a, token) \/ MarkSettingUp(a) \/ MarkReady(a)
          PROVE  Judged
      <3>1. UNCHANGED <<currentGen, desired, attempt, outcome>>
        BY <2>2 DEF MarkClaimedCreateSucceeded, MarkSettingUp, MarkReady, allocVars
      <3>2. \A s \in Sessions : sessState'[s] \in Outcomes => sessState'[s] = sessState[s]
        BY <2>2, AllocParts, SMTT(30) DEF MarkClaimedCreateSucceeded, MarkSettingUp, MarkReady,
           SetupAdvanced,
           Outcomes, Base, IInv, TypeOK
      <3>3. QED
        BY <3>1, <3>2, <1>QuietJudged
    <2>3. ASSUME NEW token, MarkClaimedCreateFailed(a, token)
          PROVE  Judged
      <3>1. /\ IsCurrent(a) /\ desired[a] = "active"
            /\ desired' = [desired EXCEPT ![a] = "absent"]
            /\ sessState' = [sessState EXCEPT ![a[1]] = "failed"]
            /\ attempt' = [attempt EXCEPT ![a] = IF @ = "in_progress" THEN "failed" ELSE @]
            /\ UNCHANGED <<currentGen, outcome>>
        BY <2>3 DEF MarkClaimedCreateFailed, Serviceable
      <3>2. attempt[a] = "in_progress" /\ outcome[a] = "none"
        BY <3>1 DEF Base, Rows, Verdicts
      <3>3. desired'[a] = "absent" /\ attempt'[a] = "failed" /\ sessState'[a[1]] = "failed"
        BY <3>1, <3>2, AllocParts DEF Base, IInv, TypeOK
      <3>4. VerdictStep(a) /\ StateAgrees(a)'
        BY <3>1, <3>2, <3>3 DEF VerdictStep, StateAgrees, IsCurrent
      <3>5. \A x \in Allocs \ {a} :
               desired'[x] = desired[x] /\ attempt'[x] = attempt[x] /\ outcome'[x] = outcome[x]
        BY <3>1 DEF Base, IInv, TypeOK
      <3>6. \A t \in Sessions : t # a[1] => sessState'[t] = sessState[t]
        BY <3>1 DEF Base, IInv, TypeOK
      <3>7. QED
        BY <3>1, <3>4, <3>5, <3>6, <1>OneJudged
    <2>4. QED
      BY <2>1, <2>2, <2>3 DEF Create
  <1>RequestDestroyJudged. ASSUME Base, Verdicts, NEW a \in Allocs, NEW o \in DestroyOutcomes, RequestDestroy(a, o)
                           PROVE  Judged
    <2> USE <1>RequestDestroyJudged
    <2>1. /\ desired[a] # "none" /\ OutcomeAcceptable(a, o)
          /\ attempt' = [attempt EXCEPT ![a] = IF IsCurrent(a) THEN AttemptStatus(o) ELSE @]
          /\ sessState' = [sessState EXCEPT ![a[1]] =
                             IF IsCurrent(a) /\ outcome[a] = "none" THEN o ELSE @]
          /\ desired' = [desired EXCEPT ![a] = "absent"]
          /\ outcome' = [outcome EXCEPT ![a] = FirstOutcome(@, o)]
          /\ UNCHANGED currentGen
      BY DEF RequestDestroy
    <2>2. /\ desired'[a] = "absent" /\ outcome'[a] = FirstOutcome(outcome[a], o)
          /\ attempt'[a] = IF IsCurrent(a) THEN AttemptStatus(o) ELSE attempt[a]
          /\ a[1] \in Sessions
          /\ sessState'[a[1]] = IF IsCurrent(a) /\ outcome[a] = "none" THEN o ELSE sessState[a[1]]
          /\ desired[a] \in {"active", "absent"}
      BY <2>1, AllocParts, SMTT(30) DEF Base, IInv, TypeOK
    <2>3. IsCurrent(a)' <=> IsCurrent(a)
      BY <2>1 DEF IsCurrent
    <2>4. o \in Outcomes /\ o # "completed" /\ o # "reset" /\ o # "none"
      BY DEF DestroyOutcomes, Outcomes
    <2>5. outcome[a] \in {"none", o} /\ (IsCurrent(a) => attempt[a] \in {"in_progress", AttemptStatus(o)})
      BY <2>1 DEF OutcomeAcceptable
    <2>6. (desired[a] = "active" => IsCurrent(a)) /\ (desired[a] = "active" <=> attempt[a] = "in_progress")
      BY DEF Base, Rows
    <2>7. ASSUME desired[a] = "active"
          PROVE  VerdictStep(a)
      <3>1. IsCurrent(a) /\ outcome[a] = "none"
        BY <2>6, <2>7 DEF Verdicts
      <3>2. outcome'[a] = o /\ attempt'[a] = AttemptStatus(o) /\ VerdictOf(o) = AttemptStatus(o)
        BY <2>2, <2>4, <3>1 DEF FirstOutcome, VerdictOf
      <3>3. QED
        BY <2>2, <2>4, <2>7, <3>2 DEF VerdictStep
    <2>8. ASSUME desired[a] = "absent" /\ IsCurrent(a) /\ outcome[a] = "none"
          PROVE  VerdictStep(a)
      <3>1. outcome'[a] = o /\ attempt[a] = AttemptStatus(o) /\ attempt'[a] = AttemptStatus(o)
        BY <2>2, <2>5, <2>6, <2>8 DEF FirstOutcome
      <3>2. o # "timed_out"
        BY <2>8, <3>1 DEF Verdicts, AttemptStatus
      <3>3. QED
        BY <2>2, <2>3, <2>8, <3>1, <3>2 DEF VerdictStep, AttemptStatus, DestroyOutcomes
    <2>9. ASSUME desired[a] = "absent" /\ ~(IsCurrent(a) /\ outcome[a] = "none")
          PROVE  VerdictStep(a)
      <3>1. outcome[a] = o
        BY <2>5, <2>9 DEF Verdicts
      <3>2. outcome'[a] = outcome[a] /\ attempt'[a] = attempt[a]
        BY <2>2, <2>4, <2>5, <2>6, <2>9, <3>1 DEF FirstOutcome
      <3>3. QED
        BY <2>2, <2>3, <2>9, <3>2 DEF VerdictStep
    <2>10. VerdictStep(a)
      BY <2>2, <2>7, <2>8, <2>9
    <2>11. StateAgrees(a)'
      <3>1. CASE IsCurrent(a) /\ outcome[a] = "none"
        BY <2>2, <3>1 DEF StateAgrees, FirstOutcome
      <3>2. CASE IsCurrent(a) /\ outcome[a] # "none"
        BY <2>2, <3>2 DEF StateAgrees, FirstOutcome, Verdicts
      <3>3. CASE ~IsCurrent(a)
        BY <2>3, <3>3 DEF StateAgrees
      <3>4. QED
        BY <3>1, <3>2, <3>3
    <2>12. \A x \in Allocs \ {a} :
              desired'[x] = desired[x] /\ attempt'[x] = attempt[x] /\ outcome'[x] = outcome[x]
      BY <2>1 DEF Base, IInv, TypeOK
    <2>13. \A t \in Sessions : t # a[1] \/ ~IsCurrent(a) => sessState'[t] = sessState[t]
      BY <2>1 DEF Base, IInv, TypeOK
    <2>14. QED
      BY <2>1, <2>10, <2>11, <2>12, <2>13, <1>OneJudged
  <1>DestroyJudged. ASSUME Base, Verdicts, NEW a \in Allocs, Destroy(a)
                    PROVE  Judged
    <2> USE <1>DestroyJudged
    <2>1. CASE ClaimDestroyWork(a) \/ DestroyLeaseExpires(a)
      BY <2>1, <1>QuietJudged DEF ClaimDestroyWork, DestroyLeaseExpires, sessVars, allocVars, journalVars
    <2>2. ASSUME NEW token, RetryDestroyWork(a, token) \/ MarkClaimedDestroyed(a, token)
          PROVE  Judged
      <3>1. UNCHANGED <<currentGen, desired, attempt, outcome>>
        BY <2>2 DEF RetryDestroyWork, MarkClaimedDestroyed, sessVars, allocVars
      <3>2. \A s \in Sessions : sessState'[s] \in Outcomes => sessState'[s] = sessState[s]
        <4>1. \/ sessState' = sessState
              \/ sessState' = [sessState EXCEPT ![a[1]] = IF IsCurrent(a) THEN "destroyed" ELSE @]
          BY <2>2 DEF RetryDestroyWork, MarkClaimedDestroyed, sessVars
        <4>2. QED
          BY <4>1, AllocParts, SMTT(30) DEF Outcomes, Base, IInv, TypeOK
      <3>3. QED
        BY <3>1, <3>2, <1>QuietJudged
    <2>3. CASE ConvergeLocalRestart(a)
      <3>1. /\ a \in recoverySet
            /\ desired' = [desired EXCEPT ![a] = "absent"]
            /\ sessState' = [sessState EXCEPT ![a[1]] = IF IsCurrent(a) THEN "destroyed" ELSE @]
            /\ attempt' = [attempt EXCEPT ![a] =
                             IF IsCurrent(a) /\ attempt[a] = "in_progress" THEN "failed" ELSE @]
            /\ UNCHANGED <<currentGen, outcome>>
        BY <2>3 DEF ConvergeLocalRestart, ConvergeNext
      <3>2. /\ desired[a] \in {"active", "absent"} /\ desired'[a] = "absent"
            /\ attempt'[a] = IF IsCurrent(a) /\ attempt[a] = "in_progress" THEN "failed" ELSE attempt[a]
        BY <3>1, ZenonT(30) DEF Base, IInv, TypeOK, GenerationsReserved
      <3>3. /\ desired[a] = "active" => IsCurrent(a)
            /\ desired[a] = "active" <=> attempt[a] = "in_progress"
        BY DEF Base, Rows
      <3>4. VerdictStep(a)
        BY <3>1, <3>2, <3>3 DEF VerdictStep, IsCurrent
      <3>5. StateAgrees(a)'
        BY <3>1, AllocParts DEF StateAgrees, IsCurrent, Outcomes, Base, IInv, TypeOK
      <3>6. \A x \in Allocs \ {a} :
               desired'[x] = desired[x] /\ attempt'[x] = attempt[x] /\ outcome'[x] = outcome[x]
        BY <3>1 DEF Base, IInv, TypeOK
      <3>7. \A t \in Sessions : t # a[1] \/ ~IsCurrent(a) => sessState'[t] = sessState[t]
        BY <3>1 DEF Base, IInv, TypeOK
      <3>8. QED
        BY <3>1, <3>4, <3>5, <3>6, <3>7, <1>OneJudged
    <2>4. QED
      BY <2>1, <2>2, <2>3, <1>RequestDestroyJudged DEF Destroy
  <1>GradeJudged. ASSUME Base, Verdicts, NEW a \in Allocs, GradePassed(a) \/ GradeNotPassed(a), IsCurrent(a),
                         attempt[a] = "in_progress", UNCHANGED currentGen
                  PROVE  Judged
    <2> USE <1>GradeJudged
    <2>1. CASE GradeNotPassed(a)
      <3>1. \A s \in Sessions : sessState'[s] \in Outcomes => sessState'[s] = sessState[s]
        BY <2>1 DEF GradeNotPassed, Outcomes, Base, IInv, TypeOK
      <3>2. QED
        BY <2>1, <3>1, <1>QuietJudged DEF GradeNotPassed
    <2>2. CASE GradePassed(a)
      <3>1. desired[a] = "active" /\ outcome[a] = "none"
        BY DEF Base, Rows, Verdicts
      <3>2. /\ desired'[a] = "absent" /\ attempt'[a] = "success" /\ outcome'[a] = "completed"
            /\ sessState'[a[1]] = "completed"
        BY <2>2, <3>1, AllocParts DEF GradePassed, FirstOutcome, Base, IInv, TypeOK
      <3>3. "completed" \in Outcomes /\ VerdictOf("completed") = "success"
        BY DEF Outcomes, VerdictOf
      <3>4. VerdictStep(a) /\ StateAgrees(a)'
        BY <3>1, <3>2, <3>3 DEF VerdictStep, StateAgrees
      <3>5. \A x \in Allocs \ {a} :
               desired'[x] = desired[x] /\ attempt'[x] = attempt[x] /\ outcome'[x] = outcome[x]
        BY <2>2 DEF GradePassed, Base, IInv, TypeOK
      <3>6. \A t \in Sessions : t # a[1] => sessState'[t] = sessState[t]
        BY <2>2 DEF GradePassed, Base, IInv, TypeOK
      <3>7. QED
        BY <3>4, <3>5, <3>6, <1>OneJudged
    <2>3. QED
      BY <2>1, <2>2
  <1>RequestEndJudged. ASSUME Base, Verdicts, NEW k \in ClientOps, NEW s \in Sessions, RequestEnd(k, s)
                       PROVE  Judged
    <2> USE <1>RequestEndJudged
    <2> PICK a : a = <<s, currentGen[s]>>
      OBVIOUS
    <2>1. /\ sessDesired[s] = "active" /\ UNCHANGED currentGen
          /\ attempt' = [attempt EXCEPT ![a] = IF @ = "in_progress" THEN "failed" ELSE @]
          /\ sessState' = [sessState EXCEPT ![s] = "failed"]
          /\ desired' = [x \in Allocs |-> IF x \in ReservedAllocs(s) THEN "absent" ELSE desired[x]]
          /\ outcome' = [x \in Allocs |->
                IF x \in ReservedAllocs(s) THEN FirstOutcome(outcome[x], "failed") ELSE outcome[x]]
      BY DEF RequestEnd
    <2>2. a \in Allocs /\ a[1] = s /\ a[2] = currentGen[s] /\ currentGen[s] \in Nat
      BY <2>1, CurrentAlloc, SMTT(30) DEF Base, IInv, TypeOK
    <2>3. a \in ReservedAllocs(s) /\ desired[a] = "active" /\ IsCurrent(a)
      <3>1. currentGen[s] > 0
        BY <2>1 DEF Base, IInv, GenerationsReserved
      <3>2. currentGen[s] \in 1..currentGen[s]
        BY <2>2, <3>1
      <3>3. QED
        BY <2>1, <2>2, <3>2 DEF ReservedAllocs, Base, Rows, IsCurrent
    <2>4. attempt[a] = "in_progress" /\ outcome[a] = "none"
      BY <2>2, <2>3 DEF Base, Rows, Verdicts
    <2>5. VerdictStep(a) /\ StateAgrees(a)'
      <3>1. desired'[a] = "absent" /\ attempt'[a] = "failed" /\ outcome'[a] = "failed"
        BY <2>1, <2>2, <2>3, <2>4 DEF FirstOutcome, Base, IInv, TypeOK
      <3>2. sessState'[a[1]] = "failed" /\ "failed" \in Outcomes /\ VerdictOf("failed") = "failed"
        BY <2>1, <2>2 DEF VerdictOf, AttemptStatus, Outcomes, Base, IInv, TypeOK
      <3>3. QED
        BY <2>3, <3>1, <3>2 DEF VerdictStep, StateAgrees
    <2>6. \A x \in Allocs \ {a} :
             desired'[x] = desired[x] /\ attempt'[x] = attempt[x] /\ outcome'[x] = outcome[x]
      <3> SUFFICES ASSUME NEW x \in Allocs \ {a}
                   PROVE  desired'[x] = desired[x] /\ attempt'[x] = attempt[x] /\ outcome'[x] = outcome[x]
        OBVIOUS
      <3>1. attempt'[x] = attempt[x]
        BY <2>1 DEF Base, IInv, TypeOK
      <3>2. CASE x \notin ReservedAllocs(s)
        BY <2>1, <3>1, <3>2
      <3>3. CASE x \in ReservedAllocs(s)
        <4>1. x[1] = s /\ x[2] \in 1..currentGen[s] /\ ~IsCurrent(x)
          BY <2>2, <3>3, AllocParts DEF ReservedAllocs, IsCurrent
        <4>2. desired[x] = "absent"
          BY <2>2, <4>1, AllocParts, SMTT(30) DEF Base, Rows, IInv, TypeOK
        <4>3. outcome[x] # "none"
          BY <4>1, <4>2 DEF Verdicts
        <4>4. QED
          BY <2>1, <3>1, <3>3, <4>2, <4>3 DEF FirstOutcome
      <3>4. QED
        BY <3>2, <3>3
    <2>7. \A t \in Sessions : t # a[1] \/ ~IsCurrent(a) => sessState'[t] = sessState[t]
      BY <2>1, <2>2, <2>3 DEF Base, IInv, TypeOK
    <2>8. QED
      BY <2>1, <2>2, <2>5, <2>6, <2>7, <1>OneJudged
  <1>ClientJudged. ASSUME Base, Stored, Verdicts, NEW k \in ClientOps, Client(k)
                   PROVE  Judged
    <2> USE <1>ClientJudged
    <2>1. ASSUME NEW a \in Allocs, BeginVerify(k, a) PROVE Judged
      <3>1. \A s \in Sessions : sessState'[s] \in Outcomes => sessState'[s] = sessState[s]
        BY <2>1 DEF BeginVerify, Outcomes, Base, IInv, TypeOK
      <3>2. QED
        BY <2>1, <3>1, <1>QuietJudged DEF BeginVerify, allocVars
    <2>2. ASSUME NEW a \in Allocs, NEW result, RecordChoice(k, a, result) PROVE Judged
      BY <2>2, <1>GradeJudged DEF RecordChoice, Gradable, Serviceable
    <2>3. ASSUME NEW result, RecordVerifyResult(k, result) PROVE Judged
      <3>1. opAlloc[k] \in Allocs
        BY <2>3 DEF RecordVerifyResult, Stored
      <3>2. QED
        BY <2>3, <3>1, <1>GradeJudged DEF RecordVerifyResult
    <2>4. CASE ReplayEnd(k)
      BY <2>4, <1>QuietJudged DEF ReplayEnd, sessVars, allocVars, journalVars
    <2>5. QED
      BY <2>1, <2>2, <2>3, <2>4, <1>RequestEndJudged DEF Client
  <1> SUFFICES ASSUME Base, Stored, Verdicts, [Next]_vars
               PROVE  Judged
    OBVIOUS
  <1>1. CASE UNCHANGED vars
    BY <1>1, <1>QuietJudged DEF vars, sessVars, allocVars, journalVars
  <1>2. CASE Restart \/ RefuseRecovery \/ Activate
    BY <1>2, <1>QuietJudged DEF Restart, RefuseRecovery, Activate, sessVars, allocVars, journalVars
  <1>3. CASE PrepareRecoveryWork
    <2>1. \A s \in Sessions : sessState'[s] \in Outcomes => sessState'[s] = sessState[s]
      BY <1>3 DEF PrepareRecoveryWork, RestoredState, Outcomes
    <2>2. QED
      BY <1>3, <2>1, <1>QuietJudged DEF PrepareRecoveryWork, allocVars
  <1>4. QED
    BY <1>1, <1>2, <1>3, <1>ReserveSessionJudged, <1>ReserveResetJudged, <1>CreateJudged, <1>DestroyJudged,
       <1>ClientJudged DEF Next, Control

LEMMA VerdictsHold == Spec => []Verdicts
  <1>JudgedVerdicts. ASSUME Base, Verdicts, TypeOK', [Next]_vars, Judged
                     PROVE  Verdicts'
    <2> USE <1>JudgedVerdicts
    <2> SUFFICES ASSUME NEW a \in Allocs
                 PROVE  /\ desired'[a] = "none" => attempt'[a] = "none" /\ outcome'[a] = "none"
                        /\ desired'[a] = "active" => outcome'[a] = "none"
                        /\ desired'[a] = "absent" /\ ~IsCurrent(a)' => outcome'[a] # "none"
                        /\ attempt'[a] = "success" <=> outcome'[a] = "completed"
                        /\ attempt'[a] = "timeout" <=> outcome'[a] = "timed_out"
                        /\ outcome'[a] = "reset" => a[2] < currentGen'[a[1]]
      BY Zenon DEF Verdicts, Judged, StateAgrees, IsCurrent
    <2>1. currentGen'[a[1]] >= currentGen[a[1]] /\ currentGen[a[1]] \in Nat
          /\ currentGen'[a[1]] \in Nat /\ a[2] \in Nat
      <3>1. a[1] \in Sessions /\ a[2] \in Nat /\ \A t \in Sessions : SessionStep(t)
        BY AllocParts, Steps
      <3>2. QED
        BY <3>1, SMTT(30) DEF SessionStep, Base, IInv, TypeOK
    <2>2. VerdictStep(a) /\ Verdicts
      BY DEF Judged
    <2>3. outcome'[a] = "reset" => a[2] < currentGen'[a[1]]
      <3>1. outcome[a] = "reset" => a[2] < currentGen[a[1]]
        BY <2>2 DEF Verdicts
      <3>2. outcome'[a] = "reset" => outcome[a] = "reset" \/ a[2] < currentGen'[a[1]]
        BY <2>2 DEF VerdictStep
      <3>3. QED
        BY <2>1, <3>1, <3>2, SMTT(30)
    <2>4. attempt[a] = "in_progress" <=> desired[a] = "active"
      BY DEF Base, Rows
    <2>5. QED
      BY <2>2, <2>3, <2>4 DEF VerdictStep, Verdicts, VerdictOf, AttemptStatus, Outcomes
  <1>1. Init => Verdicts
    BY AllocParts, ZenonT(30) DEF Init, Verdicts, StateAgrees, IsCurrent, Outcomes
  <1>2. Base /\ Stored /\ Verdicts /\ [Next]_vars => Verdicts'
    BY NextJudged, <1>JudgedVerdicts, StepKeeps DEF Base
  <1>3. QED
    BY <1>1, <1>2, BaseHolds, StoredHolds, PTL DEF Spec

-----------------------------------------------------------------------------
(***************************************************************************)
(* Grades.                                                                 *)
(***************************************************************************)

\* An attempt succeeded by exactly one passing operation on its allocation.
Grades ==
    /\ \A k \in ClientOps : opState[k] = "passed" =>
          opAlloc[k] \in Allocs /\ attempt[opAlloc[k]] = "success"
    /\ \A a \in Allocs : attempt[a] = "success" =>
          \E k \in ClientOps : opAlloc[k] = a /\ opState[k] = "passed"
    /\ \A k, l \in ClientOps :
          opState[k] = "passed" /\ opState[l] = "passed" /\ opAlloc[k] = opAlloc[l] => k = l

NoGrade ==
    /\ \A k \in ClientOps : opState'[k] = "passed" => opState[k] = "passed"
    /\ \A a \in Allocs : attempt'[a] = "success" => attempt[a] = "success"

\* Operation k passes and a's open attempt succeeds, in one transaction.
OneGrade(k, a) ==
    /\ opAlloc'[k] = a /\ opState'[k] = "passed"
    /\ attempt[a] = "in_progress" /\ attempt'[a] = "success"
    /\ \A l \in ClientOps \ {k} : opState'[l] = "passed" => opState[l] = "passed"
    /\ \A x \in Allocs \ {a} : attempt'[x] = "success" => attempt[x] = "success"

LEMMA GradesHold == Spec => []Grades
  <1>GradeGraded. ASSUME Base, NEW k \in ClientOps, NEW a \in Allocs, NEW result,
                         result = "passed" \/ opState[k] # "passed",
                         opState' = [opState EXCEPT ![k] = result], opAlloc'[k] = a,
                         attempt[a] = "in_progress",
                         IF result = "passed" THEN GradePassed(a) ELSE GradeNotPassed(a)
                  PROVE  NoGrade \/ OneGrade(k, a)
    <2> USE <1>GradeGraded
    <2>1. opState'[k] = result /\ \A l \in ClientOps \ {k} : opState'[l] = opState[l]
      BY SMTT(30) DEF Base, IInv, TypeOK
    <2>2. CASE result = "passed"
      <3>1. attempt' = [attempt EXCEPT ![a] = IF @ = "in_progress" THEN "success" ELSE @]
        BY <2>2 DEF GradePassed
      <3>2. attempt'[a] = "success" /\ \A x \in Allocs \ {a} : attempt'[x] = attempt[x]
        BY <3>1, ZenonT(30) DEF Base, IInv, TypeOK
      <3>3. QED
        BY <2>1, <2>2, <3>2 DEF OneGrade
    <2>3. CASE result # "passed"
      BY <2>1, <2>3 DEF NoGrade, GradeNotPassed
    <2>4. QED
      BY <2>2, <2>3
  <1>ClientGraded. ASSUME Base, Stored, NEW k \in ClientOps, Client(k)
                   PROVE  NoGrade \/ \E a \in Allocs : OneGrade(k, a)
    <2> USE <1>ClientGraded
    <2>1. ASSUME NEW a \in Allocs, BeginVerify(k, a) PROVE NoGrade
      BY <2>1 DEF BeginVerify, allocVars, NoGrade, Base, IInv, TypeOK
    <2>2. ASSUME NEW a \in Allocs, NEW result, RecordChoice(k, a, result)
          PROVE  NoGrade \/ OneGrade(k, a)
      <3>1. /\ opState[k] = "none" /\ attempt[a] = "in_progress"
            /\ opState' = [opState EXCEPT ![k] = result]
            /\ opAlloc' = [opAlloc EXCEPT ![k] = a]
            /\ IF result = "passed" THEN GradePassed(a) ELSE GradeNotPassed(a)
        BY <2>2 DEF RecordChoice, FreshKey, Gradable
      <3>2. opAlloc'[k] = a /\ opState[k] # "passed"
        BY <3>1 DEF Base, IInv, TypeOK
      <3>3. QED
        BY <3>1, <3>2, <1>GradeGraded
    <2>3. ASSUME NEW result, RecordVerifyResult(k, result)
          PROVE  NoGrade \/ \E a \in Allocs : OneGrade(k, a)
      <3> PICK a : a = opAlloc[k]
        OBVIOUS
      <3>1. /\ opState[k] = "running" /\ attempt[a] = "in_progress"
            /\ opState' = [opState EXCEPT ![k] = result]
            /\ opAlloc' = opAlloc
            /\ IF result = "passed" THEN GradePassed(a) ELSE GradeNotPassed(a)
        BY <2>3 DEF RecordVerifyResult
      <3>2. a \in Allocs /\ opAlloc'[k] = a /\ opState[k] # "passed"
        BY <3>1 DEF Stored
      <3>3. QED
        BY <3>1, <3>2, <1>GradeGraded
    <2>4. ASSUME NEW s \in Sessions, RequestEnd(k, s) PROVE NoGrade
      <3>1. /\ opState' = [opState EXCEPT ![k] = "end_pending"]
            /\ \E a : attempt' = [attempt EXCEPT ![a] = IF @ = "in_progress" THEN "failed" ELSE @]
        BY <2>4, Zenon DEF RequestEnd
      <3>2. QED
        BY <3>1, ZenonT(30) DEF NoGrade, Base, IInv, TypeOK
    <2>5. CASE ReplayEnd(k)
      BY <2>5 DEF ReplayEnd, allocVars, NoGrade, Base, IInv, TypeOK
    <2>6. QED
      BY <2>1, <2>2, <2>3, <2>4, <2>5, ZenonT(30) DEF Client
  <1>NextGraded. ASSUME Base, Stored, [Next]_vars
                 PROVE  NoGrade \/ \E k \in ClientOps, a \in Allocs : OneGrade(k, a)
    <2> USE <1>NextGraded
    <2>1. CASE UNCHANGED vars
      BY <2>1 DEF vars, allocVars, clientVars, NoGrade
    <2>2. ASSUME NEW s \in Sessions, ReserveSession(s) \/ ReserveReset(s) PROVE NoGrade
      <3>1. UNCHANGED opState
        BY <2>2 DEF ReserveSession, ReserveReset, clientVars
      <3>2. \/ \E a : attempt' = [attempt EXCEPT ![a] = "in_progress"]
            \/ \E a, b : attempt' = [attempt EXCEPT ![a] = "failed", ![b] = "in_progress"]
        BY <2>2, Zenon DEF ReserveSession, ReserveReset
      <3>3. \A a \in Allocs : attempt'[a] = "success" => attempt[a] = "success"
        BY <3>2 DEF Base, IInv, TypeOK
      <3>4. QED
        BY <3>1, <3>3 DEF NoGrade
    <2>3. ASSUME NEW a \in Allocs, Create(a) PROVE NoGrade
      <3>1. /\ UNCHANGED opState
            /\ \/ attempt' = attempt
               \/ attempt' = [attempt EXCEPT ![a] = IF @ = "in_progress" THEN "failed" ELSE @]
        BY <2>3 DEF Create, ClaimProvisionableCreate, MarkClaimedCreateSucceeded, allocVars,
           MarkClaimedCreateFailed, CreateLeaseExpires, MarkSettingUp, MarkReady, clientVars
      <3>2. QED
        BY <3>1, ZenonT(30) DEF NoGrade, Base, IInv, TypeOK
    <2>4. ASSUME NEW a \in Allocs, Destroy(a) PROVE NoGrade
      <3>1. /\ UNCHANGED opState \/ opState' = [k \in ClientOps |-> SweptClient(k, a)]
            /\ \/ attempt' = attempt
               \/ \E v \in {"failed", "timeout", attempt[a]} : attempt' = [attempt EXCEPT ![a] = v]
        <4>1. ASSUME NEW o \in DestroyOutcomes, RequestDestroy(a, o) PROVE <3>1!1 /\ <3>1!2
          <5>1. /\ UNCHANGED opState
                /\ attempt' = [attempt EXCEPT ![a] = IF IsCurrent(a) THEN AttemptStatus(o) ELSE @]
            BY <4>1 DEF RequestDestroy, clientVars
          <5>2. PICK v : v = IF IsCurrent(a) THEN AttemptStatus(o) ELSE attempt[a]
            OBVIOUS
          <5>3. v \in {"failed", "timeout", attempt[a]} /\ attempt' = [attempt EXCEPT ![a] = v]
            BY <5>1, <5>2 DEF AttemptStatus
          <5>4. QED
            BY <5>1, <5>3
        <4>2. CASE ConvergeLocalRestart(a)
          <5>1. /\ opState' = [k \in ClientOps |-> SweptClient(k, a)]
                /\ attempt' = [attempt EXCEPT ![a] =
                      IF IsCurrent(a) /\ attempt[a] = "in_progress" THEN "failed" ELSE @]
            BY <4>2 DEF ConvergeLocalRestart
          <5>2. PICK v : v = IF IsCurrent(a) /\ attempt[a] = "in_progress" THEN "failed" ELSE attempt[a]
            OBVIOUS
          <5>3. v \in {"failed", "timeout", attempt[a]} /\ attempt' = [attempt EXCEPT ![a] = v]
            BY <5>1, <5>2
          <5>4. QED
            BY <5>1, <5>3
        <4>3. QED
          BY <2>4, <4>1, <4>2 DEF Destroy, ClaimDestroyWork, RetryDestroyWork, MarkClaimedDestroyed,
             DestroyLeaseExpires, allocVars, clientVars
      <3>2. \A x \in Allocs : attempt'[x] = "success" => attempt[x] = "success"
        BY <3>1 DEF Base, IInv, TypeOK
      <3>3. \A k \in ClientOps : opState'[k] = "passed" => opState[k] = "passed"
        BY <3>1 DEF SweptClient
      <3>4. QED
        BY <3>2, <3>3 DEF NoGrade
    <2>5. CASE Control
      <3>1. UNCHANGED attempt
        BY <2>5 DEF Control, Restart, PrepareRecoveryWork, RefuseRecovery, Activate, allocVars
      <3>2. \A k \in ClientOps : opState'[k] = "passed" => opState[k] = "passed"
        <4>1. CASE PrepareRecoveryWork
          BY <4>1 DEF PrepareRecoveryWork
        <4>2. CASE Restart \/ RefuseRecovery \/ Activate
          BY <4>2 DEF Restart, RefuseRecovery, Activate, clientVars
        <4>3. QED
          BY <2>5, <4>1, <4>2 DEF Control
      <3>3. QED
        BY <3>1, <3>2 DEF NoGrade
    <2>6. QED
      BY <2>1, <2>2, <2>3, <2>4, <2>5, <1>ClientGraded DEF Next
  <1>GradesStep. ASSUME Base, Stored, Verdicts, Grades, [Next]_vars
                 PROVE  Grades'
    <2> USE <1>GradesStep
    <2>1. \A a \in Allocs : attempt[a] = "success" => attempt'[a] = "success"
      <3> SUFFICES ASSUME NEW a \in Allocs, attempt[a] = "success" PROVE attempt'[a] = "success"
        OBVIOUS
      <3>1. VerdictStep(a)
        BY NextJudged DEF Judged
      <3>2. desired[a] # "none" /\ desired[a] # "active"
        BY DEF Verdicts, Base, Rows
      <3>3. QED
        BY <3>1, <3>2 DEF VerdictStep
    <2>2. \A k \in ClientOps : opState[k] = "passed" =>
             opState'[k] = "passed" /\ opAlloc'[k] = opAlloc[k]
      BY Steps, Zenon DEF OperationStep
    <2>3. CASE NoGrade
      BY <2>1, <2>2, <2>3, SMTT(30) DEF NoGrade, Grades
    <2>4. ASSUME NEW k \in ClientOps, NEW a \in Allocs, OneGrade(k, a) PROVE Grades'
      <3>1. \A l \in ClientOps : opState[l] = "passed" => opAlloc[l] # a
        BY <2>4 DEF Grades, OneGrade
      <3>2. \A l \in ClientOps \ {k} : opState'[l] = "passed" =>
               opState[l] = "passed" /\ opAlloc'[l] = opAlloc[l]
        BY <2>2, <2>4 DEF OneGrade
      <3>3. opState'[k] = "passed" /\ opAlloc'[k] = a /\ attempt'[a] = "success"
        BY <2>4 DEF OneGrade
      <3>4. \A l \in ClientOps : opState'[l] = "passed" =>
               opAlloc'[l] \in Allocs /\ attempt'[opAlloc'[l]] = "success"
        BY <2>1, <3>2, <3>3, SMTT(30) DEF Grades
      <3>5. \A x \in Allocs : attempt'[x] = "success" =>
               \E l \in ClientOps : opAlloc'[l] = x /\ opState'[l] = "passed"
        BY <2>2, <2>4, <3>3, SMTT(30) DEF Grades, OneGrade
      <3>6. \A l, m \in ClientOps :
               opState'[l] = "passed" /\ opState'[m] = "passed" /\ opAlloc'[l] = opAlloc'[m] => l = m
        BY <3>1, <3>2, <3>3, SMTT(30) DEF Grades
      <3>7. QED
        BY <3>4, <3>5, <3>6 DEF Grades
    <2>5. QED
      BY <2>3, <2>4, <1>NextGraded
  <1>1. Init => Grades
    BY DEF Init, Grades
  <1>2. Base /\ Stored /\ Verdicts /\ Grades /\ [Next]_vars => Grades'
    BY <1>GradesStep
  <1>3. QED
    BY <1>1, <1>2, BaseHolds, StoredHolds, VerdictsHold, PTL DEF Spec

\* The grade, the attempt, the reason of the cleanup and the session's state
\* agree for every allocation, whichever of a pass, a timeout, an end, a failure
\* and a reset came first (recordVerifyResult, requestDestroy, ReserveReset).
THEOREM OneStory == Spec => []OutcomesAgree
  <1>1. ASSUME Verdicts, Grades PROVE OutcomesAgree
    <2> SUFFICES ASSUME NEW a \in Allocs
                 PROVE  LET passed == {k \in ClientOps : opAlloc[k] = a /\ opState[k] = "passed"} IN
                        attempt[a] = "success" <=> Cardinality(passed) = 1
      BY <1>1 DEF OutcomesAgree, Verdicts, StateAgrees
    <2> DEFINE passed == {k \in ClientOps : opAlloc[k] = a /\ opState[k] = "passed"}
    <2>1. CASE attempt[a] = "success"
      <3>1. PICK k \in passed : TRUE
        BY <1>1, <2>1 DEF Grades
      <3>2. passed = {k}
        BY <1>1, <3>1, SMTT(30) DEF Grades
      <3>3. Cardinality(passed) = 1
        BY <3>2, SmallSets
      <3>4. QED
        BY <2>1, <3>3
    <2>2. CASE attempt[a] # "success"
      <3>1. passed = {}
        BY <1>1, <2>2, SMTT(30) DEF Grades
      <3>2. Cardinality(passed) = 0
        BY <3>1, SmallSets
      <3>3. QED
        BY <2>2, <3>2
    <2>3. QED
      BY <2>1, <2>2
  <1>2. QED
    BY <1>1, VerdictsHold, GradesHold, PTL

=============================================================================
