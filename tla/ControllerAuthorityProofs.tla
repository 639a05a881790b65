--------------------- MODULE ControllerAuthorityProofs ---------------------
(***************************************************************************)
(* Theorems about ControllerAuthority, for any number of controllers and   *)
(* any bounds.                                                             *)
(***************************************************************************)
EXTENDS ControllerAuthority, TLAPS

\* The provers for the leaves that name none, and their time limits.
USE ZenonT(4), SMTT(30)

-----------------------------------------------------------------------------
(***************************************************************************)
(* The inductive invariant.                                                *)
(***************************************************************************)

\* Epochs are issued once, by the process that holds the lock, and never
\* exceed the epoch row.
EpochsIssued ==
    \A c \in Controllers :
       /\ epoch[c] <= dbEpoch
       /\ proc[c] = "off" \/ lease[c] = "locked" => epoch[c] = 0
       /\ snapshot[c] > 0 => epoch[c] > 0
       /\ snapshot[c] <= Len(commits) + 1

\* The row lock belongs to an open transaction of the current epoch.
RowLockFences ==
    \A c \in Controllers : tx[c] => row = c /\ epoch[c] = dbEpoch

CommitsBounded == \A i \in 1..Len(commits) : commits[i] <= dbEpoch

IInv ==
    /\ TypeOK
    /\ HolderIsCurrent
    /\ EpochsIssued
    /\ RowLockFences
    /\ CommitsBounded
    /\ CommitsInEpochOrder
    /\ RecoverySnapshotStable

-----------------------------------------------------------------------------
(***************************************************************************)
(* Type correctness.                                                       *)
(***************************************************************************)

\* The steps of the lease (controller_lease.go) preserve the types.
LEMMA LeaseTypes ==
    ASSUME TypeOK, NEW c \in Controllers, Lease(c)
    PROVE  TypeOK'
  <1>1. CASE TryAdvisoryLock(c)
    BY <1>1 DEF TypeOK, TryAdvisoryLock
  <1>2. CASE IssueEpoch(c)
    BY <1>2, LimitsAssumption, SMTT(30) DEF TypeOK, IssueEpoch, NextEpoch, EpochLeft
  <1>3. CASE SessionEnds(c)
    BY <1>3 DEF TypeOK, SessionEnds, procVars
  <1>4. CASE ProbeFails(c)
    BY <1>4 DEF TypeOK, ProbeFails, dbVars
  <1>5. CASE FenceOnLoss(c)
    BY <1>5 DEF TypeOK, FenceOnLoss, dbVars, procVars
  <1>6. CASE DiscardLease(c)
    BY <1>6 DEF TypeOK, DiscardLease, Released
  <1>7. CASE Close(c)
    BY <1>7 DEF TypeOK, Close, dbVars
  <1>8. CASE FinishNormalClose(c)
    BY <1>8 DEF TypeOK, FinishNormalClose, Released
  <1>9. QED
    BY <1>1, <1>2, <1>3, <1>4, <1>5, <1>6, <1>7, <1>8 DEF Lease

\* The transactions (lockControllerEpochTx and what follows it) do.
LEMMA MutationTypes ==
    ASSUME TypeOK, NEW c \in Controllers, Mutation(c)
    PROVE  TypeOK'
  <1>1. CASE TxBegin(c)
    BY <1>1 DEF TypeOK, TxBegin, EpochRowLock, procVars
  <1>2. CASE TxCommit(c)
    BY <1>2, SMTT(30) DEF TypeOK, TxCommit, TxEnds, procVars
  <1>3. CASE TxAbort(c)
    BY <1>3 DEF TypeOK, TxAbort, TxEnds, procVars
  <1>4. QED
    BY <1>1, <1>2, <1>3 DEF Mutation

\* The steps of main do.
LEMMA ProcessTypes ==
    ASSUME TypeOK, NEW c \in Controllers, Process(c)
    PROVE  TypeOK'
  <1>1. CASE SnapshotLocalRecovery(c)
    BY <1>1, SMTT(30) DEF TypeOK, SnapshotLocalRecovery, dbVars
  <1>2. CASE Activate(c)
    BY <1>2 DEF TypeOK, Activate, dbVars
  <1>3. CASE Shutdown(c)
    BY <1>3 DEF TypeOK, Shutdown, dbVars
  <1>4. CASE Exit(c)
    BY <1>4 DEF TypeOK, Exit, Idle, Stages, CallKinds, dbVars
  <1>5. QED
    BY <1>1, <1>2, <1>3, <1>4 DEF Process

\* A provider call (authority.go) changes nothing but itself.
LEMMA ProviderCallTypes ==
    ASSUME TypeOK, NEW c \in Controllers, ProviderCall(c)
    PROVE  TypeOK' /\ UNCHANGED <<dbVars, procVars, gate>>
  <1>1. ASSUME NEW kind \in Kinds, EnterCall(c, kind)
        PROVE  TypeOK' /\ UNCHANGED <<dbVars, procVars, gate>>
    BY <1>1, KindsAssumption DEF TypeOK, EnterCall, Stages, dbVars, procVars
  <1>2. ASSUME NEW stage \in Stages, SetStage(c, stage)
        PROVE  TypeOK' /\ UNCHANGED <<dbVars, procVars, gate>>
    BY <1>2, ZenonT(30) DEF TypeOK, SetStage, dbVars, procVars
  <1>3. CASE CancelContext(c)
    BY <1>3, ZenonT(30) DEF TypeOK, CancelContext, dbVars, procVars
  <1>4. {"idle", "bound", "running", "returned", "answered"} \subseteq Stages
    BY DEF Stages
  <1>5. QED
    BY <1>1, <1>2, <1>3, <1>4 DEF ProviderCall, BindContext, StartCall, RefuseCall,
       ProviderReturns, AnswerCall, RejectCall, EndCall

LEMMA TypeStep == TypeOK /\ [Next]_vars => TypeOK'
  <1> SUFFICES ASSUME TypeOK, [Next]_vars PROVE TypeOK'
    OBVIOUS
  <1>1. CASE UNCHANGED vars
    BY <1>1 DEF TypeOK, vars, dbVars, procVars
  <1>2. CASE Next
    BY <1>2, LeaseTypes, MutationTypes, ProcessTypes, ProviderCallTypes DEF Next
  <1>3. QED
    BY <1>1, <1>2

LEMMA TypeInit == Init => TypeOK
  BY LimitsAssumption, SMTT(30) DEF Init, TypeOK, Idle, CallKinds, Stages

\* Every variable keeps its type, whatever the interleaving of controllers.
THEOREM TypeCorrect == Spec => []TypeOK
  BY TypeInit, TypeStep, PTL DEF Spec

-----------------------------------------------------------------------------
(***************************************************************************)
(* Epoch order.                                                            *)
(***************************************************************************)

LEMMA InitIInv == Init => IInv
  <1> SUFFICES ASSUME Init PROVE IInv
    OBVIOUS
  <1>1. TypeOK
    BY TypeInit
  <1>2. HolderIsCurrent /\ EpochsIssued /\ RowLockFences
    BY DEF Init, HolderIsCurrent, EpochsIssued, RowLockFences
  <1>3. CommitsBounded /\ CommitsInEpochOrder /\ RecoverySnapshotStable
    BY DEF Init, CommitsBounded, CommitsInEpochOrder, RecoverySnapshotStable
  <1>4. QED
    BY <1>1, <1>2, <1>3 DEF IInv

\* A step that leaves the epochs, the transactions and the recovery snapshots
\* alone, and at most releases the lock, disturbs nothing.
LEMMA QuietStep ==
    ASSUME IInv, TypeOK',
           UNCHANGED <<dbEpoch, row, tx, commits, epoch, snapshot>>,
           lock' \in {lock, None},
           \A c \in Controllers : proc'[c] = "off" => proc[c] = "off",
           \A c \in Controllers : lease'[c] = "locked" => lease[c] = "locked"
    PROVE  IInv'
  <1>1. HolderIsCurrent'
    BY NoneAssumption DEF IInv, HolderIsCurrent
  <1>2. EpochsIssued' /\ RowLockFences'
    BY DEF IInv, EpochsIssued, RowLockFences
  <1>3. CommitsBounded' /\ CommitsInEpochOrder' /\ RecoverySnapshotStable'
    BY DEF IInv, CommitsBounded, CommitsInEpochOrder, RecoverySnapshotStable
  <1>4. QED
    BY <1>1, <1>2, <1>3 DEF IInv

\* The lock is taken by a process that has no epoch yet.
LEMMA LockStep ==
    ASSUME IInv, TypeOK', NEW c \in Controllers, TryAdvisoryLock(c)
    PROVE  IInv'
  <1>1. epoch[c] = 0
    BY DEF IInv, EpochsIssued, TryAdvisoryLock
  <1>2. HolderIsCurrent'
    BY <1>1 DEF IInv, HolderIsCurrent, TryAdvisoryLock
  <1>3. EpochsIssued' /\ RowLockFences'
    BY <1>1, SMTT(30) DEF IInv, TypeOK, EpochsIssued, RowLockFences, TryAdvisoryLock
  <1>4. CommitsBounded' /\ CommitsInEpochOrder' /\ RecoverySnapshotStable'
    BY DEF IInv, CommitsBounded, CommitsInEpochOrder, RecoverySnapshotStable,
           TryAdvisoryLock
  <1>5. QED
    BY <1>2, <1>3, <1>4 DEF IInv

\* A new epoch is above every issued one, and is issued while no transaction
\* holds the row, so no transaction of an older epoch is open.
LEMMA EpochStep ==
    ASSUME IInv, TypeOK', NEW c \in Controllers, IssueEpoch(c)
    PROVE  IInv'
  <1>1. /\ epoch[c] = 0 /\ snapshot[c] = 0
        /\ \A d \in Controllers : ~tx[d]
    <2>1. /\ lease[c] = "locked" /\ row = None
          /\ snapshot[c] \in Nat
      BY DEF IInv, TypeOK, IssueEpoch
    <2>2. epoch[c] = 0 /\ snapshot[c] = 0
      BY <2>1 DEF IInv, EpochsIssued
    <2>3. \A d \in Controllers : ~tx[d]
      BY <2>1, NoneAssumption DEF IInv, RowLockFences
    <2>4. QED
      BY <2>2, <2>3
  <1>2. /\ dbEpoch \in Nat /\ dbEpoch' = dbEpoch + 1
        /\ epoch \in [Controllers -> Nat]
        /\ epoch' = [epoch EXCEPT ![c] = dbEpoch + 1]
        /\ lock = c /\ lock' = c
        /\ UNCHANGED <<row, tx, commits, snapshot, proc>>
        /\ lease \in [Controllers -> {"off", "locked", "active", "closing", "lost", "done"}]
        /\ lease' = [lease EXCEPT ![c] = "active"]
        /\ proc[c] = "starting"
    BY LimitsAssumption, SMTT(30) DEF IInv, TypeOK, IssueEpoch, NextEpoch
  <1>3. HolderIsCurrent'
    BY <1>2, SMTT(30) DEF IInv, HolderIsCurrent, EpochsIssued
  <1>4. EpochsIssued'
    BY <1>1, <1>2 DEF IInv, EpochsIssued
  <1>5. RowLockFences'
    BY <1>1, <1>2 DEF RowLockFences
  <1>6. CommitsBounded'
    <2>1. commits \in Seq(Nat)
      BY DEF IInv, TypeOK
    <2>2. \A i \in 1..Len(commits) : commits[i] \in Nat
      BY <2>1
    <2>3. QED
      BY <1>2, <2>2 DEF IInv, CommitsBounded
  <1>7. CommitsInEpochOrder'
    BY <1>2 DEF IInv, CommitsInEpochOrder
  <1>8. RecoverySnapshotStable'
    BY <1>1, <1>2, SMTT(30) DEF IInv, RecoverySnapshotStable
  <1>9. QED
    BY <1>3, <1>4, <1>5, <1>6, <1>7, <1>8 DEF IInv

\* A transaction starts by taking the row lock under its own, current epoch.
LEMMA BeginStep ==
    ASSUME IInv, TypeOK', NEW c \in Controllers, TxBegin(c)
    PROVE  IInv'
  <1>1. HolderIsCurrent' /\ EpochsIssued'
    BY DEF IInv, HolderIsCurrent, EpochsIssued, TxBegin, procVars
  <1>2. RowLockFences'
    BY NoneAssumption, SMTT(30) DEF IInv, TypeOK, RowLockFences, TxBegin, EpochRowLock, procVars
  <1>3. CommitsBounded' /\ CommitsInEpochOrder' /\ RecoverySnapshotStable'
    BY DEF IInv, CommitsBounded, CommitsInEpochOrder, RecoverySnapshotStable,
           TxBegin, procVars
  <1>4. QED
    BY <1>1, <1>2, <1>3 DEF IInv

\* A commit carries the current epoch, which bounds every earlier commit and
\* the epoch of every controller that took a snapshot.
LEMMA CommitStep ==
    ASSUME IInv, TypeOK', NEW c \in Controllers, TxCommit(c)
    PROVE  IInv'
  <1>1. /\ commits \in Seq(Nat) /\ epoch \in [Controllers -> Nat] /\ dbEpoch \in Nat
        /\ snapshot \in [Controllers -> Nat]
        /\ tx \in [Controllers -> BOOLEAN]
        /\ tx[c] /\ row = c /\ epoch[c] = dbEpoch
        /\ tx' = [tx EXCEPT ![c] = FALSE]
        /\ UNCHANGED <<lock, dbEpoch, epoch, proc, lease, snapshot>>
        /\ commits' = Append(commits, dbEpoch)
    BY LimitsAssumption, SMTT(30) DEF IInv, TypeOK, RowLockFences, TxCommit, TxEnds, procVars
  <1>2. /\ Len(commits') = Len(commits) + 1
        /\ Len(commits) \in Nat
        /\ commits'[Len(commits) + 1] = dbEpoch
        /\ \A i \in 1..Len(commits) : commits'[i] = commits[i]
    BY <1>1
  <1>3. HolderIsCurrent'
    BY <1>1 DEF IInv, HolderIsCurrent
  <1>4. EpochsIssued'
    BY <1>1, <1>2, SMTT(30) DEF IInv, EpochsIssued
  <1>5. RowLockFences'
    BY <1>1 DEF IInv, RowLockFences
  <1>6. CommitsBounded'
    BY <1>1, <1>2, SMTT(30) DEF IInv, CommitsBounded
  <1>7. CommitsInEpochOrder'
    <2> SUFFICES ASSUME NEW i \in 1..Len(commits'), NEW j \in 1..Len(commits'), i <= j
                 PROVE  commits'[i] <= commits'[j]
      BY DEF CommitsInEpochOrder
    <2>1. CASE j <= Len(commits)
      BY <1>2, <2>1 DEF IInv, CommitsInEpochOrder
    <2>2. CASE j = Len(commits) + 1
      BY <1>1, <1>2, <2>2, SMTT(30) DEF IInv, CommitsBounded
    <2>3. QED
      BY <1>2, <2>1, <2>2
  <1>8. RecoverySnapshotStable'
    <2> SUFFICES ASSUME NEW d \in Controllers, snapshot[d] > 0,
                        NEW i \in snapshot[d]..Len(commits')
                 PROVE  epoch[d] <= commits'[i]
      BY <1>1 DEF RecoverySnapshotStable
    <2>1. CASE i <= Len(commits)
      BY <1>1, <1>2, <2>1, SMTT(30) DEF IInv, RecoverySnapshotStable
    <2>2. CASE i = Len(commits) + 1
      BY <1>1, <1>2, <2>2 DEF IInv, EpochsIssued
    <2>3. QED
      BY <1>1, <1>2, <2>1, <2>2
  <1>9. QED
    BY <1>3, <1>4, <1>5, <1>6, <1>7, <1>8 DEF IInv

LEMMA AbortStep ==
    ASSUME IInv, TypeOK', NEW c \in Controllers, TxAbort(c)
    PROVE  IInv'
  <1>1. HolderIsCurrent' /\ EpochsIssued'
    BY DEF IInv, HolderIsCurrent, EpochsIssued, TxAbort, TxEnds, procVars
  <1>2. RowLockFences'
    BY SMTT(30) DEF IInv, TypeOK, RowLockFences, TxAbort, TxEnds, procVars
  <1>3. CommitsBounded' /\ CommitsInEpochOrder' /\ RecoverySnapshotStable'
    BY DEF IInv, CommitsBounded, CommitsInEpochOrder, RecoverySnapshotStable,
           TxAbort, TxEnds, procVars
  <1>4. QED
    BY <1>1, <1>2, <1>3 DEF IInv

\* A snapshot covers every commit there is.
LEMMA SnapshotStep ==
    ASSUME IInv, TypeOK', NEW c \in Controllers, SnapshotLocalRecovery(c)
    PROVE  IInv'
  <1>1. /\ commits \in Seq(Nat) /\ Len(commits) \in Nat
        /\ snapshot \in [Controllers -> Nat]
        /\ snapshot' = [snapshot EXCEPT ![c] = 1 + Len(commits)]
        /\ epoch[c] > 0
        /\ UNCHANGED <<lock, dbEpoch, row, tx, commits, epoch, proc, lease>>
    BY SMTT(30) DEF IInv, TypeOK, SnapshotLocalRecovery, dbVars
  <1>2. HolderIsCurrent' /\ RowLockFences' /\ CommitsBounded' /\ CommitsInEpochOrder'
    BY <1>1 DEF IInv, HolderIsCurrent, RowLockFences, CommitsBounded, CommitsInEpochOrder
  <1>3. EpochsIssued'
    BY <1>1, SMTT(30) DEF IInv, EpochsIssued
  <1>4. RecoverySnapshotStable'
    BY <1>1, SMTT(30) DEF IInv, RecoverySnapshotStable
  <1>5. QED
    BY <1>2, <1>3, <1>4 DEF IInv

LEMMA NextIInv == IInv /\ [Next]_vars => IInv'
  <1> SUFFICES ASSUME IInv, [Next]_vars PROVE IInv'
    OBVIOUS
  <1>1. TypeOK /\ TypeOK'
    BY TypeStep DEF IInv
  <1>2. CASE UNCHANGED vars
    BY <1>1, <1>2, QuietStep DEF vars, dbVars, procVars
  <1>3. ASSUME NEW c \in Controllers, Lease(c) PROVE IInv'
    <2>1. CASE TryAdvisoryLock(c)
      BY <1>1, <2>1, LockStep
    <2>2. CASE IssueEpoch(c)
      BY <1>1, <2>2, EpochStep
    <2>3. CASE SessionEnds(c) \/ ProbeFails(c) \/ FenceOnLoss(c) \/ Close(c)
      BY <1>1, <2>3, QuietStep, SMTT(60) DEF TypeOK, SessionEnds, ProbeFails,
         FenceOnLoss, Close, dbVars, procVars
    <2>4. CASE DiscardLease(c) \/ FinishNormalClose(c)
      BY <1>1, <2>4, QuietStep, SMTT(30) DEF TypeOK, DiscardLease, FinishNormalClose, Released
    <2>5. QED
      BY <1>3, <2>1, <2>2, <2>3, <2>4 DEF Lease
  <1>4. ASSUME NEW c \in Controllers, Mutation(c) PROVE IInv'
    BY <1>1, <1>4, BeginStep, CommitStep, AbortStep DEF Mutation
  <1>5. ASSUME NEW c \in Controllers, Process(c) PROVE IInv'
    <2>1. CASE SnapshotLocalRecovery(c)
      BY <1>1, <2>1, SnapshotStep
    <2>2. CASE Activate(c) \/ Shutdown(c) \/ Exit(c)
      BY <1>1, <2>2, QuietStep, SMTT(60) DEF TypeOK, Activate, Shutdown, Exit,
         dbVars
    <2>3. QED
      BY <1>5, <2>1, <2>2 DEF Process
  <1>6. ASSUME NEW c \in Controllers, ProviderCall(c) PROVE IInv'
    <2>1. UNCHANGED <<dbVars, procVars, gate>>
      BY <1>1, <1>6, ProviderCallTypes
    <2>2. QED
      BY <1>1, <2>1, QuietStep DEF dbVars, procVars
  <1>7. QED
    BY <1>2, <1>3, <1>4, <1>5, <1>6 DEF Next

LEMMA IInvHolds == Spec => []IInv
  BY InitIInv, NextIInv, PTL DEF Spec

\* The advisory lock and the epoch row name the same controller, and epochs are
\* never shared (acquireControllerLease).
THEOREM LeaseAndEpochAgree == Spec => []HolderIsCurrent
  <1>1. IInv => HolderIsCurrent
    BY DEF IInv
  <1>2. QED
    BY <1>1, IInvHolds, PTL

\* Durable mutations of any number of controllers commit in epoch order: a
\* stale controller commits nothing after a newer one has (lockControllerEpochTx).
THEOREM EpochOrder == Spec => []CommitsInEpochOrder
  <1>1. IInv => CommitsInEpochOrder
    BY DEF IInv
  <1>2. QED
    BY <1>1, IInvHolds, PTL

\* What startup recovery read is never changed by an older controller.
THEOREM SnapshotStability == Spec => []RecoverySnapshotStable
  <1>1. IInv => RecoverySnapshotStable
    BY DEF IInv
  <1>2. QED
    BY <1>1, IInvHolds, PTL

-----------------------------------------------------------------------------
(***************************************************************************)
(* The gate and the lease.                                                 *)
(***************************************************************************)

\* The gate follows the lease and main: it is fenced only after a loss, ready
\* only while main serves, and closed before the lease is given up.
GateFollows ==
    \A c \in Controllers :
       /\ proc[c] = "off" => lease[c] = "off"
       /\ gate[c] = "fenced" => lease[c] \in {"lost", "done"}
       /\ proc[c] = "serving" => gate[c] \in {"ready", "fenced"}
       /\ proc[c] = "stopping" => gate[c] \in {"draining", "fenced"}
       /\ lease[c] \in {"closing", "done"} => gate[c] \in {"draining", "fenced"}

GInv == TypeOK /\ GateFollows /\ CleanupSurvivesDrain

LEMMA InitGInv == Init => GInv
  <1> SUFFICES ASSUME Init PROVE GInv
    OBVIOUS
  <1>1. TypeOK
    BY TypeInit
  <1>2. GateFollows
    BY DEF Init, GateFollows
  <1>3. CleanupSurvivesDrain
    BY DEF Init, CleanupSurvivesDrain, Idle
  <1>4. QED
    BY <1>1, <1>2, <1>3 DEF GInv

\* A step that leaves the calls alone and fences no less disturbs no cleanup.
LEMMA CallsKept ==
    ASSUME GInv, call' = call,
           \A d \in Controllers : gate[d] = "fenced" => gate'[d] = "fenced",
           \A d \in Controllers : lease[d] \in {"lost", "done"} => lease'[d] \in {"lost", "done"}
    PROVE  CleanupSurvivesDrain'
  BY DEF GInv, CleanupSurvivesDrain

\* The steps of the lease: the gate is fenced before a lost session is
\* discarded (finishUnexpectedLoss), and Close comes after BeginDrain.
LEMMA LeaseGate ==
    ASSUME GInv, NEW c \in Controllers, Lease(c)
    PROVE  GateFollows' /\ CleanupSurvivesDrain'
  <1>0. /\ proc \in [Controllers -> {"off", "starting", "serving", "stopping", "exited"}]
        /\ lease \in [Controllers -> {"off", "locked", "active", "closing", "lost", "done"}]
        /\ gate \in [Controllers -> {"recovering", "ready", "draining", "fenced"}]
    BY DEF GInv, TypeOK
  <1>1. CASE TryAdvisoryLock(c)
    <2>1. /\ proc[c] = "off" /\ lease[c] = "off"
          /\ proc' = [proc EXCEPT ![c] = "starting"]
          /\ lease' = [lease EXCEPT ![c] = "locked"]
          /\ gate' = gate /\ call' = call
      BY <1>1 DEF TryAdvisoryLock, GInv, GateFollows
    <2>2. GateFollows'
      BY <1>0, <2>1 DEF GInv, GateFollows
    <2>3. CleanupSurvivesDrain'
      BY <1>0, <2>1, CallsKept
    <2>4. QED
      BY <2>2, <2>3
  <1>2. CASE IssueEpoch(c)
    <2>1. /\ lease[c] = "locked" /\ proc[c] = "starting"
          /\ lease' = [lease EXCEPT ![c] = "active"]
          /\ gate' = gate /\ call' = call /\ proc' = proc
      BY <1>2 DEF IssueEpoch
    <2>2. GateFollows'
      BY <1>0, <2>1 DEF GInv, GateFollows
    <2>3. CleanupSurvivesDrain'
      BY <1>0, <2>1, CallsKept
    <2>4. QED
      BY <2>2, <2>3
  <1>3. CASE SessionEnds(c)
    BY <1>3, CallsKept DEF SessionEnds, procVars, GInv, GateFollows
  <1>4. CASE ProbeFails(c)
    <2>1. /\ lease[c] = "active" /\ proc[c] # "off"
          /\ lease' = [lease EXCEPT ![c] = "lost"]
          /\ gate' = gate /\ call' = call /\ proc' = proc
      BY <1>4 DEF ProbeFails, Running
    <2>2. GateFollows'
      BY <1>0, <2>1 DEF GInv, GateFollows
    <2>3. CleanupSurvivesDrain'
      BY <1>0, <2>1, CallsKept
    <2>4. QED
      BY <2>2, <2>3
  <1>5. CASE FenceOnLoss(c)
    <2>1. /\ lease[c] = "lost"
          /\ gate' = [gate EXCEPT ![c] = "fenced"]
          /\ lease' = lease /\ call' = call /\ proc' = proc
      BY <1>5 DEF FenceOnLoss, procVars
    <2>2. GateFollows'
      BY <1>0, <2>1 DEF GInv, GateFollows
    <2>3. CleanupSurvivesDrain'
      BY <1>0, <2>1, CallsKept
    <2>4. QED
      BY <2>2, <2>3
  <1>6. CASE DiscardLease(c)
    <2>1. /\ lease[c] = "lost" /\ gate[c] = "fenced" /\ proc[c] # "off"
          /\ lease' = [lease EXCEPT ![c] = "done"]
          /\ gate' = gate /\ call' = call /\ proc' = proc
      BY <1>6 DEF DiscardLease, Running
    <2>2. GateFollows'
      BY <1>0, <2>1 DEF GInv, GateFollows
    <2>3. CleanupSurvivesDrain'
      BY <1>0, <2>1, CallsKept
    <2>4. QED
      BY <2>2, <2>3
  <1>7. CASE Close(c)
    <2>1. /\ lease[c] = "active" /\ proc[c] = "stopping"
          /\ lease' = [lease EXCEPT ![c] = "closing"]
          /\ gate' = gate /\ call' = call /\ proc' = proc
      BY <1>7 DEF Close
    <2>2. GateFollows'
      BY <1>0, <2>1 DEF GInv, GateFollows
    <2>3. CleanupSurvivesDrain'
      BY <1>0, <2>1, CallsKept
    <2>4. QED
      BY <2>2, <2>3
  <1>8. CASE FinishNormalClose(c)
    <2>1. /\ lease[c] = "closing" /\ proc[c] # "off"
          /\ lease' = [lease EXCEPT ![c] = "done"]
          /\ gate' = gate /\ call' = call /\ proc' = proc
      BY <1>8 DEF FinishNormalClose, Running
    <2>2. GateFollows'
      BY <1>0, <2>1 DEF GInv, GateFollows
    <2>3. CleanupSurvivesDrain'
      BY <1>0, <2>1, CallsKept
    <2>4. QED
      BY <2>2, <2>3
  <1>9. QED
    BY <1>1, <1>2, <1>3, <1>4, <1>5, <1>6, <1>7, <1>8 DEF Lease

\* The steps of main: only Activate opens a gate, and the gate of a lease that
\* is given up is not recovering any more.
LEMMA ProcessGate ==
    ASSUME GInv, NEW c \in Controllers, Process(c)
    PROVE  GateFollows' /\ CleanupSurvivesDrain'
  <1>0. /\ proc \in [Controllers -> {"off", "starting", "serving", "stopping", "exited"}]
        /\ lease \in [Controllers -> {"off", "locked", "active", "closing", "lost", "done"}]
        /\ gate \in [Controllers -> {"recovering", "ready", "draining", "fenced"}]
        /\ call \in [Controllers -> [kind : CallKinds, stage : Stages, cancelled : BOOLEAN]]
    BY DEF GInv, TypeOK
  <1>1. CASE SnapshotLocalRecovery(c)
    BY <1>1, CallsKept DEF SnapshotLocalRecovery, GInv, GateFollows
  <1>2. CASE Activate(c)
    <2>1. /\ proc[c] = "starting" /\ gate[c] = "recovering"
          /\ gate' = [gate EXCEPT ![c] = "ready"]
          /\ proc' = [proc EXCEPT ![c] = "serving"]
          /\ lease' = lease /\ call' = call
      BY <1>2 DEF Activate
    <2>2. GateFollows'
      BY <1>0, <2>1 DEF GInv, GateFollows
    <2>3. CleanupSurvivesDrain'
      BY <1>0, <2>1, CallsKept
    <2>4. QED
      BY <2>2, <2>3
  <1>3. CASE Shutdown(c)
    <2>1. /\ proc[c] = "serving" /\ gate[c] \in {"ready", "fenced"}
          /\ gate' = [gate EXCEPT ![c] = IF gate[c] = "ready" THEN "draining" ELSE gate[c]]
          /\ proc' = [proc EXCEPT ![c] = "stopping"]
          /\ lease' = lease /\ call' = call
      BY <1>3 DEF Shutdown, GInv, GateFollows
    <2>2. GateFollows'
      BY <1>0, <2>1 DEF GInv, GateFollows
    <2>3. CleanupSurvivesDrain'
      BY <1>0, <2>1, CallsKept
    <2>4. QED
      BY <2>2, <2>3
  <1>4. CASE Exit(c)
    <2>1. /\ proc' = [proc EXCEPT ![c] = "exited"]
          /\ call' = [call EXCEPT ![c] = Idle]
          /\ lease' = lease /\ gate' = gate
      BY <1>4 DEF Exit
    <2>2. GateFollows'
      BY <1>0, <2>1 DEF GInv, GateFollows
    <2>3. CleanupSurvivesDrain'
      BY <1>0, <2>1 DEF GInv, CleanupSurvivesDrain, Idle
    <2>4. QED
      BY <2>2, <2>3
  <1>5. QED
    BY <1>1, <1>2, <1>3, <1>4 DEF Process

\* A provider call: the context of a destroy or a recovery is done only when
\* the gate is fenced.
LEMMA CallGate ==
    ASSUME GInv, NEW c \in Controllers, ProviderCall(c)
    PROVE  GateFollows' /\ CleanupSurvivesDrain'
  <1>0. /\ call \in [Controllers -> [kind : CallKinds, stage : Stages, cancelled : BOOLEAN]]
        /\ lease' = lease /\ gate' = gate /\ proc' = proc
    BY ProviderCallTypes DEF GInv, TypeOK, procVars
  <1>1. GateFollows'
    BY <1>0 DEF GInv, GateFollows
  <1>2. ASSUME NEW kind \in Kinds, EnterCall(c, kind) PROVE CleanupSurvivesDrain'
    <2>1. call' = [call EXCEPT ![c] = [kind |-> kind, stage |-> "checked",
                                       cancelled |-> FALSE]]
      BY <1>2 DEF EnterCall
    <2>2. QED
      BY <1>0, <2>1 DEF GInv, CleanupSurvivesDrain
  <1>3. ASSUME NEW stage \in Stages, SetStage(c, stage) PROVE CleanupSurvivesDrain'
    <2>1. call' = [call EXCEPT ![c].stage = stage]
      BY <1>3 DEF SetStage
    <2>2. \A d \in Controllers : call'[d].kind = call[d].kind
                                 /\ call'[d].cancelled = call[d].cancelled
      BY <1>0, <2>1
    <2>3. QED
      BY <1>0, <2>2 DEF GInv, CleanupSurvivesDrain
  <1>4. CASE CancelContext(c)
    <2>1. call' = [call EXCEPT ![c].cancelled = TRUE]
      BY <1>4, Zenon DEF CancelContext
    <2>0. \/ gate[c] = "fenced"
          \/ gate[c] = "draining" /\ call[c].kind \in {"active", "terminal"}
      BY <1>4, Zenon DEF CancelContext, ContextDone
    <2>2. \A d \in Controllers : call'[d].kind = call[d].kind
                                 /\ (d # c => call'[d].cancelled = call[d].cancelled)
      BY <1>0, <2>1
    <2>3. QED
      BY <1>0, <2>0, <2>2, SMTT(30) DEF GInv, GateFollows, CleanupSurvivesDrain
  <1>5. {"idle", "bound", "running", "returned", "answered"} \subseteq Stages
    BY DEF Stages
  <1>6. CleanupSurvivesDrain'
    BY <1>2, <1>3, <1>4, <1>5 DEF ProviderCall, BindContext, StartCall, RefuseCall,
       ProviderReturns, AnswerCall, RejectCall, EndCall
  <1>7. QED
    BY <1>1, <1>6

LEMMA NextGInv == GInv /\ [Next]_vars => GInv'
  <1> SUFFICES ASSUME GInv, [Next]_vars PROVE GInv'
    OBVIOUS
  <1>1. TypeOK'
    BY TypeStep DEF GInv
  <1>2. CASE UNCHANGED vars
    BY <1>1, <1>2, CallsKept DEF vars, procVars, GInv, GateFollows
  <1>3. ASSUME NEW c \in Controllers, Mutation(c) PROVE GInv'
    <2>1. UNCHANGED <<proc, lease, gate, call>>
      BY <1>3 DEF Mutation, TxBegin, TxCommit, TxAbort, TxEnds, procVars
    <2>2. QED
      BY <1>1, <2>1, CallsKept DEF GInv, GateFollows
  <1>4. CASE Next
    BY <1>1, <1>3, <1>4, LeaseGate, ProcessGate, CallGate DEF Next, GInv
  <1>5. QED
    BY <1>2, <1>4

LEMMA GInvHolds == Spec => []GInv
  BY InitGInv, NextGInv, PTL DEF Spec

\* Draining cuts no cleanup short: a destroy or a recovery call is cancelled
\* only when the lease was lost and the gate fenced (BeginDrain's comment).
THEOREM CleanupOutlivesDrain == Spec => []CleanupSurvivesDrain
  <1>1. GInv => CleanupSurvivesDrain
    BY DEF GInv
  <1>2. QED
    BY <1>1, GInvHolds, PTL

\* The only step that answers is AnswerCall, which checks the gate once more
\* after the provider returned (AuthorityRunner).
LEMMA OnlyAnswerCallAnswers ==
    ASSUME TypeOK, [Next]_vars, NEW c \in Controllers,
           call[c].stage = "returned", call'[c].stage = "answered"
    PROVE  Authorised(c, call[c].kind)
  <1>0. call \in [Controllers -> [kind : CallKinds, stage : Stages, cancelled : BOOLEAN]]
    BY DEF TypeOK
  <1>1. call' # call
    OBVIOUS
  <1>2. PICK d \in Controllers : Lease(d) \/ Mutation(d) \/ Process(d) \/ ProviderCall(d)
    BY <1>1 DEF Next, vars
  <1>3. Process(d) \/ ProviderCall(d)
    BY <1>1, <1>2 DEF Lease, TryAdvisoryLock, IssueEpoch, SessionEnds, ProbeFails, FenceOnLoss,
       DiscardLease, Close, FinishNormalClose, Mutation, TxBegin, TxCommit, TxAbort, TxEnds
  <1>4. ~Process(d)
    <2>1. ~Exit(d)
      BY <1>0, SMTT(30) DEF Exit, Idle
    <2>2. QED
      BY <1>1, <2>1 DEF Process, SnapshotLocalRecovery, Activate, Shutdown
  <1>5. \A kind \in Kinds : ~EnterCall(d, kind)
    BY <1>0 DEF EnterCall
  <1>6. ~CancelContext(d)
    BY <1>0, SMTT(30) DEF CancelContext
  <1>7. \A stage \in Stages : SetStage(d, stage) => d = c /\ stage = "answered"
    BY <1>0 DEF SetStage
  <1>8. {"idle", "bound", "running", "returned", "answered"} \subseteq Stages
    BY DEF Stages
  <1>9. AnswerCall(d) /\ d = c
    BY <1>3, <1>4, <1>5, <1>6, <1>7, <1>8 DEF ProviderCall, BindContext, StartCall, RefuseCall,
       ProviderReturns, AnswerCall, RejectCall, EndCall
  <1>10. QED
    BY <1>9 DEF AnswerCall, PostCheck

\* A process that gave up its lease answers no provider call, except a destroy
\* of its graceful shutdown (finishUnexpectedLoss, finishNormalClose).
THEOREM NothingAnsweredAfterRelease == Spec => NoAnswerAfterRelease
  <1>1. ASSUME GInv, [Next]_vars, NEW c \in Controllers,
               call[c].stage = "returned", call'[c].stage = "answered", lease[c] = "done"
        PROVE  call[c].kind = "destroy" /\ gate[c] = "draining"
    <2>1. Authorised(c, call[c].kind)
      BY <1>1, OnlyAnswerCallAnswers DEF GInv
    <2>2. gate[c] \in {"draining", "fenced"}
      BY <1>1 DEF GInv, GateFollows
    <2>3. QED
      BY <2>1, <2>2 DEF Authorised
  <1>2. GInv /\ [Next]_vars =>
          [\A c \in Controllers :
             call[c].stage = "returned" /\ call'[c].stage = "answered" /\ lease[c] = "done" =>
                call[c].kind = "destroy" /\ gate[c] = "draining"]_vars
    BY <1>1
  <1>3. QED
    BY <1>2, GInvHolds, PTL DEF Spec, NoAnswerAfterRelease

=============================================================================
