------------------------ MODULE ControllerAuthority ------------------------
(***************************************************************************)
(* Who may act for a provider: the PostgreSQL advisory lease and the       *)
(* controller epoch (runner/controller_lease.go), the epoch check that     *)
(* every durable mutation starts with (lockControllerEpochTx), and the     *)
(* process-local gate in front of the provider (runner/authority.go).      *)
(*                                                                         *)
(* A controller is one run of the server process; a restart is another     *)
(* controller.  Its lease lives on a dedicated database session, which the *)
(* server may end while the process runs on; its transactions use other    *)
(* sessions.  RunnerStore is what a controller's transactions do; here     *)
(* they only take the epoch row, and commit or not.                        *)
(***************************************************************************)
EXTENDS Naturals, Sequences

CONSTANTS
    Controllers,  \* runs of the server process
    None,         \* nobody holds it
    Kinds,        \* the provider calls made: a subset of CallKinds
    MaxEpoch,     \* the largest epoch the column holds
    MaxCommits,   \* bound: lifecycle transactions
    CallEpochs    \* bound: epochs that provider calls overlap with

\* "active" is every call that needs a ready gate; a "terminal" is one that
\* stays open after it succeeded.
CallKinds == {"active", "terminal", "destroy", "recovery"}

ASSUME NoneAssumption == None \notin Controllers
ASSUME KindsAssumption == Kinds \subseteq CallKinds
ASSUME LimitsAssumption == MaxEpoch \in Nat /\ MaxCommits \in Nat /\ CallEpochs \in Nat

VARIABLES
    lock,      \* the controller whose session holds the advisory lock
    dbEpoch,   \* runner_controller_epochs.epoch, 0 before the row exists
    dbLease,   \* the controller that lease_id and the session columns name
    row,       \* whose transaction holds the row lock on the epoch
    tx,        \* tx[c]: a lifecycle transaction of c passed the epoch check
    commits,   \* the epochs of the committed transactions, in commit order
    proc,      \* proc[c]: where main is, "off" before and "exited" after
    lease,     \* lease[c]: ControllerLease.state, before that "off", "locked"
    epoch,     \* epoch[c]: the epoch issued to c, 0 before
    snapshot,  \* snapshot[c]: 1 + the number of commits its recovery read, or 0
    gate,      \* gate[c]: AuthorityGate.state
    call       \* call[c]: a provider call made through AuthorityRunner

dbVars == <<lock, dbEpoch, dbLease, row, tx, commits>>
procVars == <<proc, lease, epoch, snapshot>>
vars == <<dbVars, procVars, gate, call>>

Stages == {"idle", "checked", "bound", "running", "returned", "answered"}

Idle == [kind |-> "active", stage |-> "idle", cancelled |-> FALSE]

\* Epochs stay within their column: an exhausted one issues no authority.
TypeOK ==
    /\ lock \in Controllers \cup {None}
    /\ dbEpoch \in 0..MaxEpoch
    /\ dbLease \in Controllers \cup {None}
    /\ row \in Controllers \cup {None}
    /\ tx \in [Controllers -> BOOLEAN]
    /\ commits \in Seq(Nat)
    /\ proc \in [Controllers -> {"off", "starting", "serving", "stopping", "exited"}]
    /\ lease \in [Controllers -> {"off", "locked", "active", "closing", "lost", "done"}]
    /\ epoch \in [Controllers -> 0..MaxEpoch]
    /\ snapshot \in [Controllers -> Nat]
    /\ gate \in [Controllers -> {"recovering", "ready", "draining", "fenced"}]
    /\ call \in [Controllers -> [kind : CallKinds, stage : Stages, cancelled : BOOLEAN]]

Init ==
    /\ lock = None
    /\ dbEpoch = 0
    /\ dbLease = None
    /\ row = None
    /\ tx = [c \in Controllers |-> FALSE]
    /\ commits = <<>>
    /\ proc = [c \in Controllers |-> "off"]
    /\ lease = [c \in Controllers |-> "off"]
    /\ epoch = [c \in Controllers |-> 0]
    /\ snapshot = [c \in Controllers |-> 0]
    /\ gate = [c \in Controllers |-> "recovering"]
    /\ call = [c \in Controllers |-> Idle]

Running(c) == proc[c] \in {"starting", "serving", "stopping"}

\* The session of c is gone: PostgreSQL releases its advisory lock.
Released(c) == IF lock = c THEN None ELSE lock

-----------------------------------------------------------------------------
(***************************************************************************)
(* The lease.                                                              *)
(***************************************************************************)

\* pg_try_advisory_lock on a new session; a held lock fails the start.
TryAdvisoryLock(c) ==
    /\ proc[c] = "off"
    /\ lock = None
    /\ lock' = c
    /\ proc' = [proc EXCEPT ![c] = "starting"]
    /\ lease' = [lease EXCEPT ![c] = "locked"]
    /\ UNCHANGED <<dbEpoch, dbLease, row, tx, commits, epoch, snapshot, gate, call>>

NextEpoch_Reused == IF dbEpoch = 0 THEN 1 ELSE dbEpoch

NextEpoch == dbEpoch + 1

EpochLeft_Unchecked == TRUE

EpochLeft == dbEpoch < MaxEpoch

\* The upsert of the epoch row waits for the row lock.
IssueEpoch(c) ==
    /\ proc[c] = "starting"
    /\ lease[c] = "locked"
    /\ lock = c
    /\ row = None
    /\ EpochLeft
    /\ NextEpoch <= CallEpochs \/ \A d \in Controllers : call[d].stage = "idle"
    /\ dbEpoch' = NextEpoch
    /\ dbLease' = c
    /\ epoch' = [epoch EXCEPT ![c] = NextEpoch]
    /\ lease' = [lease EXCEPT ![c] = "active"]
    /\ UNCHANGED <<lock, row, tx, commits, proc, snapshot, gate, call>>

\* The server ends the lease's session: the network failed, the backend was
\* terminated, or the process is gone.
SessionEnds(c) ==
    /\ lock = c
    /\ lock' = None
    /\ UNCHANGED <<dbEpoch, dbLease, row, tx, commits, procVars, gate, call>>

\* probeSession fails when the session no longer holds the lease, and may fail
\* when it does (an error or a timeout).
ProbeFails(c) ==
    /\ Running(c)
    /\ lease[c] = "active"
    /\ lease' = [lease EXCEPT ![c] = "lost"]
    /\ UNCHANGED <<dbVars, proc, epoch, snapshot, gate, call>>

Fenceable_ReadyOnly(c) == gate[c] = "ready"

Fenceable(c) == gate[c] # "fenced"

\* finishUnexpectedLoss, first half: the loss callback is AuthorityGate.Fence.
FenceOnLoss(c) ==
    /\ Running(c)
    /\ lease[c] = "lost"
    /\ Fenceable(c)
    /\ gate' = [gate EXCEPT ![c] = "fenced"]
    /\ UNCHANGED <<dbVars, procVars, call>>

\* finishUnexpectedLoss, second half: the connection is discarded.
DiscardLease(c) ==
    /\ Running(c)
    /\ lease[c] = "lost"
    /\ gate[c] = "fenced"
    /\ lock' = Released(c)
    /\ lease' = [lease EXCEPT ![c] = "done"]
    /\ UNCHANGED <<dbEpoch, dbLease, row, tx, commits, proc, epoch, snapshot, gate, call>>

\* Close, deferred by main until after the cleanup of a shutdown.
Close(c) ==
    /\ proc[c] = "stopping"
    /\ lease[c] = "active"
    /\ lease' = [lease EXCEPT ![c] = "closing"]
    /\ UNCHANGED <<dbVars, proc, epoch, snapshot, gate, call>>

\* finishNormalClose: the lease columns are cleared and the lock released in
\* one transaction; if it fails (the row is locked for too long, the session is
\* gone) the connection is discarded.
FinishNormalClose(c) ==
    /\ Running(c)
    /\ lease[c] = "closing"
    /\ \/ row = None /\ lock = c /\ dbLease = c /\ dbLease' = None
       \/ UNCHANGED dbLease
    /\ lock' = Released(c)
    /\ lease' = [lease EXCEPT ![c] = "done"]
    /\ UNCHANGED <<dbEpoch, row, tx, commits, proc, epoch, snapshot, gate, call>>

-----------------------------------------------------------------------------
(***************************************************************************)
(* Durable mutations.                                                      *)
(***************************************************************************)
EpochRowLock_CheckOnly(c) == dbEpoch = epoch[c] /\ UNCHANGED row

EpochRowLock_Unchecked(c) == row = None /\ row' = c

\* SELECT epoch ... FOR UPDATE, and the comparison with the store's fence.
EpochRowLock(c) == row = None /\ dbEpoch = epoch[c] /\ row' = c

TxBegin(c) ==
    /\ Running(c)
    /\ epoch[c] > 0
    /\ ~tx[c]
    /\ Len(commits) < MaxCommits
    /\ EpochRowLock(c)
    /\ tx' = [tx EXCEPT ![c] = TRUE]
    /\ UNCHANGED <<lock, dbEpoch, dbLease, commits, procVars, gate, call>>

TxEnds(c) ==
    /\ tx[c]
    /\ tx' = [tx EXCEPT ![c] = FALSE]
    /\ row' = IF row = c THEN None ELSE row
    /\ UNCHANGED <<lock, dbEpoch, dbLease, procVars, gate, call>>

\* A commit may still be on its way when the process is fenced, or gone.
TxCommit(c) == TxEnds(c) /\ commits' = Append(commits, epoch[c])

TxAbort(c) == TxEnds(c) /\ UNCHANGED commits

-----------------------------------------------------------------------------
(***************************************************************************)
(* The process: startup recovery, service, shutdown.                       *)
(***************************************************************************)

\* SnapshotLocalRecovery, a plain read after the lease was acquired.
SnapshotLocalRecovery(c) ==
    /\ proc[c] = "starting"
    /\ epoch[c] > 0
    /\ snapshot[c] = 0
    /\ gate[c] = "recovering"
    /\ snapshot' = [snapshot EXCEPT ![c] = 1 + Len(commits)]
    /\ UNCHANGED <<dbVars, proc, lease, epoch, gate, call>>

\* AuthorityGate.Activate, once startup recovery is over.
Activate(c) ==
    /\ proc[c] = "starting"
    /\ snapshot[c] > 0
    /\ call[c].stage = "idle"
    /\ gate[c] = "recovering"
    /\ gate' = [gate EXCEPT ![c] = "ready"]
    /\ proc' = [proc EXCEPT ![c] = "serving"]
    /\ UNCHANGED <<dbVars, lease, epoch, snapshot, call>>

\* A signal, or the lost lease: BeginDrain closes a gate that is not fenced.
Shutdown(c) ==
    /\ proc[c] = "serving"
    /\ proc' = [proc EXCEPT ![c] = "stopping"]
    /\ gate' = [gate EXCEPT ![c] = IF @ = "ready" THEN "draining" ELSE @]
    /\ UNCHANGED <<dbVars, lease, epoch, snapshot, call>>

\* The process ends: after Close, by log.Fatalf, or by a crash.
Exit(c) ==
    /\ Running(c)
    /\ proc' = [proc EXCEPT ![c] = "exited"]
    /\ call' = [call EXCEPT ![c] = Idle]
    /\ UNCHANGED <<dbVars, lease, epoch, snapshot, gate>>

-----------------------------------------------------------------------------
(***************************************************************************)
(* Provider calls.  A call checks the gate, binds its context to one of    *)
(* the gate's contexts, checks again, calls the provider, and checks both  *)
(* the gate and its context before it answers.  The cancellation of a      *)
(* bound context runs in a goroutine of its own (context.AfterFunc).       *)
(***************************************************************************)
Authorised(c, kind) ==
    CASE kind = "recovery" -> gate[c] = "recovering"
      [] kind = "destroy" -> gate[c] \in {"ready", "draining"}
      [] OTHER -> gate[c] = "ready"

ContextDone_AuthorityOnly(c, kind) == gate[c] = "fenced"

ContextDone_WorkOnly(c, kind) == gate[c] \in {"draining", "fenced"}

\* activeContext is bound to workCtx; destroyContext and recoveryContext are
\* bound to authorityCtx.
ContextDone(c, kind) ==
    \/ gate[c] = "fenced"
    \/ gate[c] = "draining" /\ kind \in {"active", "terminal"}

SetStage(c, stage) ==
    /\ call' = [call EXCEPT ![c].stage = stage]
    /\ UNCHANGED <<dbVars, procVars, gate>>

EnterCall(c, kind) ==
    /\ Running(c)
    /\ epoch[c] > 0 /\ dbEpoch <= CallEpochs
    /\ call[c].stage = "idle"
    /\ Authorised(c, kind)
    /\ call' = [call EXCEPT ![c] = [kind |-> kind, stage |-> "checked",
                                    cancelled |-> FALSE]]
    /\ UNCHANGED <<dbVars, procVars, gate>>

BindContext(c) == call[c].stage = "checked" /\ SetStage(c, "bound")

StartCall(c) ==
    call[c].stage = "bound" /\ Authorised(c, call[c].kind) /\ SetStage(c, "running")

RefuseCall(c) ==
    call[c].stage = "bound" /\ ~Authorised(c, call[c].kind) /\ SetStage(c, "idle")

CancelContext(c) ==
    /\ call[c].stage \in {"bound", "running", "returned", "answered"}
    /\ ~call[c].cancelled
    /\ ContextDone(c, call[c].kind)
    /\ call' = [call EXCEPT ![c].cancelled = TRUE]
    /\ UNCHANGED <<dbVars, procVars, gate>>

\* A provider may ignore the cancellation.
ProviderReturns(c) == call[c].stage = "running" /\ SetStage(c, "returned")

PostCheck_ContextOnly(c) == ~call[c].cancelled

PostCheck(c) == Authorised(c, call[c].kind) /\ ~call[c].cancelled

AnswerCall(c) == call[c].stage = "returned" /\ PostCheck(c) /\ SetStage(c, "answered")

RejectCall(c) == call[c].stage = "returned" /\ ~PostCheck(c) /\ SetStage(c, "idle")

\* The call is over; a terminal is closed by its user, or by its watcher when
\* its context is cancelled.
EndCall(c) == call[c].stage = "answered" /\ SetStage(c, "idle")

-----------------------------------------------------------------------------
Lease(c) ==
    \/ TryAdvisoryLock(c) \/ IssueEpoch(c) \/ SessionEnds(c)
    \/ ProbeFails(c) \/ FenceOnLoss(c) \/ DiscardLease(c)
    \/ Close(c) \/ FinishNormalClose(c)

Mutation(c) == TxBegin(c) \/ TxCommit(c) \/ TxAbort(c)

Process(c) == SnapshotLocalRecovery(c) \/ Activate(c) \/ Shutdown(c) \/ Exit(c)

ProviderCall(c) ==
    \/ \E kind \in Kinds : EnterCall(c, kind)
    \/ BindContext(c) \/ StartCall(c) \/ RefuseCall(c) \/ CancelContext(c)
    \/ ProviderReturns(c) \/ AnswerCall(c) \/ RejectCall(c) \/ EndCall(c)

Next == \E c \in Controllers : Lease(c) \/ Mutation(c) \/ Process(c) \/ ProviderCall(c)

Spec == Init /\ [][Next]_vars

\* The monitor probes every two seconds and runs the loss callback to its end;
\* the goroutine of a cancelled context runs; a terminal's watcher closes it.
Fairness ==
    \A c \in Controllers :
       /\ WF_vars(lock # c /\ ProbeFails(c))
       /\ WF_vars(FenceOnLoss(c))
       /\ WF_vars(CancelContext(c))
       /\ WF_vars(call[c].cancelled /\ EndCall(c))

FairSpec == Spec /\ Fairness

-----------------------------------------------------------------------------
(***************************************************************************)
(* Properties.                                                             *)
(***************************************************************************)

\* Whoever holds the advisory lock with an issued epoch has the current one,
\* and no two controllers ever have the same: the lock and the epoch, kept in
\* different places, name the same controller (acquireControllerLease).
HolderIsCurrent ==
    /\ \A c \in Controllers : lock = c /\ epoch[c] > 0 => epoch[c] = dbEpoch
    /\ \A c, d \in Controllers : epoch[c] = epoch[d] /\ epoch[c] > 0 => c = d

\* Durable mutations commit in epoch order: once a controller has committed, no
\* commit of an earlier one follows, however late it was started or delivered.
CommitsInEpochOrder ==
    \A i, j \in 1..Len(commits) : i <= j => commits[i] <= commits[j]

\* "recovery cannot snapshot before an older controller's late commit"
\* (lockControllerEpochTx): what startup recovery has read is only changed by
\* its own controller or a later one.
RecoverySnapshotStable ==
    \A c \in Controllers : snapshot[c] > 0 =>
       \A i \in snapshot[c]..Len(commits) : epoch[c] <= commits[i]

\* A process that gave up its lease answers no provider call, except a destroy
\* of its graceful shutdown: the gate is fenced before the session is discarded
\* and is checked again after the provider returned.
NoAnswerAfterRelease ==
    [][\A c \in Controllers :
          call[c].stage = "returned" /\ call'[c].stage = "answered" /\ lease[c] = "done" =>
             call[c].kind = "destroy" /\ gate[c] = "draining"]_vars

\* Draining cuts no cleanup short: a destroy or a recovery call is cancelled
\* only when the lease was lost (BeginDrain's comment).
CleanupSurvivesDrain ==
    \A c \in Controllers :
       call[c].cancelled /\ call[c].kind \in {"destroy", "recovery"} =>
          lease[c] \in {"lost", "done"} /\ gate[c] = "fenced"

\* A controller whose session lost the lock notices, and fences its gate.
LossFences ==
    \A c \in Controllers :
       (Running(c) /\ lease[c] = "active" /\ lock # c) ~>
          (gate[c] = "fenced" \/ lease[c] \in {"closing", "done"} \/ ~Running(c))

\* Shutdown and loss reach the work in flight: a call that needs a ready gate
\* is cancelled or over, and an open terminal is closed.
DrainStopsWork ==
    \A c \in Controllers :
       (/\ gate[c] \in {"draining", "fenced"}
        /\ call[c].kind \in {"active", "terminal"}
        /\ call[c].stage \in {"running", "answered"})
         ~> (call[c].stage # "answered" /\ (call[c].stage = "running" => call[c].cancelled))

=============================================================================
