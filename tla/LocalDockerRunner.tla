-------------------------- MODULE LocalDockerRunner --------------------------
(***************************************************************************)
(* The local Docker runner: its in-memory registry of allocations,         *)
(* idempotent operations, terminal leases and generation fences, every     *)
(* call split where it releases the registry's lock or calls the daemon,   *)
(* and the startup reconciliation of a process that lost all of it.        *)
(* Callers are unconstrained: any call on any allocation at any time,      *)
(* since leases expire, callers give up and shutdown overlaps with work.   *)
(***************************************************************************)
EXTENDS DockerManager, Sequences, SequencesExt

CONSTANTS
    Calls,           \* the kinds of calls this instance makes
    Leases,          \* terminal leases
    Worked,          \* bound: generations that anything but create and destroy meets
    OperationLimit,  \* operationLimit: remembered operations
    MaxCrashes       \* bound: crashes of the process

ASSUME RunnerBounds ==
    /\ Calls \subseteq {"setup", "verify", "terminal", "destroy"}
    /\ Worked \subseteq Generations
    /\ IsFiniteSet(Leases) /\ "none" \notin Leases
    /\ OperationLimit \in Nat /\ MaxCrashes \in Nat

Keys == {"create", "setup", "verify"} \X Refs

VARIABLES
    allocations,    \* r.allocations: "none", "held" or "destroying"
    active,         \* r.active: the generation of the session, 0 for none
    generations, absentThrough, pending,
    keys,           \* r.operationKeys, with the records they lead to
    completed,      \* completed keys, oldest first
    outcome,        \* the result in a record; callers keep the record itself
    destroyRequested, destroyErr,
    lease,          \* the terminal leases of the allocations
    expired,        \* allocations past ExpiresAt
    phase,          \* the process: up, recovering or down
    snapshot, todo, \* startup reconciliation: its batch, and what is left
    reserved,       \* allocations the store has reserved
    gone,           \* reported absent by this process
    retired,        \* recorded absent for good
    runs,           \* how often an operation ran in a live container
    crashes

registryVars == <<allocations, active, generations, absentThrough, pending,
                  destroyRequested, destroyErr>>
operationVars == <<keys, completed, outcome, runs>>
recoveryVars == <<phase, snapshot, todo, retired, crashes>>
vars == <<dockerVars, registryVars, operationVars, lease, expired, recoveryVars,
          reserved, gone>>

Session(ref) == ref[1]
Gen(ref) == ref[2]
NoRef == CHOOSE ref \in Refs : TRUE
NoLease == [ref |-> NoRef, st |-> "none"]

RegistryInit ==
    /\ allocations = [ref \in Refs |-> "none"]
    /\ active = [s \in Sessions |-> 0]
    /\ generations = [s \in Sessions |-> 0]
    /\ absentThrough = [s \in Sessions |-> 0]
    /\ pending = [s \in Sessions |-> 0]
    /\ destroyRequested = {} /\ destroyErr = {}
    /\ keys = {} /\ completed = <<>>
    /\ outcome = [k \in Keys |-> "none"]
    /\ lease = [l \in Leases |-> NoLease]

Init ==
    /\ DockerInit /\ RegistryInit
    /\ expired = {} /\ reserved = {} /\ gone = {} /\ retired = {}
    /\ phase = "up" /\ snapshot = {} /\ todo = {}
    /\ runs = [k \in Keys |-> 0] /\ crashes = 0

(* The types, and the links between the registry's maps: a session's       *)
(* active and in-flight generations are ones it has seen, and a completed  *)
(* operation is remembered in exactly one place.                           *)
TypeOK ==
    /\ container \in [Refs -> Own \cup {"none", "foreign"}]
    /\ network \in [Refs -> {"none", "own", "foreign"}]
    /\ allocations \in [Refs -> {"none", "held", "destroying"}]
    /\ \A s \in Sessions : /\ active[s] \in 0..generations[s]
                           /\ pending[s] \in {0, generations[s]}
                           /\ absentThrough[s] \in 0..MaxGen
    /\ keys \subseteq Keys
    /\ \A k \in keys : outcome[k] # "none"
    /\ {completed[i] : i \in DOMAIN completed} = {k \in keys : outcome[k] # "open"}
    /\ IsInjective(completed)
    /\ destroyRequested \subseteq Refs /\ destroyErr \subseteq Refs
    /\ \A l \in Leases : lease[l].st \in {"none", "reserved", "open"}
    /\ phase \in {"up", "recovering", "down"}
    /\ todo \subseteq snapshot /\ snapshot \subseteq reserved
    /\ gone \subseteq Refs /\ retired \subseteq reserved

-----------------------------------------------------------------------------
(* Calls and the operation records.                                        *)

Idle(t) == At(t, "idle") /\ phase = "up"
Enter(t, op, ref, pc) ==
    /\ call' = [call EXCEPT ![t] = [IdleCall(ref) EXCEPT !.op = op, !.pc = pc]]
    /\ UNCHANGED faults
Return(t) ==
    /\ call' = [call EXCEPT ![t] = IdleCall(NoRef)]
    /\ UNCHANGED faults

Key(t) == <<call[t].op, Ref(t)>>

HasCurrentAllocation(ref) == allocations[ref] # "none" /\ active[Session(ref)] = Gen(ref)
ActiveAllocation(ref) == allocations[ref] = "held" /\ active[Session(ref)] = Gen(ref)

(* pruneOperationsLocked: forgets completed operations that are too old,   *)
(* and the oldest ones beyond the limit, but none of an allocation in use. *)
Prunable_Any(seq) == seq
Prunable(seq) == SelectSeq(seq, LAMBDA k : ~HasCurrentAllocation(k[2]))

Dropped(n) ==
    LET old == ToSet(Prunable(SubSeq(completed, 1, n)))
        young == SelectSeq(Prunable(completed), LAMBDA k : k \notin old)
        left == Cardinality(keys \ old)
        over == IF left < OperationLimit THEN 0 ELSE left - OperationLimit + 1
    IN old \cup ToSet(SubSeq(young, 1, IF over < Len(young) THEN over ELSE Len(young)))

Known(k, n) == k \in keys \ Dropped(n)
Pruned(n, new) ==
    /\ keys' = (keys \ Dropped(n)) \cup new
    /\ completed' = SelectSeq(completed, LAMBDA k : k \notin Dropped(n))

Opened(k) == outcome' = [outcome EXCEPT ![k] = "open"]

(* The record gets its result, and everybody waiting for it goes on.       *)
Complete(k, result) ==
    /\ outcome' = [outcome EXCEPT ![k] = result]
    /\ completed' = Append(completed, k)
    /\ UNCHANGED keys

(* A caller that found the operation's record waits for its result, or     *)
(* until its own context ends.                                             *)
Replay(t) ==
    /\ At(t, "replay")
    /\ outcome[Key(t)] # "open"
    /\ Return(t)
    /\ UNCHANGED <<container, network, meddled, registryVars, operationVars,
                   lease, expired, recoveryVars, reserved, gone>>

GiveUp(t) ==
    /\ call[t].pc \in {"replay", "awaitpending", "awaitcreate"}
    /\ Return(t)
    /\ UNCHANGED <<container, network, meddled, registryVars, operationVars,
                   lease, expired, recoveryVars, reserved, gone>>

-----------------------------------------------------------------------------
(* CreateSession.                                                          *)

(* The store has not recorded the allocation absent before this process.   *)
CreateSession(t, ref) ==
    /\ Idle(t) /\ ref \notin retired
    /\ ref \notin expired \/ <<"create", ref>> \in keys
    /\ Enter(t, "create", ref, "admit")
    /\ reserved' = reserved \cup {ref}
    /\ UNCHANGED <<container, network, meddled, registryVars, operationVars,
                   lease, expired, recoveryVars, gone>>

Stale_Pending(ref) == pending[Session(ref)] >= Gen(ref)

Stale(ref) ==
    \/ pending[Session(ref)] >= Gen(ref)
    \/ pending[Session(ref)] = 0 /\ generations[Session(ref)] >= Gen(ref)
    \/ pending[Session(ref)] = 0 /\ absentThrough[Session(ref)] >= Gen(ref)

Admit(t) ==
    LET ref == Ref(t)  s == Session(ref) IN
    /\ At(t, "admit")
    /\ \E n \in 0..Len(completed) :
        \/ /\ Known(Key(t), n)
           /\ Pruned(n, {}) /\ Move(t, "replay")
           /\ UNCHANGED <<registryVars, outcome>>
        \/ /\ ~Known(Key(t), n) /\ Stale(ref)
           /\ Pruned(n, {}) /\ Return(t)
           /\ UNCHANGED <<registryVars, outcome>>
        \/ /\ ~Known(Key(t), n) /\ ~Stale(ref) /\ pending[s] # 0
           /\ Pruned(n, {}) /\ Move(t, "awaitpending")
           /\ UNCHANGED <<registryVars, outcome>>
        \/ /\ ~Known(Key(t), n) /\ ~Stale(ref) /\ pending[s] = 0
           /\ Pruned(n, {Key(t)}) /\ Opened(Key(t)) /\ Move(t, "resolve")
           /\ pending' = [pending EXCEPT ![s] = Gen(ref)]
           /\ generations' = [generations EXCEPT ![s] = Gen(ref)]
           /\ UNCHANGED <<allocations, active, absentThrough, destroyRequested, destroyErr>>
    /\ UNCHANGED <<container, network, meddled, runs, lease, expired,
                   recoveryVars, reserved, gone>>

(* An older generation of the session is being created: wait for its end.  *)
AwaitPending(t) ==
    /\ At(t, "awaitpending")
    /\ pending[Session(Ref(t))] = 0
    /\ Move(t, "admit")
    /\ UNCHANGED <<container, network, meddled, registryVars, operationVars,
                   lease, expired, recoveryVars, reserved, gone>>

(* The approved runtime is resolved; without it nothing is created.        *)
ResolveRuntime(t) ==
    /\ At(t, "resolve")
    /\ \/ Ref(t) \notin expired /\ Move(t, "network")
       \/ Move(t, "notmade")
    /\ UNCHANGED <<container, network, meddled, registryVars, operationVars,
                   lease, expired, recoveryVars, reserved, gone>>

Settle(t, result) ==
    /\ Complete(Key(t), result)
    /\ pending' = [pending EXCEPT ![Session(Ref(t))] = 0]
    /\ UNCHANGED <<runs, generations, absentThrough, destroyRequested>>

FinishCreate(t) ==
    /\ At(t, "notmade")
    /\ Settle(t, "failed") /\ Return(t)
    /\ UNCHANGED <<container, network, meddled, allocations, active, destroyErr,
                   lease, expired, recoveryVars, reserved, gone>>

(* The daemon made the container.  It is published, or removed again when  *)
(* the allocation was destroyed or expired in the meantime.                *)
Unwanted(ref) == ref \in destroyRequested \/ ref \in expired

Publish(t) ==
    LET ref == Ref(t) IN
    /\ At(t, "made")
    /\ \/ /\ Unwanted(ref)
          /\ Cleanup(t, "late") /\ UNCHANGED faults
          /\ UNCHANGED <<registryVars, operationVars>>
       \/ /\ ~Unwanted(ref)
          /\ allocations' = [allocations EXCEPT ![ref] = "held"]
          /\ active' = [active EXCEPT ![Session(ref)] =
                            IF generations[Session(ref)] = Gen(ref) THEN Gen(ref) ELSE @]
          /\ Settle(t, "ok") /\ Return(t)
          /\ UNCHANGED destroyErr
    /\ UNCHANGED <<container, network, meddled, lease, expired, recoveryVars, reserved, gone>>

(* A late container that could not be removed stays known to a retry.      *)
Compensated_Silent(t) ==
    /\ call[t].pc \in {"removed", "notremoved"} /\ call[t].for = "late"
    /\ Return(t)
    /\ pending' = [pending EXCEPT ![Session(Ref(t))] = 0]
    /\ UNCHANGED <<container, network, meddled, active, lease, expired, recoveryVars,
                   reserved, gone, operationVars, generations, absentThrough,
                   destroyRequested, allocations, destroyErr>>

Compensated(t) ==
    LET ref == Ref(t) IN
    /\ call[t].pc \in {"removed", "notremoved"} /\ call[t].for = "late"
    /\ Settle(t, "failed") /\ Return(t)
    /\ IF At(t, "notremoved")
       THEN /\ allocations' = [allocations EXCEPT ![ref] = "destroying"]
            /\ destroyErr' = destroyErr \cup {ref}
       ELSE UNCHANGED <<allocations, destroyErr>>
    /\ UNCHANGED <<container, network, meddled, active, lease, expired, recoveryVars,
                   reserved, gone>>

-----------------------------------------------------------------------------
(* SetupSession and VerifySession: at most one execution per key.          *)

SetupSession(t, ref) ==
    LET k == <<"setup", ref>> IN
    /\ Idle(t) /\ "setup" \in Calls
    /\ \E n \in 0..Len(completed) :
        \/ ~ActiveAllocation(ref) /\ Pruned(n, {}) /\ UNCHANGED <<call, faults, outcome>>
        \/ /\ ActiveAllocation(ref) /\ Known(k, n)
           /\ Pruned(n, {}) /\ Enter(t, "setup", ref, "replay") /\ UNCHANGED outcome
        \/ /\ ActiveAllocation(ref) /\ ~Known(k, n)
           /\ Pruned(n, {k}) /\ Opened(k) /\ Enter(t, "setup", ref, "exec")
    /\ UNCHANGED <<container, network, meddled, registryVars, runs, lease, expired,
                   recoveryVars, reserved, gone>>

VerifySession(t, ref) ==
    /\ Idle(t) /\ "verify" \in Calls
    /\ \E n \in 0..Len(completed) :
        /\ Pruned(n, {})
        /\ Enter(t, "verify", ref, IF Known(<<"verify", ref>>, n) THEN "replay" ELSE "authority")
    /\ UNCHANGED <<container, network, meddled, registryVars, outcome, runs, lease,
                   expired, recoveryVars, reserved, gone>>

VerifyAuthority(t) ==
    /\ At(t, "authority")
    /\ IF ActiveAllocation(Ref(t)) THEN Move(t, "begin") ELSE Return(t)
    /\ UNCHANGED <<container, network, meddled, registryVars, operationVars, lease,
                   expired, recoveryVars, reserved, gone>>

(* Another caller may have begun the same verification in between.         *)
BeginVerify(t) ==
    /\ At(t, "begin")
    /\ \E n \in 0..Len(completed) :
        \/ /\ Known(Key(t), n)
           /\ Pruned(n, {}) /\ Move(t, "replay") /\ UNCHANGED outcome
        \/ /\ ~Known(Key(t), n)
           /\ Pruned(n, {Key(t)}) /\ Opened(Key(t)) /\ Move(t, "exec")
    /\ UNCHANGED <<container, network, meddled, registryVars, runs, lease, expired,
                   recoveryVars, reserved, gone>>

(* The command runs in the container, or fails to when that is gone.       *)
Exec(t) ==
    LET live == container[Ref(t)] = "running" IN
    /\ At(t, "exec")
    /\ runs' = [runs EXCEPT ![Key(t)] = IF live THEN @ + 1 ELSE @]
    /\ \/ live /\ Move(t, "succeeded")
       \/ Move(t, "broken")
    /\ UNCHANGED <<container, network, meddled, registryVars, keys, completed, outcome,
                   lease, expired, recoveryVars, reserved, gone>>

RecordResult(t) ==
    /\ call[t].pc \in {"succeeded", "broken"}
    /\ Complete(Key(t), IF At(t, "succeeded") THEN "ok" ELSE "failed")
    /\ Return(t)
    /\ UNCHANGED <<container, network, meddled, registryVars, runs, lease, expired,
                   recoveryVars, reserved, gone>>

-----------------------------------------------------------------------------
(* OpenTerminal: a lease is reserved, the shell opened, the lease filled.  *)

Held(ref) == {l \in Leases : lease[l].st # "none" /\ lease[l].ref = ref}

OpenTerminal(t, ref, l) ==
    /\ Idle(t) /\ "terminal" \in Calls
    /\ ActiveAllocation(ref) /\ ref \notin expired
    /\ lease[l].st = "none" /\ \A u \in Threads : call[u].lease # l
    /\ call' = [call EXCEPT ![t] = [IdleCall(ref) EXCEPT !.op = "terminal", !.pc = "lease", !.lease = l]]
    /\ UNCHANGED <<faults, container, network, meddled, registryVars, operationVars,
                   lease, expired, recoveryVars, reserved, gone>>

(* A new lease may stand beside the one it names as its predecessor only.  *)
LeaseFree(ref, l, previous) ==
    /\ allocations[ref] = "held" /\ l # previous /\ l \notin Held(ref)
    /\ \/ Held(ref) = {}
       \/ Held(ref) = {previous} /\ lease[previous].st = "open"

SetLease(l, ref, st) ==
    lease' = [lease EXCEPT ![l] = IF st = "none" THEN NoLease ELSE [ref |-> ref, st |-> st]]

ReserveLease(t) ==
    LET l == call[t].lease IN
    /\ At(t, "lease")
    /\ \E previous \in Leases \cup {"none"} :
        IF LeaseFree(Ref(t), l, previous)
        THEN SetLease(l, Ref(t), "reserved") /\ Move(t, "shell")
        ELSE UNCHANGED lease /\ Return(t)
    /\ UNCHANGED <<container, network, meddled, registryVars, operationVars, expired,
                   recoveryVars, reserved, gone>>

ExecInteractive(t) ==
    /\ At(t, "shell")
    /\ \/ container[Ref(t)] = "running" /\ Move(t, "attach") /\ UNCHANGED lease
       \/ SetLease(call[t].lease, Ref(t), "none") /\ Return(t)
    /\ UNCHANGED <<container, network, meddled, registryVars, operationVars, expired,
                   recoveryVars, reserved, gone>>

Attachable_Allocated(ref) == allocations[ref] # "none"
Attachable(ref) == ActiveAllocation(ref) /\ ref \notin expired

AttachTerminal(t) ==
    /\ At(t, "attach")
    /\ SetLease(call[t].lease, Ref(t), IF Attachable(Ref(t)) THEN "open" ELSE "none")
    /\ Return(t)
    /\ UNCHANGED <<container, network, meddled, registryVars, operationVars, expired,
                   recoveryVars, reserved, gone>>

(* The socket ends, or the session's time is up.                           *)
CloseTerminal(l) ==
    /\ lease[l].st = "open"
    /\ SetLease(l, NoRef, "none")
    /\ UNCHANGED <<dockerVars, registryVars, operationVars, expired, recoveryVars,
                   reserved, gone>>

-----------------------------------------------------------------------------
(* DestroySession.                                                         *)

(* Whatever happens to this call, no create of this generation or an older *)
(* one is admitted any more.  An allocation that is being created is left  *)
(* to its creator to remove; one that is unknown is absent.                *)
Tombstone(s, g) == IF absentThrough[s] < g THEN g ELSE absentThrough[s]

DestroySession(t, ref) ==
    LET s == Session(ref) IN
    /\ Idle(t) /\ "destroy" \in Calls /\ ref \in reserved \ retired
    /\ absentThrough' = [absentThrough EXCEPT ![s] = Tombstone(s, Gen(ref))]
    /\ \/ /\ allocations[ref] # "none"
          /\ allocations' = [allocations EXCEPT ![ref] = "destroying"]
          /\ Enter(t, "destroy", ref, "closing")
          /\ UNCHANGED <<destroyRequested, gone>>
       \/ /\ allocations[ref] = "none" /\ pending[s] = Gen(ref)
          /\ destroyRequested' = destroyRequested \cup {ref}
          /\ Enter(t, "destroy", ref, "awaitcreate")
          /\ UNCHANGED <<allocations, gone>>
       \/ /\ allocations[ref] = "none" /\ pending[s] # Gen(ref)
          /\ gone' = gone \cup {ref}
          /\ UNCHANGED <<call, faults, allocations, destroyRequested>>
    /\ UNCHANGED <<container, network, meddled, active, generations, pending, destroyErr,
                   operationVars, lease, expired, recoveryVars, reserved>>

AwaitCreate(t) ==
    /\ At(t, "awaitcreate")
    /\ outcome[<<"create", Ref(t)>>] # "open"
    /\ gone' = IF Ref(t) \in destroyErr THEN gone ELSE gone \cup {Ref(t)}
    /\ Return(t)
    /\ UNCHANGED <<container, network, meddled, registryVars, operationVars, lease,
                   expired, recoveryVars, reserved>>

CloseTerminals(t) ==
    /\ At(t, "closing")
    /\ lease' = [l \in Leases |-> IF l \in Held(Ref(t)) /\ lease[l].st = "open"
                                  THEN NoLease ELSE lease[l]]
    /\ Cleanup(t, "destroy")
    /\ UNCHANGED <<faults, container, network, meddled, registryVars, operationVars,
                   expired, recoveryVars, reserved, gone>>

(* Only after the daemon's resources are proven absent is the allocation   *)
(* forgotten; otherwise the next destroy finds it and tries again.         *)
Destroyed_Forgets(t) ==
    LET ref == Ref(t)  s == Session(ref) IN
    /\ call[t].pc \in {"removed", "notremoved"} /\ call[t].for = "destroy"
    /\ Return(t)
    /\ allocations' = [allocations EXCEPT ![ref] = "none"]
    /\ active' = [active EXCEPT ![s] = IF @ = Gen(ref) THEN 0 ELSE @]
    /\ gone' = IF At(t, "removed") THEN gone \cup {ref} ELSE gone
    /\ UNCHANGED <<container, network, meddled, generations, absentThrough, pending,
                   destroyRequested, destroyErr, operationVars, lease, expired,
                   recoveryVars, reserved>>

Destroyed(t) ==
    LET ref == Ref(t)  s == Session(ref) IN
    /\ call[t].pc \in {"removed", "notremoved"} /\ call[t].for = "destroy"
    /\ Return(t)
    /\ IF At(t, "removed")
       THEN /\ allocations' = [allocations EXCEPT ![ref] = "none"]
            /\ active' = [active EXCEPT ![s] = IF @ = Gen(ref) THEN 0 ELSE @]
            /\ gone' = gone \cup {ref}
       ELSE UNCHANGED <<allocations, active, gone>>
    /\ UNCHANGED <<container, network, meddled, generations, absentThrough, pending,
                   destroyRequested, destroyErr, operationVars, lease, expired,
                   recoveryVars, reserved>>

(* GetSession's answer.                                                    *)
Observation(ref) ==
    CASE allocations[ref] = "none" -> "absent"
      [] allocations[ref] # "none" /\ container[ref] = "running" -> "running"
      [] allocations[ref] # "none" /\ container[ref] # "running" -> "stopped"

-----------------------------------------------------------------------------
(* A crash, and the startup of the next process.                           *)

Expire(ref) ==
    /\ ref \in reserved \ expired
    /\ expired' = expired \cup {ref}
    /\ UNCHANGED <<dockerVars, registryVars, operationVars, lease, recoveryVars,
                   reserved, gone>>

(* The registry and all calls are lost.  Of what this process reported     *)
(* absent, some is on record and the rest is not.                          *)
Crash ==
    /\ phase = "up" /\ crashes < MaxCrashes
    /\ crashes' = crashes + 1 /\ phase' = "down"
    /\ \E recorded \in SUBSET gone : retired' = retired \cup recorded
    /\ gone' = {}
    /\ allocations' = [ref \in Refs |-> "none"]
    /\ active' = [s \in Sessions |-> 0]
    /\ generations' = [s \in Sessions |-> 0]
    /\ absentThrough' = [s \in Sessions |-> 0]
    /\ pending' = [s \in Sessions |-> 0]
    /\ destroyRequested' = {} /\ destroyErr' = {}
    /\ keys' = {} /\ completed' = <<>>
    /\ outcome' = [k \in Keys |-> "none"]
    /\ lease' = [l \in Leases |-> NoLease]
    /\ call' = [t \in Threads |-> IdleCall(NoRef)]
    /\ UNCHANGED <<container, network, faults, meddled, expired, snapshot, todo, reserved, runs>>

(* Reconcile: the whole batch is resolved and inspected before anything is *)
(* deleted, and one failed or ambiguous inspection stops the start.        *)
Preflight(t) ==
    /\ phase = "down"
    /\ \A u \in Threads : At(u, "idle")
    /\ snapshot' = reserved \ retired
    /\ \/ /\ \A ref \in snapshot' : OwnershipComplete(ref)
          /\ phase' = "recovering"
          /\ todo' = {ref \in snapshot' : ContainerPresent(ref) \/ NetworkPresent(ref)}
          /\ UNCHANGED <<call, faults>>
       \/ /\ faults < MaxFaults /\ faults' = faults + 1
          /\ UNCHANGED <<call, phase, todo>>
    /\ UNCHANGED <<container, network, meddled, registryVars, operationVars, lease,
                   expired, retired, crashes, reserved, gone>>

RemoveNext(t) ==
    /\ phase = "recovering" /\ \A u \in Threads : At(u, "idle")
    /\ \E ref \in todo :
         call' = [call EXCEPT ![t] = [IdleCall(ref) EXCEPT !.op = "reconcile",
                                        !.pc = "inspect", !.for = "reconcile"]]
    /\ UNCHANGED <<faults, container, network, meddled, registryVars, operationVars, lease,
                   expired, recoveryVars, reserved, gone>>

Reconciled(t) ==
    /\ call[t].pc \in {"removed", "notremoved"} /\ call[t].for = "reconcile"
    /\ Return(t)
    /\ IF At(t, "removed")
       THEN todo' = todo \ {Ref(t)} /\ UNCHANGED phase
       ELSE todo' = {} /\ phase' = "down"
    /\ UNCHANGED <<container, network, meddled, registryVars, operationVars, lease, expired,
                   snapshot, retired, crashes, reserved, gone>>

(* validateLocalRecoveryAbsence: one absence proof for every allocation of *)
(* the batch; then the store records them all, and the server starts.      *)
AbsenceProved == todo = {} /\ \A t \in Threads : At(t, "idle")

Converge ==
    /\ phase = "recovering" /\ AbsenceProved
    /\ retired' = retired \cup snapshot
    /\ phase' = "up" /\ snapshot' = {} /\ todo' = {}
    /\ UNCHANGED <<dockerVars, registryVars, operationVars, lease, expired, crashes,
                   reserved, gone>>

-----------------------------------------------------------------------------
RunnerIdle == UNCHANGED <<registryVars, operationVars, lease, expired, recoveryVars,
                          reserved, gone>>

(* A step of a call that has begun.                                        *)
Work(t) ==
    \/ ManagerStep(t) /\ RunnerIdle
    \/ Replay(t)
    \/ Admit(t)
    \/ AwaitPending(t)
    \/ ResolveRuntime(t)
    \/ FinishCreate(t)
    \/ Publish(t)
    \/ Compensated(t)
    \/ VerifyAuthority(t)
    \/ BeginVerify(t)
    \/ Exec(t)
    \/ RecordResult(t)
    \/ ReserveLease(t)
    \/ ExecInteractive(t)
    \/ AttachTerminal(t)
    \/ AwaitCreate(t)
    \/ CloseTerminals(t)
    \/ Destroyed(t)
    \/ Reconciled(t)

WorkedRefs == Sessions \X Worked

Next ==
    \/ \E t \in Threads : Work(t)
    \/ \E t \in Threads : GiveUp(t)
    \/ \E t \in Threads, ref \in Refs : CreateSession(t, ref)
    \/ \E t \in Threads, ref \in WorkedRefs : SetupSession(t, ref)
    \/ \E t \in Threads, ref \in WorkedRefs : VerifySession(t, ref)
    \/ \E t \in Threads, ref \in WorkedRefs, l \in Leases : OpenTerminal(t, ref, l)
    \/ \E t \in Threads, ref \in Refs : DestroySession(t, ref)
    \/ \E l \in Leases : CloseTerminal(l)
    \/ \E ref \in WorkedRefs : Expire(ref)
    \/ \E ref \in WorkedRefs : Dies(ref) /\ RunnerIdle
    \/ \E ref \in WorkedRefs : Meddle(ref) /\ RunnerIdle
    \/ Crash
    \/ \E t \in Threads : Preflight(t)
    \/ \E t \in Threads : RemoveNext(t)
    \/ Converge

Spec == Init /\ [][Next]_vars

-----------------------------------------------------------------------------
(* What the architecture says of a completed destroy: what is reported     *)
(* absent, by DestroySession or by the reconciliation that startup         *)
(* accepts, is absent, as long as nothing foreign takes one of its names.  *)
(* The store ends its cleanup work on the strength of this answer.  The    *)
(* code breaks it: a create whose network call and whose recovery both     *)
(* fail records no allocation, and destroy succeeds where it finds none.   *)
DestroyedMeansGone ==
    meddled = 0 => \A ref \in gone \cup retired :
        container[ref] \notin Own /\ network[ref] # "own"

(* GetSession reports an allocation that was created as absent only after  *)
(* its resources are gone: the crash watcher ends the session on that      *)
(* answer.                                                                 *)
AbsentReportIsTrue ==
    \A ref \in Refs :
        outcome[<<"create", ref>>] = "ok" /\ Observation(ref) = "absent" =>
            container[ref] \notin Own /\ network[ref] # "own"

(* A setup script or a verification runs at most once in the allocation it *)
(* is for, through concurrent calls, replays, forgotten records and        *)
(* destroys, as long as no newer generation was created before this one    *)
(* was destroyed (which the store excludes).                               *)
ExecutedOnce ==
    \A k \in Keys : generations[Session(k[2])] <= Gen(k[2]) => runs[k] <= 1

(* An allocation has at most two terminals, a candidate beside the one it  *)
(* replaces, and a terminal is usable only while its allocation is         *)
(* registered: destroy leaves none behind, however an open races with it.  *)
TerminalsFenced ==
    \A ref \in Refs :
        /\ Cardinality(Held(ref)) <= 2
        /\ allocations[ref] = "none" => \A l \in Held(ref) : lease[l].st # "open"

(* Something else that occupies an allocation's name is never removed: not *)
(* by a late cleanup, a destroy or the startup reconciliation.             *)
ForeignPreserved ==
    [][\A ref \in Refs :
         /\ container[ref] = "foreign" => container'[ref] = "foreign"
         /\ network[ref] = "foreign" => network'[ref] = "foreign"]_vars

(* Nobody waits in vain: a call that waits for the record of an operation  *)
(* finds it completed, or another call is still executing it, however      *)
(* daemon calls fail and whoever gives up.  A record that was opened and   *)
(* is never completed would block every later caller.                      *)
Executing(u, k) ==
    Key(u) = k /\ call[u].pc \notin {"admit", "awaitpending", "replay", "authority", "begin"}

WaitsFor(t, k) ==
    \/ At(t, "replay") /\ k = Key(t) /\ outcome[k] = "open"
    \/ At(t, "awaitcreate") /\ k = <<"create", Ref(t)>> /\ outcome[k] = "open"
    \/ At(t, "awaitpending") /\ k = <<"create", <<Session(Ref(t)), pending[Session(Ref(t))]>>>>

NobodyWaitsInVain ==
    \A t \in Threads, k \in Keys : WaitsFor(t, k) => \E u \in Threads : Executing(u, k)
=============================================================================
