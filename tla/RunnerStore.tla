---------------------------- MODULE RunnerStore ----------------------------
(***************************************************************************)
(* The durable session lifecycle kept by runner.PostgresStore: sessions,   *)
(* one runner allocation per session generation, the create and destroy    *)
(* operations leased to workers, the client operations (verify, choice and *)
(* end) that share one idempotency-key namespace, the attempts, and the    *)
(* event journal of every allocation.                                      *)
(*                                                                         *)
(* Every store method runs as one transaction that first locks the         *)
(* controller's epoch row, so one method is one action.  A method that     *)
(* returns an error changes nothing: its guard is false here.  An exact    *)
(* replay that only reads is a stuttering step.  The callers (HTTP         *)
(* handlers, the setup goroutine, the timeout and monitor watchers, the    *)
(* durable worker and startup recovery) may call the methods in any order. *)
(***************************************************************************)
EXTENDS Naturals, Sequences, FiniteSets, Functions

CONSTANTS
    Users,        \* rows of the users table
    Sessions,     \* logical session ids that may be reserved
    Owner,        \* Owner[s]: the user whose session s is
    MaxGen,       \* bound: generations (resets + 1) of one session
    ClientOps,    \* idempotency keys of verify, choice and end requests
    OpUser,       \* OpUser[k]: the user whose key k is
    MaxClaims,    \* bound: the claim of an operation that no longer fails
    MaxRestarts,  \* bound: controller restarts
    LocalDocker   \* TRUE: a restart removes every allocation (main.go)

ASSUME OwnerAssumption == Owner \in [Sessions -> Users]
ASSUME OpUserAssumption == OpUser \in [ClientOps -> Users]
ASSUME BoundsAssumption ==
    /\ MaxGen \in Nat \ {0}
    /\ MaxClaims \in Nat
    /\ MaxRestarts \in Nat
    /\ LocalDocker \in BOOLEAN

Generations == 1..MaxGen

\* An allocation is named by its session and generation
\* (AllocationIDForSession is a function of both).
Allocs == Sessions \X Generations

VARIABLES
    sessState,    \* sessions.state, "none" before the row exists
    sessDesired,  \* sessions.desired_state
    currentGen,   \* sessions.current_generation
    desired,      \* runner_allocations.desired_state, "none" without a row
    observed,     \* runner_allocations.observed_state
    attempt,      \* attempts.status of the allocation's generation
    createOp,     \* runner_operations.state, kind 'create'
    createLease,  \* its lease: "none", "live" or "expired"
    createClaims, \* its attempt_count; the n-th claim holds token n
    destroyOp,    \* runner_operations.state, kind 'destroy'
    destroyLease,
    destroyClaims,
    events,       \* session_events of the allocation, in sequence order
    outcome,      \* reason_code of its first destroying event
    opState,      \* the client operation stored under an idempotency key
    opAlloc,      \* the allocation it was stored for
    phase,        \* the controller process, one of Phases
    recoverySet,  \* what is left of SnapshotLocalRecovery's result
    restarts

sessVars == <<sessState, sessDesired, currentGen>>
allocVars == <<desired, observed, attempt>>
createVars == <<createOp, createLease, createClaims>>
destroyVars == <<destroyOp, destroyLease, destroyClaims>>
journalVars == <<events, outcome>>
clientVars == <<opState, opAlloc>>
controlVars == <<phase, recoverySet, restarts>>
vars == <<sessVars, allocVars, createVars, destroyVars, journalVars,
          clientVars, controlVars>>

ActiveStates == {"queued", "booting", "setting_up", "ready", "verifying"}
Outcomes == {"completed", "failed", "timed_out", "provider_lost"}
SessionStates == {"none", "destroyed"} \cup ActiveStates \cup Outcomes
ObservedStates ==
    {"none", "unknown", "provisioning", "running", "deleting", "error", "absent"}
AttemptStates == {"none", "in_progress", "success", "failed", "timeout"}
WorkStates ==
    {"none", "pending", "running", "succeeded", "failed", "cleanup_required"}
ClientStates ==
    {"none", "running", "passed", "rejected", "infrastructure",
     "end_pending", "end_succeeded", "end_failed"}
EventTypes ==
    {"allocation_reserved", "vm_created", "setup_running", "ready",
     "verify_started", "verify_finished", "reset_requested", "failed",
     "timed_out", "provider_lost", "cleanup_required", "destroying",
     "destroyed", "predecessor_destroyed"}

\* "failing": startup recovery met a failure and exits after its cleanup;
\* "refused": PrepareRecoveryWork returned ErrLifecycleConflict.
Phases == {"starting", "recovering", "failing", "refused", "serving"}

\* A singleton event is <<type>>, a keyed one <<type, key>>.
Events ==
    {<<t>> : t \in EventTypes}
    \cup ({"verify_started", "verify_finished"} \X ClientOps)
    \cup ({"predecessor_destroyed"} \X Generations)

TypeOK ==
    /\ sessState \in [Sessions -> SessionStates]
    /\ sessDesired \in [Sessions -> {"none", "active", "absent"}]
    /\ currentGen \in [Sessions -> 0..MaxGen]
    /\ desired \in [Allocs -> {"none", "active", "absent"}]
    /\ observed \in [Allocs -> ObservedStates]
    /\ attempt \in [Allocs -> AttemptStates]
    /\ createOp \in [Allocs -> WorkStates]
    /\ destroyOp \in [Allocs -> WorkStates]
    /\ createLease \in [Allocs -> {"none", "live", "expired"}]
    /\ destroyLease \in [Allocs -> {"none", "live", "expired"}]
    /\ createClaims \in [Allocs -> Nat]
    /\ destroyClaims \in [Allocs -> Nat]
    /\ events \in [Allocs -> Seq(Events)]
    /\ outcome \in [Allocs -> Outcomes \cup {"none", "reset"}]
    /\ opState \in [ClientOps -> ClientStates]
    /\ opAlloc \in [ClientOps -> Allocs \cup {<<>>}]
    /\ phase \in Phases
    /\ recoverySet \in SUBSET Allocs
    /\ restarts \in Nat

Init ==
    /\ sessState = [s \in Sessions |-> "none"]
    /\ sessDesired = [s \in Sessions |-> "none"]
    /\ currentGen = [s \in Sessions |-> 0]
    /\ desired = [a \in Allocs |-> "none"]
    /\ observed = [a \in Allocs |-> "none"]
    /\ attempt = [a \in Allocs |-> "none"]
    /\ createOp = [a \in Allocs |-> "none"]
    /\ destroyOp = [a \in Allocs |-> "none"]
    /\ createLease = [a \in Allocs |-> "none"]
    /\ destroyLease = [a \in Allocs |-> "none"]
    /\ createClaims = [a \in Allocs |-> 0]
    /\ destroyClaims = [a \in Allocs |-> 0]
    /\ events = [a \in Allocs |-> <<>>]
    /\ outcome = [a \in Allocs |-> "none"]
    /\ opState = [k \in ClientOps |-> "none"]
    /\ opAlloc = [k \in ClientOps |-> <<>>]
    /\ phase = "starting"
    /\ recoverySet = {}
    /\ restarts = 0

-----------------------------------------------------------------------------
(***************************************************************************)
(* Helpers shared by the transactions.                                     *)
(***************************************************************************)
IsCurrent(a) == currentGen[a[1]] = a[2]

\* The current generation of a session whose rows still want it running.
Serviceable(a) ==
    IsCurrent(a) /\ sessDesired[a[1]] = "active" /\ desired[a] = "active"

Absent(a) == desired[a] = "absent" /\ observed[a] = "absent"

OlderAbsent(a) == \A g \in 1..(a[2] - 1) : Absent(<<a[1], g>>)

Has(es, type) == \E i \in 1..Len(es) : es[i][1] = type

EnsureEvent(es, type) == IF Has(es, type) THEN es ELSE Append(es, <<type>>)

EnsureKeyedEvent(es, type, key) ==
    IF <<type, key>> \in Range(es) THEN es ELSE Append(es, <<type, key>>)

EnsureDestroyOperation(op) == IF op = "none" THEN "pending" ELSE op

\* observed_state after desired_state was set to absent.
Deleting(obs) == IF obs = "absent" THEN "absent" ELSE "deleting"

\* reason_code of the first destroying event after ensuring one for reason r.
FirstOutcome(o, r) == IF o = "none" THEN r ELSE o

\* The lease token of a claim is still the row's, and has not expired.
HoldsLease(op, lease, claims, token) ==
    op = "running" /\ lease = "live" /\ token = claims

Claimable(op, lease, states) == op \in states /\ lease # "live"

Unfinished == {"pending", "running", "cleanup_required"}

\* Users' requests are admitted by an activated controller only; workers and
\* the setup path also run under startup recovery, once the local restart
\* snapshot has been converged.
Serving == phase = "serving"
Recovering == phase = "recovering" /\ recoverySet = {}
Working == Serving \/ Recovering
CleaningUp == Working \/ phase = "failing"

\* A failure during startup recovery makes the start fail closed.  Bound: a
\* start fails only while another start is left to retry it.
FailStart(failed) ==
    /\ (failed /\ Recovering) => restarts < MaxRestarts
    /\ phase' = IF failed /\ Recovering THEN "failing" ELSE phase
    /\ UNCHANGED <<recoverySet, restarts>>

-----------------------------------------------------------------------------
(***************************************************************************)
(* Reservation of generation one.                                          *)
(***************************************************************************)

NoActiveSession_Unchecked(u) == TRUE

\* The partial unique indexes sessions_one_active_per_user and
\* attempts_one_active_durable_per_user.
NoActiveSession(u) ==
    /\ \A s \in Sessions : Owner[s] = u => sessDesired[s] # "active"
    /\ \A a \in Allocs : Owner[a[1]] = u => attempt[a] # "in_progress"

ReserveSession(s) ==
    LET a == <<s, 1>> IN
    /\ Serving
    /\ sessState[s] = "none"
    /\ NoActiveSession(Owner[s])
    /\ sessState' = [sessState EXCEPT ![s] = "queued"]
    /\ sessDesired' = [sessDesired EXCEPT ![s] = "active"]
    /\ currentGen' = [currentGen EXCEPT ![s] = 1]
    /\ desired' = [desired EXCEPT ![a] = "active"]
    /\ observed' = [observed EXCEPT ![a] = "unknown"]
    /\ attempt' = [attempt EXCEPT ![a] = "in_progress"]
    /\ createOp' = [createOp EXCEPT ![a] = "pending"]
    /\ events' = [events EXCEPT ![a] = << <<"allocation_reserved">> >>]
    /\ UNCHANGED <<createLease, createClaims, destroyVars, outcome,
                   clientVars, controlVars>>

-----------------------------------------------------------------------------
(***************************************************************************)
(* Create work: leased to a worker, completed by the holder of the lease.  *)
(***************************************************************************)
CreateClaimable_IgnoresPredecessors(a) ==
    /\ Claimable(createOp[a], createLease[a], {"pending", "running"})
    /\ observed[a] \in {"unknown", "provisioning"}
    /\ Serviceable(a)

CreateClaimable_PendingOnly(a) ==
    /\ Claimable(createOp[a], createLease[a], {"pending"})
    /\ observed[a] \in {"unknown", "provisioning"}
    /\ Serviceable(a)
    /\ OlderAbsent(a)

CreateClaimable(a) ==
    /\ Claimable(createOp[a], createLease[a], {"pending", "running"})
    /\ observed[a] \in {"unknown", "provisioning"}
    /\ Serviceable(a)
    /\ OlderAbsent(a)

ClaimProvisionableCreate(a) ==
    /\ Working
    /\ CreateClaimable(a)
    /\ createOp' = [createOp EXCEPT ![a] = "running"]
    /\ createLease' = [createLease EXCEPT ![a] = "live"]
    /\ createClaims' = [createClaims EXCEPT ![a] = @ + 1]
    /\ UNCHANGED <<sessVars, allocVars, destroyVars, journalVars, clientVars,
                   controlVars>>

MarkClaimedCreateSucceeded(a, token) ==
    /\ Working
    /\ HoldsLease(createOp[a], createLease[a], createClaims[a], token)
    /\ Serviceable(a)
    /\ sessState[a[1]] \in {"queued", "booting", "setting_up", "ready"}
    /\ observed[a] \in {"unknown", "provisioning", "running"}
    /\ createOp' = [createOp EXCEPT ![a] = "succeeded"]
    /\ createLease' = [createLease EXCEPT ![a] = "none"]
    /\ observed' = [observed EXCEPT ![a] =
                      IF @ = "unknown" THEN "provisioning" ELSE @]
    /\ sessState' = [sessState EXCEPT ![a[1]] =
                      IF @ = "queued" THEN "booting" ELSE @]
    /\ events' = [events EXCEPT ![a] = EnsureEvent(@, "vm_created")]
    /\ UNCHANGED <<sessDesired, currentGen, desired, attempt, createClaims,
                   destroyVars, outcome, clientVars, controlVars>>

MarkClaimedCreateFailed(a, token) ==
    /\ Working
    /\ HoldsLease(createOp[a], createLease[a], createClaims[a], token)
    /\ Serviceable(a)
    /\ createOp' = [createOp EXCEPT ![a] = "cleanup_required"]
    /\ createLease' = [createLease EXCEPT ![a] = "none"]
    /\ desired' = [desired EXCEPT ![a] = "absent"]
    /\ observed' = [observed EXCEPT ![a] = "error"]
    /\ sessState' = [sessState EXCEPT ![a[1]] = "failed"]
    /\ sessDesired' = [sessDesired EXCEPT ![a[1]] = "absent"]
    /\ attempt' = [attempt EXCEPT ![a] = IF @ = "in_progress" THEN "failed" ELSE @]
    /\ destroyOp' = [destroyOp EXCEPT ![a] = EnsureDestroyOperation(@)]
    /\ events' = [events EXCEPT ![a] =
                    EnsureEvent(EnsureEvent(@, "failed"), "cleanup_required")]
    /\ FailStart(TRUE)
    /\ UNCHANGED <<currentGen, createClaims, destroyLease, destroyClaims,
                   outcome, clientVars>>

-----------------------------------------------------------------------------
(***************************************************************************)
(* Setup of a created environment.                                         *)
(***************************************************************************)

SetupAdvanced(a) == sessState[a[1]] \in {"ready", "verifying"}

SetupReplayable_Always(a) == TRUE

\* A late replay, after ready, is accepted only when its event is committed.
SetupReplayable(a) == SetupAdvanced(a) => Has(events[a], "setup_running")

MarkSettingUp(a) ==
    /\ Working
    /\ Serviceable(a)
    /\ createOp[a] = "succeeded"
    /\ sessState[a[1]] \in {"booting", "setting_up", "ready", "verifying"}
    /\ SetupReplayable(a)
    /\ sessState' = [sessState EXCEPT ![a[1]] =
                      IF SetupAdvanced(a) THEN @ ELSE "setting_up"]
    /\ events' = [events EXCEPT ![a] = EnsureEvent(@, "setup_running")]
    /\ UNCHANGED <<sessDesired, currentGen, allocVars, createVars, destroyVars,
                   outcome, clientVars, controlVars>>

MarkReady(a) ==
    /\ Working
    /\ Serviceable(a)
    /\ createOp[a] = "succeeded"
    /\ sessState[a[1]] \in {"booting", "setting_up"}
    /\ sessState' = [sessState EXCEPT ![a[1]] = "ready"]
    /\ observed' = [observed EXCEPT ![a] = "running"]
    /\ events' = [events EXCEPT ![a] = EnsureEvent(@, "ready")]
    /\ UNCHANGED <<sessDesired, currentGen, desired, attempt, createVars,
                   destroyVars, outcome, clientVars, controlVars>>

-----------------------------------------------------------------------------
(***************************************************************************)
(* Verification, choice grading and reset of a ready environment.          *)
(***************************************************************************)
Gradable_WhileVerifying(a) ==
    /\ Serviceable(a)
    /\ observed[a] = "running"
    /\ sessState[a[1]] \in {"ready", "verifying"}
    /\ attempt[a] = "in_progress"

Gradable(a) ==
    /\ Serviceable(a)
    /\ observed[a] = "running"
    /\ sessState[a[1]] = "ready"
    /\ attempt[a] = "in_progress"

\* A key that no stored operation of this user uses yet.
FreshKey(k, a) == opState[k] = "none" /\ OpUser[k] = Owner[a[1]]

BeginVerify(k, a) ==
    /\ Serving
    /\ FreshKey(k, a)
    /\ Gradable(a)
    /\ opState' = [opState EXCEPT ![k] = "running"]
    /\ opAlloc' = [opAlloc EXCEPT ![k] = a]
    /\ sessState' = [sessState EXCEPT ![a[1]] = "verifying"]
    /\ events' = [events EXCEPT ![a] = EnsureKeyedEvent(@, "verify_started", k)]
    /\ UNCHANGED <<sessDesired, currentGen, allocVars, createVars, destroyVars,
                   outcome, controlVars>>

\* A passing grade completes the attempt and records cleanup intent.
GradePassed(a) ==
    /\ sessState' = [sessState EXCEPT ![a[1]] = "completed"]
    /\ sessDesired' = [sessDesired EXCEPT ![a[1]] = "absent"]
    /\ desired' = [desired EXCEPT ![a] = "absent"]
    /\ observed' = [observed EXCEPT ![a] = Deleting(@)]
    /\ attempt' = [attempt EXCEPT ![a] = IF @ = "in_progress" THEN "success" ELSE @]
    /\ destroyOp' = [destroyOp EXCEPT ![a] = EnsureDestroyOperation(@)]
    /\ outcome' = [outcome EXCEPT ![a] = FirstOutcome(@, "completed")]

\* A failing grade and an infrastructure failure give the session back.
GradeNotPassed(a) ==
    /\ sessState' = [sessState EXCEPT ![a[1]] = "ready"]
    /\ UNCHANGED <<sessDesired, desired, observed, attempt, destroyOp, outcome>>

Results == {"passed", "rejected", "infrastructure"}

FinishedEvents(es, k, result) ==
    LET finished == EnsureKeyedEvent(es, "verify_finished", k)
    IN  IF result = "passed" THEN EnsureEvent(finished, "destroying") ELSE finished

RecordVerifyResult(k, result) ==
    LET a == opAlloc[k] IN
    /\ Serving
    /\ opState[k] = "running"
    /\ IsCurrent(a)
    /\ sessState[a[1]] = "verifying"
    /\ sessDesired[a[1]] = "active"
    /\ attempt[a] = "in_progress"
    /\ opState' = [opState EXCEPT ![k] = result]
    /\ IF result = "passed" THEN GradePassed(a) ELSE GradeNotPassed(a)
    /\ events' = [events EXCEPT ![a] = FinishedEvents(@, k, result)]
    /\ UNCHANGED <<currentGen, createVars, destroyLease, destroyClaims, opAlloc,
                   controlVars>>

\* A choice is admitted and graded in one transaction.
RecordChoice(k, a, result) ==
    /\ Serving
    /\ FreshKey(k, a)
    /\ Gradable(a)
    /\ opState' = [opState EXCEPT ![k] = result]
    /\ opAlloc' = [opAlloc EXCEPT ![k] = a]
    /\ IF result = "passed" THEN GradePassed(a) ELSE GradeNotPassed(a)
    /\ events' = [events EXCEPT ![a] =
          FinishedEvents(EnsureKeyedEvent(@, "verify_started", k), k, result)]
    /\ UNCHANGED <<currentGen, createVars, destroyLease, destroyClaims,
                   controlVars>>

\* The old generation is given up and its successor reserved in one
\* transaction; the successor's create waits for the old one's absence.
ReserveReset(s) ==
    LET a == <<s, currentGen[s]>>
        b == <<s, currentGen[s] + 1>> IN
    /\ Serving
    /\ currentGen[s] \in 1..(MaxGen - 1)
    /\ Gradable(a)
    /\ createOp[a] = "succeeded"
    /\ OlderAbsent(a)
    /\ sessState' = [sessState EXCEPT ![s] = "queued"]
    /\ currentGen' = [currentGen EXCEPT ![s] = @ + 1]
    /\ desired' = [desired EXCEPT ![a] = "absent", ![b] = "active"]
    /\ observed' = [observed EXCEPT ![a] = Deleting(@), ![b] = "unknown"]
    /\ attempt' = [attempt EXCEPT ![a] = "failed", ![b] = "in_progress"]
    /\ createOp' = [createOp EXCEPT ![b] = "pending"]
    /\ destroyOp' = [destroyOp EXCEPT ![a] = EnsureDestroyOperation(@)]
    /\ outcome' = [outcome EXCEPT ![a] = FirstOutcome(@, "reset")]
    /\ events' = [events EXCEPT
          ![a] = EnsureEvent(EnsureEvent(@, "reset_requested"), "destroying"),
          ![b] = << <<"allocation_reserved">>, <<"reset_requested">> >>]
    /\ UNCHANGED <<sessDesired, createLease, createClaims, destroyLease,
                   destroyClaims, clientVars, controlVars>>

-----------------------------------------------------------------------------
(***************************************************************************)
(* Terminal intent: RequestDestroy for one allocation, RequestEnd for the  *)
(* whole session.                                                          *)
(***************************************************************************)

\* The outcomes the callers record; a completed session has its outcome from
\* the passing grade already.
DestroyOutcomes == {"failed", "timed_out", "provider_lost"}

AttemptStatus_Verbatim(o) == o

AttemptStatus(o) == IF o = "timed_out" THEN "timeout" ELSE "failed"

OutcomeAcceptable_LastWins(a, o) == TRUE

\* Only the first terminal outcome of the current generation is accepted.
OutcomeAcceptable(a, o) ==
    /\ outcome[a] \in {"none", o}
    /\ IsCurrent(a) =>
          /\ outcome[a] = "none" => sessState[a[1]] \in ActiveStates \cup {o}
          /\ outcome[a] # "none" => sessDesired[a[1]] # "active"
          /\ attempt[a] \in {"in_progress", AttemptStatus(o)}

\* Startup recovery gives up only a created environment of an active session:
\* one that expired, that the provider lost, or whose setup failed.
Recoverable(a) == Recovering /\ Serviceable(a) /\ createOp[a] = "succeeded"

RequestDestroy(a, o) ==
    LET first == IsCurrent(a) /\ outcome[a] = "none" IN
    /\ (Serving /\ o # "provider_lost") \/ Recoverable(a)
    /\ desired[a] # "none"
    /\ OutcomeAcceptable(a, o)
    /\ attempt' = [attempt EXCEPT ![a] =
                     IF IsCurrent(a) THEN AttemptStatus(o) ELSE @]
    /\ sessState' = [sessState EXCEPT ![a[1]] = IF first THEN o ELSE @]
    /\ sessDesired' = [sessDesired EXCEPT ![a[1]] = IF first THEN "absent" ELSE @]
    /\ desired' = [desired EXCEPT ![a] = "absent"]
    /\ observed' = [observed EXCEPT ![a] =
                      IF desired[a] = "absent" THEN @ ELSE Deleting(@)]
    /\ destroyOp' = [destroyOp EXCEPT ![a] = EnsureDestroyOperation(@)]
    /\ events' = [events EXCEPT ![a] =
          EnsureEvent(IF IsCurrent(a) THEN EnsureEvent(@, o) ELSE @, "destroying")]
    /\ outcome' = [outcome EXCEPT ![a] = FirstOutcome(@, o)]
    /\ FailStart(o = "failed")
    /\ UNCHANGED <<currentGen, createVars, destroyLease, destroyClaims,
                   clientVars>>

ReservedAllocs(s) == {s} \X (1..currentGen[s])

EndComplete_CurrentOnly(s) ==
    LET a == <<s, currentGen[s]>> IN observed[a] = "absent" /\ destroyOp[a] = "succeeded"

EndComplete(s) ==
    \A a \in ReservedAllocs(s) : observed[a] = "absent" /\ destroyOp[a] = "succeeded"

\* createEndOperationTx: one transaction gives up every generation.  The
\* current one is still wanted, so reconcileEndOperationTx leaves it pending.
RequestEnd(k, s) ==
    LET A == ReservedAllocs(s)
        cur == <<s, currentGen[s]>> IN
    /\ Serving
    /\ sessDesired[s] = "active"
    /\ FreshKey(k, cur)
    /\ opState' = [opState EXCEPT ![k] = "end_pending"]
    /\ opAlloc' = [opAlloc EXCEPT ![k] = cur]
    /\ attempt' = [attempt EXCEPT ![cur] = IF @ = "in_progress" THEN "failed" ELSE @]
    /\ sessState' = [sessState EXCEPT ![s] = "failed"]
    /\ sessDesired' = [sessDesired EXCEPT ![s] = "absent"]
    /\ desired' = [a \in Allocs |-> IF a \in A THEN "absent" ELSE desired[a]]
    /\ observed' = [a \in Allocs |->
                      IF a \in A THEN Deleting(observed[a]) ELSE observed[a]]
    /\ destroyOp' = [a \in Allocs |->
          CASE a \notin A -> destroyOp[a]
            [] a \in A /\ observed[a] = "absent" -> "succeeded"
            [] OTHER -> EnsureDestroyOperation(destroyOp[a])]
    /\ destroyLease' = [a \in Allocs |->
          IF a \in A /\ observed[a] = "absent" THEN "none" ELSE destroyLease[a]]
    /\ outcome' = [a \in Allocs |->
          IF a \in A THEN FirstOutcome(outcome[a], "failed") ELSE outcome[a]]
    /\ events' = [a \in Allocs |->
          CASE a = cur -> EnsureEvent(EnsureEvent(events[a], "failed"), "destroying")
            [] a \in A \ {cur} -> EnsureEvent(events[a], "destroying")
            [] OTHER -> events[a]]
    /\ UNCHANGED <<currentGen, createVars, destroyClaims, controlVars>>

\* An exact replay completes the operation once nothing is left to clean up.
ReplayEnd(k) ==
    /\ Serving
    /\ opState[k] = "end_pending"
    /\ EndComplete(opAlloc[k][1])
    /\ opState' = [opState EXCEPT ![k] = "end_succeeded"]
    /\ UNCHANGED <<sessVars, allocVars, createVars, destroyVars, journalVars,
                   opAlloc, controlVars>>

-----------------------------------------------------------------------------
(***************************************************************************)
(* Destroy work.                                                           *)
(***************************************************************************)
DestroyClaimable_NotRunning(a) ==
    /\ Claimable(destroyOp[a], destroyLease[a], {"pending", "cleanup_required"})
    /\ desired[a] = "absent"

DestroyClaimable(a) ==
    Claimable(destroyOp[a], destroyLease[a], Unfinished) /\ desired[a] = "absent"

ClaimDestroyWork(a) ==
    /\ CleaningUp
    /\ DestroyClaimable(a)
    /\ destroyOp' = [destroyOp EXCEPT ![a] = "running"]
    /\ destroyLease' = [destroyLease EXCEPT ![a] = "live"]
    /\ destroyClaims' = [destroyClaims EXCEPT ![a] = @ + 1]
    /\ UNCHANGED <<sessVars, allocVars, createVars, journalVars, clientVars,
                   controlVars>>

\* The provider failed to delete (the last claim of the bound does not).
RetryDestroyWork(a, token) ==
    /\ CleaningUp
    /\ HoldsLease(destroyOp[a], destroyLease[a], destroyClaims[a], token)
    /\ destroyClaims[a] < MaxClaims
    /\ destroyOp' = [destroyOp EXCEPT ![a] = "cleanup_required"]
    /\ destroyLease' = [destroyLease EXCEPT ![a] = "none"]
    /\ events' = [events EXCEPT ![a] = EnsureEvent(@, "cleanup_required")]
    /\ FailStart(TRUE)
    /\ UNCHANGED <<sessVars, allocVars, createVars, destroyClaims, outcome,
                   clientVars>>

TerminalizedCreate_Keeps(op) == op

\* A create that absence overtook can no longer be claimed or completed.
TerminalizedCreate(op) == IF op \in Unfinished THEN "failed" ELSE op

DestroyedEvents_OwnJournalOnly(a) ==
    [events EXCEPT ![a] = EnsureEvent(@, "destroyed")]

\* Absence of an older generation is published in the current generation's
\* journal, absence of the current one ends the session.
DestroyedEvents(a) ==
    LET cur == <<a[1], currentGen[a[1]]>>
        published == IF IsCurrent(a) THEN events
                     ELSE [events EXCEPT ![cur] =
                             EnsureKeyedEvent(@, "predecessor_destroyed", a[2])]
    IN  [published EXCEPT ![a] = EnsureEvent(@, "destroyed")]

MarkClaimedDestroyed(a, token) ==
    /\ CleaningUp
    /\ HoldsLease(destroyOp[a], destroyLease[a], destroyClaims[a], token)
    /\ desired[a] = "absent"
    /\ observed' = [observed EXCEPT ![a] = "absent"]
    /\ createOp' = [createOp EXCEPT ![a] = TerminalizedCreate(@)]
    /\ createLease' = [createLease EXCEPT ![a] = "none"]
    /\ destroyOp' = [destroyOp EXCEPT ![a] = "succeeded"]
    /\ destroyLease' = [destroyLease EXCEPT ![a] = "none"]
    /\ sessState' = [sessState EXCEPT ![a[1]] = IF IsCurrent(a) THEN "destroyed" ELSE @]
    /\ sessDesired' = [sessDesired EXCEPT ![a[1]] = IF IsCurrent(a) THEN "absent" ELSE @]
    /\ events' = DestroyedEvents(a)
    /\ UNCHANGED <<currentGen, desired, attempt, createClaims, destroyClaims,
                   outcome, clientVars, controlVars>>

-----------------------------------------------------------------------------
(***************************************************************************)
(* Time, restarts and startup recovery.                                    *)
(***************************************************************************)

\* The last claim of the bound outlives its work.
CreateLeaseExpires(a) ==
    /\ createLease[a] = "live"
    /\ createClaims[a] < MaxClaims
    /\ createLease' = [createLease EXCEPT ![a] = "expired"]
    /\ UNCHANGED <<sessVars, allocVars, createOp, createClaims, destroyVars,
                   journalVars, clientVars, controlVars>>

DestroyLeaseExpires(a) ==
    /\ destroyLease[a] = "live"
    /\ destroyClaims[a] < MaxClaims
    /\ destroyLease' = [destroyLease EXCEPT ![a] = "expired"]
    /\ UNCHANGED <<sessVars, allocVars, createVars, destroyOp, destroyClaims,
                   journalVars, clientVars, controlVars>>

\* The controller stops at any point, and the next one takes its snapshot.
Restart ==
    /\ restarts < MaxRestarts
    /\ restarts' = restarts + 1
    /\ phase' = "starting"
    /\ recoverySet' = IF LocalDocker
                      THEN {a \in Allocs : desired[a] # "none" /\ ~Absent(a)}
                      ELSE {}
    /\ UNCHANGED <<sessVars, allocVars, createVars, destroyVars, journalVars,
                   clientVars>>

\* convergeInterruptedVerificationsTx: a running verification of this
\* allocation can be given a terminal result.
Interrupted == {k \in ClientOps : opState[k] = "running"}

Interruptible(k) ==
    LET a == opAlloc[k] IN Serviceable(a) /\ sessState[a[1]] = "verifying"

RestoredState_StaysVerifying(s) == sessState[s]

RestoredState(s) ==
    IF \E k \in Interrupted : opAlloc[k][1] = s THEN "ready" ELSE sessState[s]

PrepareRecoveryWork ==
    /\ phase = "starting"
    /\ \A k \in Interrupted : Interruptible(k)
    /\ phase' = "recovering"
    /\ opState' = [k \in ClientOps |->
          IF k \in Interrupted THEN "infrastructure" ELSE opState[k]]
    /\ sessState' = [s \in Sessions |-> RestoredState(s)]
    /\ events' = [a \in Allocs |->
          IF \E k \in Interrupted : opAlloc[k] = a
          THEN EnsureKeyedEvent(events[a], "verify_finished",
                                CHOOSE k \in Interrupted : opAlloc[k] = a)
          ELSE events[a]]
    /\ createOp' = [a \in Allocs |->
          IF createOp[a] = "running" THEN "pending" ELSE createOp[a]]
    /\ destroyOp' = [a \in Allocs |->
          IF destroyOp[a] = "running" THEN "cleanup_required" ELSE destroyOp[a]]
    /\ createLease' = [a \in Allocs |->
          IF createOp[a] \in Unfinished THEN "none" ELSE createLease[a]]
    /\ destroyLease' = [a \in Allocs |->
          IF destroyOp[a] \in Unfinished THEN "none" ELSE destroyLease[a]]
    /\ UNCHANGED <<sessDesired, currentGen, allocVars, createClaims,
                   destroyClaims, outcome, opAlloc, recoverySet, restarts>>

\* A contradictory verification fails the start (log.Fatalf in main.go).
RefuseRecovery ==
    /\ phase = "starting"
    /\ \E k \in Interrupted : ~Interruptible(k)
    /\ phase' = "refused"
    /\ UNCHANGED <<sessVars, allocVars, createVars, destroyVars, journalVars,
                   clientVars, recoverySet, restarts>>

ConvergeNext_CurrentOnly(a) == a \in recoverySet /\ IsCurrent(a)

\* The snapshot is converged in creation order: oldest generation first.
ConvergeNext(a) ==
    a \in recoverySet /\ \A b \in recoverySet : b[1] = a[1] => b[2] >= a[2]

\* The generic operation sweep of convergeOneLocalRestart (a running
\* verification has been given its result by PrepareRecoveryWork).
SweptClient(k, a) ==
    IF opAlloc[k] = a /\ opState[k] = "end_pending" THEN "end_failed" ELSE opState[k]

ConvergeLocalRestart(a) ==
    LET caused == IsCurrent(a) /\ attempt[a] = "in_progress"
        failed == IF caused THEN EnsureEvent(events[a], "failed") ELSE events[a] IN
    /\ phase = "recovering"
    /\ ConvergeNext(a)
    /\ recoverySet' = recoverySet \ {a}
    /\ desired' = [desired EXCEPT ![a] = "absent"]
    /\ observed' = [observed EXCEPT ![a] = "absent"]
    /\ sessState' = [sessState EXCEPT ![a[1]] = IF IsCurrent(a) THEN "destroyed" ELSE @]
    /\ sessDesired' = [sessDesired EXCEPT ![a[1]] = IF IsCurrent(a) THEN "absent" ELSE @]
    /\ attempt' = [attempt EXCEPT ![a] = IF caused THEN "failed" ELSE @]
    /\ createOp' = [createOp EXCEPT ![a] = TerminalizedCreate(@)]
    /\ createLease' = [createLease EXCEPT ![a] = "none"]
    /\ destroyOp' = [destroyOp EXCEPT ![a] = "succeeded"]
    /\ destroyLease' = [destroyLease EXCEPT ![a] = "none"]
    /\ opState' = [k \in ClientOps |-> SweptClient(k, a)]
    /\ events' = [events EXCEPT ![a] = EnsureEvent(failed, "destroyed")]
    /\ UNCHANGED <<currentGen, createClaims, destroyClaims, outcome, opAlloc,
                   phase, restarts>>

\* validateRecoveredFixedPoint, after the drain found nothing to claim.
Activate ==
    /\ Recovering
    /\ \A a \in Allocs :
          /\ ~DestroyClaimable(a)
          /\ ~CreateClaimable(a)
          /\ Serviceable(a) => /\ createOp[a] = "succeeded"
                               /\ sessState[a[1]] = "ready"
                               /\ observed[a] = "running"
    /\ phase' = "serving"
    /\ UNCHANGED <<sessVars, allocVars, createVars, destroyVars, journalVars,
                   clientVars, recoverySet, restarts>>

-----------------------------------------------------------------------------
Create(a) ==
    \/ ClaimProvisionableCreate(a)
    \/ \E token \in 1..createClaims[a] :
          MarkClaimedCreateSucceeded(a, token) \/ MarkClaimedCreateFailed(a, token)
    \/ CreateLeaseExpires(a)
    \/ MarkSettingUp(a)
    \/ MarkReady(a)

Destroy(a) ==
    \/ \E o \in DestroyOutcomes : RequestDestroy(a, o)
    \/ ClaimDestroyWork(a)
    \/ \E token \in 1..destroyClaims[a] :
          RetryDestroyWork(a, token) \/ MarkClaimedDestroyed(a, token)
    \/ DestroyLeaseExpires(a)
    \/ ConvergeLocalRestart(a)

Client(k) ==
    \/ \E a \in Allocs : BeginVerify(k, a)
    \/ \E a \in Allocs, result \in {"passed", "rejected"} : RecordChoice(k, a, result)
    \/ \E result \in Results : RecordVerifyResult(k, result)
    \/ \E s \in Sessions : RequestEnd(k, s)
    \/ ReplayEnd(k)

Control == Restart \/ PrepareRecoveryWork \/ RefuseRecovery \/ Activate

Next ==
    \/ \E s \in Sessions : ReserveSession(s) \/ ReserveReset(s)
    \/ \E a \in Allocs : Create(a) \/ Destroy(a)
    \/ \E k \in ClientOps : Client(k)
    \/ Control

Spec == Init /\ [][Next]_vars

\* What the process and its provider keep doing: startup runs to its end and is
\* started again after it failed; the durable worker polls for claimable work; a
\* provider call of the last claim returns, and its result is recorded; the setup
\* of a created environment ends one way or the other.
Fairness ==
    /\ WF_vars(PrepareRecoveryWork)
    /\ WF_vars(RefuseRecovery)
    /\ WF_vars(Activate)
    /\ WF_vars(phase = "failing" /\ Restart)
    /\ \A a \in Allocs :
          /\ WF_vars(ConvergeLocalRestart(a))
          /\ WF_vars(ClaimDestroyWork(a))
          /\ WF_vars(\E t \in 1..destroyClaims[a] : MarkClaimedDestroyed(a, t))
          /\ WF_vars(ClaimProvisionableCreate(a))
          /\ WF_vars(\E t \in 1..createClaims[a] :
                MarkClaimedCreateSucceeded(a, t) \/ MarkClaimedCreateFailed(a, t))
          /\ WF_vars(createOp[a] = "succeeded"
                       /\ (MarkReady(a) \/ RequestDestroy(a, "failed")))

FairSpec == Spec /\ Fairness

-----------------------------------------------------------------------------
(***************************************************************************)
(* Safety.                                                                 *)
(***************************************************************************)

\* No create of a generation is ever handed to a worker while an older
\* generation of the session may still have provider resources
\* (claimProvisionableCreate's NOT EXISTS, across resets, ends and restarts).
OneProvisionedGeneration ==
    \A a \in Allocs : createClaims[a] > 0 =>
       \A g \in 1..(a[2] - 1) : observed[<<a[1], g>>] = "absent"

\* What ListActiveReservations and hydrateReservation demand of every active
\* session, failing startup and the durable worker otherwise: its current
\* allocation is wanted, its attempt is the user's one open attempt, and the
\* create operation agrees with the session state.
ActiveReservationsHydrate ==
    /\ \A s \in Sessions : sessDesired[s] = "active" =>
          LET a == <<s, currentGen[s]>> IN
          /\ a \in Allocs
          /\ desired[a] = "active"
          /\ attempt[a] = "in_progress"
          /\ sessState[s] \in ActiveStates
          /\ createOp[a] \in {"pending", "running", "succeeded"}
          /\ createOp[a] = "succeeded" <=> sessState[s] # "queued"
          /\ phase = "recovering" => sessState[s] # "verifying"
    /\ \A a \in Allocs : attempt[a] = "in_progress" =>
          IsCurrent(a) /\ sessDesired[a[1]] = "active"
    /\ \A s, t \in Sessions :
          sessDesired[s] = "active" /\ sessDesired[t] = "active"
          /\ Owner[s] = Owner[t] => s = t

\* Cleanup is never lost and never repeated: an allocation that is no longer
\* wanted has a destroy operation, which is unfinished exactly as long as
\* absence is unproven; once it is proven no create can be claimed again.
CleanupNeverLost ==
    \A a \in Allocs :
       /\ destroyOp[a] # "none" <=> desired[a] = "absent"
       /\ desired[a] = "absent" =>
             (observed[a] # "absent" <=> destroyOp[a] \in Unfinished)
       /\ observed[a] = "absent" => /\ Absent(a)
                                    /\ createOp[a] \notin Unfinished
                                    /\ createLease[a] = "none"

\* The grade a user is shown is the grade on record: an attempt succeeds
\* exactly when one operation on its allocation passed, and the reason of its
\* cleanup, its status and the session's state tell the same story.
OutcomesAgree ==
    \A a \in Allocs :
       LET passed == {k \in ClientOps : opAlloc[k] = a /\ opState[k] = "passed"} IN
       /\ attempt[a] = "success" <=> Cardinality(passed) = 1
       /\ attempt[a] = "success" <=> outcome[a] = "completed"
       /\ attempt[a] = "timeout" <=> outcome[a] = "timed_out"
       /\ outcome[a] = "reset" => a[2] < currentGen[a[1]]
       /\ IsCurrent(a) /\ sessState[a[1]] \in Outcomes =>
             outcome[a] \in {sessState[a[1]], "none"}

\* A session is verifying exactly while one running verification of its
\* current allocation exists, so the result can be recorded and the
\* environment given back (BeginVerify, RecordVerifyFinished, recovery).
VerifyingHasOneOperation ==
    \A s \in Sessions : sessDesired[s] = "active" =>
       LET running == {k \in Interrupted : opAlloc[k][1] = s} IN
       /\ sessState[s] = "verifying" <=> Cardinality(running) = 1
       /\ \A k \in running : IsCurrent(opAlloc[k])

\* Position of the first event of a type, past the end if there is none.
FirstOf(es, type) ==
    CHOOSE i \in 1..(Len(es) + 1) :
       /\ i <= Len(es) => es[i][1] = type
       /\ \A j \in 1..(i - 1) : es[j][1] # type

\* The journal of an allocation tells its story in order: setup is announced
\* before ready (MarkSettingUp's comment), no verification starts before ready
\* or finishes before it started, nothing but cleanup follows a terminal event,
\* nothing but a predecessor's absence follows destroyed, nothing is said twice.
JournalInOrder ==
    \A a \in Allocs :
       LET es == events[a]
           types(S) == {i \in 1..Len(es) : es[i][1] \in S} IN
       /\ \A i, j \in 1..Len(es) : es[i] = es[j] => i = j
       /\ Has(es, "ready") /\ Has(es, "setup_running") =>
             FirstOf(es, "setup_running") < FirstOf(es, "ready")
       /\ \A i \in types({"verify_started"}) : FirstOf(es, "ready") < i
       /\ \A i \in types({"verify_finished"}) :
             \E j \in 1..(i - 1) : es[j] = <<"verify_started", es[i][2]>>
       /\ \A i \in types({"failed", "timed_out", "provider_lost", "destroying"}) :
             \A j \in i..Len(es) :
                es[j][1] \notin {"vm_created", "setup_running", "ready",
                                 "verify_started", "verify_finished"}
       /\ \A i \in types({"destroyed"}), j \in 1..Len(es) :
             j > i => es[j][1] = "predecessor_destroyed"

\* A completed end operation means that the whole session is gone, for good.
EndMeansGone ==
    \A k \in ClientOps : opState[k] = "end_succeeded" =>
       LET s == opAlloc[k][1] IN
       /\ sessDesired[s] = "absent"
       /\ \A g \in 1..currentGen[s] : observed[<<s, g>>] = "absent"

\* The first terminal outcome wins: an attempt that ended, the reason of a
\* cleanup, a graded or finished client operation and proven absence are never
\* rewritten, and a journal is only appended to (RequestDestroy's conflicts,
\* recordVerifyResult's replay, markDestroyed).
FirstOutcomeWins ==
    [][/\ \A a \in Allocs :
             /\ attempt[a] \notin {"none", "in_progress"} => attempt'[a] = attempt[a]
             /\ outcome[a] # "none" => outcome'[a] = outcome[a]
             /\ Absent(a) => Absent(a)' /\ UNCHANGED <<createOp[a], destroyOp[a]>>
             /\ \A i \in 1..Len(events[a]) : i <= Len(events'[a])
                                             /\ events'[a][i] = events[a][i]
       /\ \A s \in Sessions : sessDesired[s] = "absent" => sessDesired'[s] = "absent"
       /\ \A k \in ClientOps : opState[k] \notin {"none", "running", "end_pending"} =>
             opState'[k] = opState[k]]_vars

(***************************************************************************)
(* Liveness.                                                               *)
(***************************************************************************)

\* An environment that is no longer wanted is eventually proven absent, through
\* failed deletions, expired leases and restarts, unless startup is refused.
CleanupCompletes ==
    \A a \in Allocs :
       desired[a] = "absent" ~> (observed[a] = "absent" \/ phase = "refused")

\* A reserved create is eventually resolved, a reset's replacement included,
\* which first waits for its predecessor's absence, or its session is over.
CreateResolves ==
    \A a \in Allocs :
       createOp[a] = "pending" ~>
          \/ createOp[a] \in {"succeeded", "failed", "cleanup_required"}
          \/ sessDesired[a[1]] = "absent"
          \/ phase = "refused"

\* Startup ends: it either activates the service or refuses to.
StartupCompletes == phase = "starting" ~> phase \in {"serving", "refused"}

(***************************************************************************)
(* What comments and documents promise and the code does not keep.         *)
(***************************************************************************)

\* "an interrupted verify on controller restart becomes a safe terminal
\* infrastructure replay" (runner-platform.md): no start is refused over one.
InterruptedVerifyConverges == phase # "refused"

\* "Replays complete the end operation only after every allocation is
\* physically absent and every destroy operation succeeded" (RequestEnd): once
\* they are, a replay completes, so the operation is pending or succeeded.
EndReplayCompletes ==
    \A k \in ClientOps : opState[k] # "end_failed"

=============================================================================
