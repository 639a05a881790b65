--------------------------- MODULE SessionService ---------------------------
(***************************************************************************)
(* session.Service on top of the durable store: the in-memory sessions,    *)
(* the per-user transition locks, the requests, watchers and workers that  *)
(* take them, the setup goroutines that do not, the provider they call and *)
(* the shutdown.  Every store transaction of RunnerStore that a thread     *)
(* issues is a step of that thread, and so is every provider call.         *)
(*                                                                         *)
(* The lock of a user is held by at most one thread, so tx[u] is both the  *)
(* lock and the program counter of its holder.  The in-memory checks made  *)
(* under the lock are part of the step that follows them.  A watcher's     *)
(* unlocked snapshot is rechecked under the lock, so it is left out.       *)
(* Cooldowns, throttles and wordings are left out: they only refuse.       *)
(***************************************************************************)
EXTENDS RunnerStore

CONSTANTS
    MaxSessions,  \* MAX_CONCURRENT_SESSIONS, 0 for no cap
    MaxFaults     \* bound: store calls that fail and clients that disconnect

ASSUME ServiceBounds == MaxSessions \in Nat /\ MaxFaults \in Nat

VARIABLES
    local,         \* sessions[userID]
    tx,            \* the holder of the user's transition lock
    pendingStarts, \* starts admitted and not yet in sessions
    setup,         \* the setup goroutine of an allocation
    cancelled,     \* allocations whose setup context is cancelled
    worker,        \* the destroy worker outside any user's lock
    env,           \* the provider's environment of an allocation
    expired,       \* sessions past their TimeoutAt
    stage,         \* "up", then the stages of the shutdown
    intents,       \* what is left of the shutdown's snapshot
    faults

lockVars == <<tx, pendingStarts, worker>>
setupVars == <<setup, cancelled>>
outsideVars == <<env, expired>>
stopVars == <<stage, intents>>
svcVars == <<vars, local, lockVars, setupVars, outsideVars, stopVars, faults>>

NoSession == [a |-> <<>>, status |-> "none", intent |-> "none", ineligible |-> FALSE]
NewSession(alloc, st) ==
    [a |-> alloc, status |-> st, intent |-> "none", ineligible |-> FALSE]

Txn(kind, pc, alloc) ==
    [kind |-> kind, pc |-> pc, a |-> alloc, d |-> <<>>, then |-> "return",
     rest |-> {}, token |-> 0, key |-> <<>>]
Idle == Txn("idle", "idle", <<>>)
NoWork == [pc |-> "idle", a |-> <<>>, token |-> 0]

Terminal == {"completed", "failed", "timeout"}
Running == {"booting", "setting_up", "ready", "verifying"}

ServiceTypeOK ==
    /\ TypeOK
    /\ local \in [Users -> [a : Allocs \cup {<<>>},
                            status : {"none", "creating"} \cup Running \cup Terminal,
                            intent : {"none", "success", "failed", "timeout"},
                            ineligible : BOOLEAN]]
    /\ \A u \in Users : tx[u].kind \in {"idle", "start", "replay", "reset", "verify",
          "choice", "end", "setup", "watch", "resume", "worker", "commit"}
    /\ pendingStarts \in 0..Cardinality(Users)
    /\ setup \in [Allocs -> {"none", "boot", "booted", "setup", "set_up", "failing", "done"}]
    /\ cancelled \subseteq Allocs
    /\ worker.pc \in {"idle", "wait", "call", "mark", "locked"}
    /\ env \in [Allocs -> {"none", "up", "gone"}]
    /\ expired \in [Sessions -> BOOLEAN]
    /\ stage \in {"up", "draining", "cleanup", "drain"}
    /\ intents \subseteq Allocs
    /\ faults \in 0..MaxFaults

ServiceInit ==
    /\ Init
    /\ local = [u \in Users |-> NoSession]
    /\ tx = [u \in Users |-> Idle]
    /\ pendingStarts = 0
    /\ setup = [a \in Allocs |-> "none"]
    /\ cancelled = {}
    /\ worker = NoWork
    /\ env = [a \in Allocs |-> "none"]
    /\ expired = [s \in Sessions |-> FALSE]
    /\ stage = "up"
    /\ intents = {}
    /\ faults = 0

-----------------------------------------------------------------------------
(***************************************************************************)
(* The lock, the local session and the shape of a thread's step.           *)
(***************************************************************************)
Free(u) == tx[u] = Idle
Accepting == Serving /\ stage = "up"

\* A store call fails, or its context is cancelled; the shutdown cancels them.
Fault ==
    \/ faults < MaxFaults /\ faults' = faults + 1
    \/ stage # "up" /\ UNCHANGED faults

\* A failing call may have committed all the same.
Lost(Call) == Fault /\ (Call \/ UNCHANGED vars)

Acquire(u, t) == tx' = [tx EXCEPT ![u] = t] /\ UNCHANGED <<pendingStarts, worker>>

\* The deferred calls of the thread: it releases the lock, a start its
\* reservation of the cap, the destroy worker is idle again.
Release(u) ==
    /\ tx' = [tx EXCEPT ![u] = Idle]
    /\ pendingStarts' = IF tx[u].kind = "start" /\ MaxSessions > 0
                        THEN pendingStarts - 1 ELSE pendingStarts
    /\ worker' = IF tx[u].kind = "worker" THEN NoWork ELSE worker

\* Where a thread goes next; it may leave, with or without evicting.
Proceed(u, pc) ==
    CASE pc = "return" -> Release(u) /\ UNCHANGED local
      [] pc = "evict" -> Release(u) /\ local' = [local EXCEPT ![u] = NoSession]
      [] OTHER -> /\ Acquire(u, [tx[u] EXCEPT !.pc = pc])
                  /\ UNCHANGED local

\* executeClaimedDestroy(d), then on according to its result.
DestroyThen(u, alloc, then) ==
    Acquire(u, [tx[u] EXCEPT !.pc = "dclaim", !.d = alloc, !.then = then])

WithIntent(sess, status, attemptStatus) ==
    IF sess.intent = "none"
    THEN [sess EXCEPT !.status = status, !.intent = attemptStatus, !.ineligible = TRUE]
    ELSE [sess EXCEPT !.ineligible = TRUE]

DurableOutcome_Verbatim(status) == status

DurableOutcome(status) ==
    CASE status = "completed" -> "completed"
      [] status = "timeout" -> "timed_out"
      [] OTHER -> "failed"

-----------------------------------------------------------------------------
(***************************************************************************)
(* StartProblemOperation.                                                  *)
(***************************************************************************)
Occupied == {v \in Users : local[v] # NoSession}

CapFree_IgnoresPending(u) ==
    MaxSessions > 0 => Cardinality(Occupied \ {u}) < MaxSessions

CapFree(u) ==
    MaxSessions > 0 => Cardinality(Occupied \ {u}) + pendingStarts < MaxSessions

StartProblemOperation(u, s) ==
    /\ Accepting /\ Free(u)
    /\ Owner[s] = u /\ sessState[s] = "none"
    /\ CapFree(u)
    /\ local[u] = NoSession
    /\ tx' = [tx EXCEPT ![u] = Txn("start", "reserve", <<s, 1>>)]
    /\ pendingStarts' = IF MaxSessions > 0 THEN pendingStarts + 1 ELSE pendingStarts
    /\ UNCHANGED <<vars, local, worker, setupVars, outsideVars, stopVars, faults>>

Reserve(u) ==
    LET s == tx[u].a[1] IN
    /\ tx[u].pc = "reserve"
    /\ \/ ReserveSession(s) /\ Proceed(u, "claim") /\ UNCHANGED faults
       \/ ~NoActiveSession(u) /\ Proceed(u, "return") /\ UNCHANGED <<vars, faults>>
       \/ Lost(ReserveSession(s)) /\ Proceed(u, "return")
    /\ UNCHANGED <<setupVars, outsideVars, stopVars>>

\* An exact replay of a start whose create is unfinished claims it again; the
\* cap is not consulted.  (A create that succeeded without a local session
\* takes two failing store calls in a row and is left out.)
ResumeDurableReservation(u, s) ==
    LET a == <<s, 1>> IN
    /\ Accepting /\ Free(u)
    /\ Owner[s] = u /\ Serviceable(a)
    /\ local[u] = NoSession
    /\ CreateClaimable(a)
    /\ Acquire(u, Txn("replay", "claim", a))
    /\ UNCHANGED <<vars, local, setupVars, outsideVars, stopVars, faults>>

ClaimCreate(u) ==
    LET a == tx[u].a IN
    /\ tx[u].pc = "claim"
    /\ \/ /\ ClaimProvisionableCreate(a)
          /\ Acquire(u, [tx[u] EXCEPT !.pc = "create", !.token = createClaims[a] + 1])
          /\ UNCHANGED <<local, faults>>
       \/ ~CreateClaimable(a) /\ Proceed(u, "return") /\ UNCHANGED <<vars, faults>>
       \/ Lost(ClaimProvisionableCreate(a)) /\ Proceed(u, "return")
    /\ UNCHANGED <<setupVars, outsideVars, stopVars>>

-----------------------------------------------------------------------------
(***************************************************************************)
(* provisionDurableReservationWithClaim, run by start, replay, reset and   *)
(* the create worker.  After a failure a reset and the worker evict the    *)
(* session unless the failure was a conflict: then a successor owns it.    *)
(***************************************************************************)
OnFailure(kind) == IF kind \in {"reset", "resume"} THEN "evict_anyway" ELSE "return"
Failed(kind) == IF kind \in {"reset", "resume"} THEN "evict" ELSE "return"

\* The provider may have created the environment before it failed.
CreateCall(u) ==
    LET a == tx[u].a IN
    /\ tx[u].pc = "create"
    /\ \/ Proceed(u, "created") /\ env' = [env EXCEPT ![a] = "up"]
       \/ Proceed(u, "refuse") /\ \E e \in {env[a], "up"} : env' = [env EXCEPT ![a] = e]
    /\ UNCHANGED <<vars, setupVars, expired, stopVars, faults>>

CreateRecordable(u) ==
    LET a == tx[u].a IN
    /\ HoldsLease(createOp[a], createLease[a], createClaims[a], tx[u].token)
    /\ Serviceable(a)

Created(u) ==
    LET a == tx[u].a IN
    /\ tx[u].pc = "created"
    /\ \/ /\ MarkClaimedCreateSucceeded(a, tx[u].token)
          /\ stage = "up"
          /\ local' = [local EXCEPT ![u] = NewSession(a, "booting")]
          /\ setup' = [setup EXCEPT ![a] = "boot"]
          /\ Release(u)
          /\ UNCHANGED <<cancelled, faults>>
       \/ /\ MarkClaimedCreateSucceeded(a, tx[u].token)
          /\ Fault
          /\ local' = [local EXCEPT ![u] =
                         WithIntent(NewSession(a, "booting"), "failed", "failed")]
          /\ Acquire(u, [tx[u] EXCEPT !.pc = "finalize"])
          /\ UNCHANGED setupVars
       \/ ~CreateRecordable(u) /\ Proceed(u, "return") /\ UNCHANGED <<vars, setupVars, faults>>
       \/ /\ Lost(MarkClaimedCreateSucceeded(a, tx[u].token))
          /\ Proceed(u, "abandon")
          /\ UNCHANGED setupVars
    /\ UNCHANGED <<outsideVars, stopVars>>

\* failReservedCreateClaimWithCode.
Refuse(u) ==
    LET a == tx[u].a IN
    /\ tx[u].pc = "refuse"
    /\ \/ /\ MarkClaimedCreateFailed(a, tx[u].token)
          /\ DestroyThen(u, a, OnFailure(tx[u].kind))
          /\ UNCHANGED <<local, faults>>
       \/ ~CreateRecordable(u) /\ Proceed(u, "return") /\ UNCHANGED <<vars, faults>>
       \/ /\ Lost(MarkClaimedCreateFailed(a, tx[u].token))
          /\ Proceed(u, Failed(tx[u].kind))
    /\ UNCHANGED <<setupVars, outsideVars, stopVars>>

\* failProvisionedReservation.
Abandon(u) ==
    LET a == tx[u].a IN
    /\ tx[u].pc = "abandon"
    /\ \/ /\ RequestDestroy(a, "failed")
          /\ DestroyThen(u, a, OnFailure(tx[u].kind))
          /\ UNCHANGED <<local, faults>>
       \/ ~OutcomeAcceptable(a, "failed") /\ Proceed(u, "return") /\ UNCHANGED <<vars, faults>>
       \/ Lost(RequestDestroy(a, "failed")) /\ Proceed(u, Failed(tx[u].kind))
    /\ UNCHANGED <<setupVars, outsideVars, stopVars>>

-----------------------------------------------------------------------------
(***************************************************************************)
(* executeClaimedDestroy and finalizeTerminalLocked.                       *)
(***************************************************************************)
AfterDestroy(then, result) ==
    CASE then = "evict" -> IF result = "done" THEN "evict" ELSE "return"
      [] then = "evict_anyway" -> IF result = "conflict" THEN "return" ELSE "evict"
      [] then = "claim" -> IF result = "done" THEN "claim" ELSE "return"
      [] then = "eloop" -> IF result \in {"done", "pending"} THEN "eloop" ELSE "return"
      [] OTHER -> "return"

Destroyed(u, result) == Proceed(u, AfterDestroy(tx[u].then, result))

DestroyClaim(u) ==
    LET d == tx[u].d IN
    /\ tx[u].pc = "dclaim"
    /\ \/ /\ ClaimDestroyWork(d)
          /\ Acquire(u, [tx[u] EXCEPT !.pc = "dcall", !.token = destroyClaims[d] + 1])
          /\ UNCHANGED <<local, faults>>
       \/ destroyOp[d] = "succeeded" /\ Destroyed(u, "done") /\ UNCHANGED <<vars, faults>>
       \/ /\ destroyOp[d] \in Unfinished /\ destroyLease[d] = "live"
          /\ Destroyed(u, "pending") /\ UNCHANGED <<vars, faults>>
       \/ Lost(ClaimDestroyWork(d)) /\ Destroyed(u, "error")
    /\ UNCHANGED <<setupVars, outsideVars, stopVars>>

DestroyHeld(d, token) ==
    HoldsLease(destroyOp[d], destroyLease[d], destroyClaims[d], token)

DestroyCall_IgnoresFailure(u) ==
    /\ tx[u].pc = "dcall"
    /\ Proceed(u, "dmark")
    /\ \E e \in {env[tx[u].d], "gone"} : env' = [env EXCEPT ![tx[u].d] = e]
    /\ UNCHANGED <<vars, setupVars, expired, stopVars, faults>>

DestroyCall(u) ==
    LET d == tx[u].d IN
    /\ tx[u].pc = "dcall"
    /\ \/ /\ Proceed(u, "dmark") /\ UNCHANGED vars
          /\ env' = [env EXCEPT ![d] = IF @ = "up" THEN "gone" ELSE @]
       \/ RetryDestroyWork(d, tx[u].token) /\ Destroyed(u, "pending") /\ UNCHANGED env
    /\ UNCHANGED <<setupVars, expired, stopVars, faults>>

DestroyMark(u) ==
    LET d == tx[u].d IN
    /\ tx[u].pc = "dmark"
    /\ \/ MarkClaimedDestroyed(d, tx[u].token) /\ Destroyed(u, "done") /\ UNCHANGED faults
       \/ ~DestroyHeld(d, tx[u].token) /\ Destroyed(u, "conflict") /\ UNCHANGED <<vars, faults>>
       \/ Lost(MarkClaimedDestroyed(d, tx[u].token)) /\ Destroyed(u, "error")
    /\ UNCHANGED <<setupVars, outsideVars, stopVars>>

\* The request to destroy a completed session replays the passing grade's.
RequestTerminal(a, o) ==
    IF o = "completed" THEN outcome[a] = o /\ UNCHANGED vars ELSE RequestDestroy(a, o)

TerminalRefused(a, o) ==
    IF o = "completed" THEN outcome[a] # o ELSE ~OutcomeAcceptable(a, o)

Finalize(u) ==
    LET a == tx[u].a
        o == DurableOutcome(local[u].status) IN
    /\ tx[u].pc = "finalize"
    /\ cancelled' = cancelled \cup {a}
    /\ \/ RequestTerminal(a, o) /\ DestroyThen(u, a, "evict") /\ UNCHANGED <<local, faults>>
       \/ TerminalRefused(a, o) /\ Proceed(u, "return") /\ UNCHANGED <<vars, faults>>
       \/ Lost(RequestTerminal(a, o)) /\ Proceed(u, "return")
    /\ UNCHANGED <<setup, outsideVars, stopVars>>

-----------------------------------------------------------------------------
(***************************************************************************)
(* ResetEnvironmentOperation.                                              *)
(***************************************************************************)
ReplaceGeneration_LocalStays(u, old, new) ==
    /\ cancelled' = cancelled \cup {local[u].a}
    /\ local' = [local EXCEPT ![u].status = "creating"]
    /\ Acquire(u, [Txn("reset", "dclaim", new) EXCEPT !.d = old, !.then = "claim"])

ReplaceGeneration(u, old, new) ==
    /\ cancelled' = cancelled \cup {local[u].a}
    /\ local' = [local EXCEPT ![u].a = new, ![u].status = "creating"]
    /\ Acquire(u, [Txn("reset", "dclaim", new) EXCEPT !.d = old, !.then = "claim"])

ResetEnvironmentOperation(u) ==
    LET old == local[u].a
        new == <<old[1], old[2] + 1>> IN
    /\ Accepting /\ Free(u)
    /\ local[u].status = "ready" /\ local[u].intent = "none"
    /\ IsCurrent(old) /\ ReserveReset(old[1])
    /\ \/ ReplaceGeneration(u, old, new) /\ UNCHANGED faults
       \/ Fault /\ UNCHANGED <<local, cancelled, lockVars>>  \* committed, and not told so
    /\ UNCHANGED <<setup, outsideVars, stopVars>>

\* The same key again, while the replacement is not created.
ResetReplay(u) ==
    LET s == local[u].a[1]
        new == <<s, currentGen[s]>>
        old == <<s, currentGen[s] - 1>> IN
    /\ Accepting /\ Free(u)
    /\ local[u] # NoSession /\ new[2] > 1
    /\ local[u].a = old \/ createOp[new] # "succeeded"
    /\ ReplaceGeneration(u, old, new)
    /\ UNCHANGED <<vars, setup, outsideVars, stopVars, faults>>

-----------------------------------------------------------------------------
(***************************************************************************)
(* Verify and SubmitChoice.                                                *)
(***************************************************************************)
Verify(u, k) ==
    LET a == local[u].a IN
    /\ Accepting /\ Free(u)
    /\ local[u].status = "ready"
    /\ BeginVerify(k, a)
    /\ \/ /\ local' = [local EXCEPT ![u].status = "verifying"]
          /\ Acquire(u, [Txn("verify", "vcall", a) EXCEPT !.key = k])
          /\ UNCHANGED faults
       \/ Fault /\ UNCHANGED <<local, lockVars>>  \* committed, and not told so
    /\ UNCHANGED <<setupVars, outsideVars, stopVars>>

VerifyCall(u) ==
    /\ tx[u].pc = "vcall"
    /\ \E result \in Results : Proceed(u, result)
    /\ UNCHANGED <<vars, setupVars, outsideVars, stopVars, faults>>

ResultRefused(k) ==
    LET a == opAlloc[k] IN
    ~(/\ IsCurrent(a) /\ sessDesired[a[1]] = "active"
      /\ sessState[a[1]] = "verifying" /\ attempt[a] = "in_progress")

\* A result that cannot be recorded leaves the local session verifying.
VerifyRecord(u) ==
    LET k == tx[u].key
        result == tx[u].pc IN
    /\ tx[u].kind = "verify" /\ result \in Results
    /\ \/ /\ RecordVerifyResult(k, result)
          /\ IF result = "passed"
             THEN /\ local' = [local EXCEPT ![u] = WithIntent(@, "completed", "success")]
                  /\ Acquire(u, [tx[u] EXCEPT !.pc = "finalize"])
             ELSE /\ local' = [local EXCEPT ![u].status =
                                 IF result = "rejected" \/ @ = "verifying" THEN "ready" ELSE @]
                  /\ Release(u)
          /\ UNCHANGED faults
       \/ ResultRefused(k) /\ Proceed(u, "return") /\ UNCHANGED <<vars, faults>>
       \/ Lost(RecordVerifyResult(k, result)) /\ Proceed(u, "return")
    /\ UNCHANGED <<setupVars, outsideVars, stopVars>>

SubmitChoice(u, k) ==
    LET a == local[u].a IN
    /\ Accepting /\ Free(u)
    /\ local[u].status = "ready"
    /\ \/ /\ RecordChoice(k, a, "passed")
          /\ local' = [local EXCEPT ![u] = WithIntent(@, "completed", "success")]
          /\ Acquire(u, Txn("choice", "finalize", a))
       \/ RecordChoice(k, a, "rejected") /\ UNCHANGED <<local, lockVars>>
    /\ UNCHANGED <<setupVars, outsideVars, stopVars, faults>>

-----------------------------------------------------------------------------
(***************************************************************************)
(* EndSessionOperation.                                                    *)
(***************************************************************************)
Outstanding(s) ==
    {a \in ReservedAllocs(s) : ~(observed[a] = "absent" /\ destroyOp[a] = "succeeded")}

MarkEndCommitted(u, s) ==
    /\ local' = [local EXCEPT ![u].ineligible =
                   IF local[u].a = <<s, currentGen[s]>> THEN TRUE ELSE @]
    /\ cancelled' = IF local[u].a = <<s, currentGen[s]>>
                    THEN cancelled \cup {local[u].a} ELSE cancelled

\* An unknown commit fences the local session all the same.
EndSessionOperation(u, k, s) ==
    /\ Accepting /\ Free(u) /\ Owner[s] = u
    /\ RequestEnd(k, s)
    /\ MarkEndCommitted(u, s)
    /\ \/ /\ Acquire(u, [Txn("end", "eloop", <<s, currentGen[s]>>) EXCEPT
                           !.rest = Outstanding(s)', !.key = k])
          /\ UNCHANGED faults
       \/ Fault /\ UNCHANGED lockVars
    /\ UNCHANGED <<setup, outsideVars, stopVars>>

EndReplay(u, k) ==
    LET s == opAlloc[k][1] IN
    /\ Accepting /\ Free(u)
    /\ opState[k] \in {"end_pending", "end_succeeded"} /\ OpUser[k] = u
    /\ opState[k] = "end_pending" \/ local[u].a \in ReservedAllocs(s)
    /\ MarkEndCommitted(u, s)
    /\ Acquire(u, [Txn("end", "eloop", opAlloc[k]) EXCEPT
                     !.rest = Outstanding(s), !.key = k])
    /\ UNCHANGED <<vars, setup, outsideVars, stopVars, faults>>

EndLoop(u) ==
    /\ tx[u].pc = "eloop"
    /\ IF tx[u].rest = {}
       THEN Acquire(u, [tx[u] EXCEPT !.pc = "efinal"])
       ELSE LET d == CHOOSE a \in tx[u].rest : \A b \in tx[u].rest : a[2] <= b[2]
            IN  Acquire(u, [tx[u] EXCEPT !.pc = "dclaim", !.d = d, !.then = "eloop",
                                         !.rest = @ \ {d}])
    /\ UNCHANGED <<vars, local, setupVars, outsideVars, stopVars, faults>>

\* Only a completed end evicts; an incomplete one is answered as pending.
EndFinal(u) ==
    LET k == tx[u].key
        s == tx[u].a[1] IN
    /\ tx[u].pc = "efinal"
    /\ \/ /\ EndComplete(s)
          /\ \/ ReplayEnd(k)
             \/ opState[k] = "end_succeeded" /\ UNCHANGED vars
          /\ Proceed(u, IF local[u].a \in ReservedAllocs(s) THEN "evict" ELSE "return")
          /\ UNCHANGED faults
       \/ ~EndComplete(s) /\ Proceed(u, "return") /\ UNCHANGED <<vars, faults>>
       \/ Lost(ReplayEnd(k)) /\ Proceed(u, "return")
    /\ UNCHANGED <<setupVars, outsideVars, stopVars>>

-----------------------------------------------------------------------------
(***************************************************************************)
(* setupEnvironment runs without the lock and takes it for each store call.*)
(* A cancelled context fails the calls; failEnvironment rechecks ownership.*)
(***************************************************************************)
Current(a) == local[Owner[a[1]]].a = a

SetupStep(a, pc) == setup' = [setup EXCEPT ![a] = pc] /\ UNCHANGED cancelled

\* WaitReady and SetupSession.
SetupCall(a, from, to) ==
    /\ setup[a] = from
    /\ \/ env[a] = "up" /\ SetupStep(a, to)
       \/ a \in cancelled /\ SetupStep(a, "done")
       \/ a \notin cancelled /\ SetupStep(a, "failing")
    /\ UNCHANGED <<vars, local, lockVars, outsideVars, stopVars, faults>>

\* MarkSettingUp and MarkReady under the lock; a refused call fails the
\* environment unless the session has moved on.
SetupPersist(a, from, to, status, Call) ==
    LET u == Owner[a[1]] IN
    /\ setup[a] = from /\ Free(u)
    /\ \/ ~Current(a) /\ SetupStep(a, "done") /\ UNCHANGED <<vars, local, faults>>
       \/ /\ Current(a) /\ a \notin cancelled
          /\ Call
          /\ local' = [local EXCEPT ![u].status = status]
          /\ SetupStep(a, to) /\ UNCHANGED faults
       \/ /\ Current(a)
          /\ a \in cancelled \/ ~Serviceable(a)
          /\ SetupStep(a, "failing") /\ UNCHANGED <<vars, local, faults>>
       \/ Current(a) /\ Lost(Call) /\ SetupStep(a, "failing") /\ UNCHANGED local
    /\ UNCHANGED <<lockVars, outsideVars, stopVars>>

FailEnvironment(a) ==
    LET u == Owner[a[1]] IN
    /\ setup[a] = "failing" /\ Free(u)
    /\ IF Current(a)
       THEN /\ local' = [local EXCEPT ![u] = WithIntent(@, "failed", "failed")]
            /\ Acquire(u, Txn("setup", "finalize", a))
       ELSE UNCHANGED <<local, lockVars>>
    /\ SetupStep(a, "done")
    /\ UNCHANGED <<vars, outsideVars, stopVars, faults>>

SetupEnvironment(a) ==
    \/ SetupCall(a, "boot", "booted")
    \/ SetupPersist(a, "booted", "setup", "setting_up", MarkSettingUp(a))
    \/ SetupCall(a, "setup", "set_up")
    \/ SetupPersist(a, "set_up", "done", "ready", MarkReady(a))
    \/ FailEnvironment(a)

-----------------------------------------------------------------------------
(***************************************************************************)
(* The watchers try the lock and never wait for it.                        *)
(***************************************************************************)
Watch(u, status, attemptStatus) ==
    /\ Free(u) /\ stage = "up"
    /\ local' = [local EXCEPT ![u] = WithIntent(@, status, attemptStatus)]
    /\ Acquire(u, Txn("watch", "finalize", local[u].a))
    /\ UNCHANGED <<vars, setupVars, outsideVars, stopVars, faults>>

CheckCrashes(u) ==
    /\ local[u].status \in Running /\ env[local[u].a] # "up"
    /\ Watch(u, "failed", "failed")

CheckTimeouts_ReadyOnly(u) ==
    /\ local[u] # NoSession /\ expired[local[u].a[1]]
    /\ local[u].status = "ready"
    /\ Watch(u, "timeout", "timeout")

CheckTimeouts(u) ==
    /\ local[u] # NoSession /\ expired[local[u].a[1]]
    /\ local[u].status \notin {"completed", "timeout"}
    /\ Watch(u, "timeout", "timeout")

RetryTerminalCleanup(u) ==
    /\ Free(u) /\ stage = "up"
    /\ local[u].status \in Terminal
    /\ Acquire(u, Txn("watch", "finalize", local[u].a))
    /\ UNCHANGED <<vars, local, setupVars, outsideVars, stopVars, faults>>

ProcessProvisionableCreate_Reclaims(u, a) ==
    /\ Free(u) /\ stage = "up" /\ Serving
    /\ Owner[a[1]] = u /\ createOp[a] = "running"
    /\ ClaimProvisionableCreate(a)
    /\ Acquire(u, [Txn("resume", "create", a) EXCEPT !.token = createClaims[a] + 1])
    /\ UNCHANGED <<local, setupVars, outsideVars, stopVars, faults>>

\* resumeClaimedCreateLocked: a missing session would have to be hydrated,
\* which an activated service refuses, and so the create fails.
ProcessProvisionableCreate(u, a) ==
    LET claimed(pc) == [Txn("resume", pc, a) EXCEPT !.token = createClaims[a] + 1] IN
    /\ Free(u) /\ stage = "up" /\ Serving
    /\ Owner[a[1]] = u
    /\ ClaimProvisionableCreate(a)
    /\ CASE local[u] = NoSession -> Acquire(u, claimed("refuse"))
         [] local[u].a = a /\ local[u].status = "creating" -> Acquire(u, claimed("create"))
         [] OTHER -> UNCHANGED lockVars
    /\ UNCHANGED <<local, setupVars, outsideVars, stopVars, faults>>

-----------------------------------------------------------------------------
(***************************************************************************)
(* processDestroyWorkOnce: an unscoped claim, and then the lock of the     *)
(* user whose current session it is, if there is one.                      *)
(***************************************************************************)
Work(pc) == worker' = [worker EXCEPT !.pc = pc] /\ UNCHANGED <<tx, pendingStarts>>

ProcessDestroyWork(a) ==
    /\ worker = NoWork /\ stage \in {"up", "drain"}
    /\ ClaimDestroyWork(a)
    /\ worker' = [pc |-> IF Current(a) THEN "wait" ELSE "call", a |-> a,
                   token |-> destroyClaims[a] + 1]
    /\ UNCHANGED <<local, tx, pendingStarts, setupVars, outsideVars, stopVars, faults>>

WorkerLock ==
    LET a == worker.a
        u == Owner[a[1]] IN
    /\ worker.pc = "wait" /\ Free(u)
    /\ IF Current(a)
       THEN /\ local' = [local EXCEPT ![u].ineligible = TRUE]
            /\ cancelled' = cancelled \cup {a}
            /\ tx' = [tx EXCEPT ![u] = [Txn("worker", "dcall", a) EXCEPT
                         !.d = a, !.then = "evict", !.token = worker.token]]
            /\ worker' = [worker EXCEPT !.pc = "locked"]
            /\ UNCHANGED pendingStarts
       ELSE Work("call") /\ UNCHANGED <<local, cancelled>>
    /\ UNCHANGED <<vars, setup, outsideVars, stopVars, faults>>

\* LockContext gives up at the claim's deadline (the last claim does not).
WorkerGivesUp ==
    /\ worker.pc = "wait" /\ ~Free(Owner[worker.a[1]])
    /\ destroyClaims[worker.a] < MaxClaims
    /\ worker' = NoWork
    /\ UNCHANGED <<vars, local, tx, pendingStarts, setupVars, outsideVars, stopVars, faults>>

WorkerCall ==
    LET a == worker.a IN
    /\ worker.pc = "call"
    /\ \/ /\ env' = [env EXCEPT ![a] = IF @ = "up" THEN "gone" ELSE @]
          /\ Work("mark") /\ UNCHANGED vars
       \/ /\ RetryDestroyWork(a, worker.token)
          /\ worker' = NoWork /\ UNCHANGED <<env, tx, pendingStarts>>
    /\ UNCHANGED <<local, setupVars, expired, stopVars, faults>>

WorkerMark ==
    LET a == worker.a IN
    /\ worker.pc = "mark"
    /\ \/ MarkClaimedDestroyed(a, worker.token) /\ UNCHANGED faults
       \/ ~DestroyHeld(a, worker.token) /\ UNCHANGED <<vars, faults>>
       \/ Lost(MarkClaimedDestroyed(a, worker.token))
    /\ worker' = NoWork
    /\ UNCHANGED <<local, tx, pendingStarts, setupVars, outsideVars, stopVars>>

-----------------------------------------------------------------------------
(***************************************************************************)
(* AcquireTerminalCommit: the holder may relay input to the environment.   *)
(***************************************************************************)
AcquireTerminalCommit_StatusOnly(u) ==
    /\ Accepting /\ Free(u)
    /\ local[u].status = "ready"
    /\ Acquire(u, Txn("commit", "hold", local[u].a))
    /\ UNCHANGED <<vars, local, setupVars, outsideVars, stopVars, faults>>

AcquireTerminalCommit(u) ==
    LET a == local[u].a IN
    /\ Accepting /\ Free(u)
    /\ local[u].status = "ready" /\ ~local[u].ineligible
    /\ ~expired[a[1]]
    /\ IsCurrent(a) /\ sessState[a[1]] = "ready"
    /\ Acquire(u, Txn("commit", "hold", a))
    /\ UNCHANGED <<vars, local, setupVars, outsideVars, stopVars, faults>>

ReleaseTerminalCommit(u) ==
    /\ tx[u].pc = "hold"
    /\ Release(u)
    /\ UNCHANGED <<vars, local, setupVars, outsideVars, stopVars, faults>>

-----------------------------------------------------------------------------
(***************************************************************************)
(* The shutdown: no admission, every setup and watcher cancelled, then the *)
(* intents of CleanupAll without the locks, then its destroy pool.         *)
(***************************************************************************)
BeginShutdown ==
    /\ Accepting
    /\ stage' = "draining"
    /\ cancelled' = Allocs
    /\ UNCHANGED <<vars, local, lockVars, setup, outsideVars, intents, faults>>

Provisioning_WorkerOnly == worker # NoWork

Provisioning ==
    \/ \E u \in Users : tx[u].kind \in {"start", "replay", "reset", "setup", "watch", "resume"}
    \/ \E a \in Allocs : setup[a] \notin {"none", "done"}
    \/ worker # NoWork

\* Both waits are bounded, and a timeout is only logged.
CleanupAll ==
    /\ stage = "draining"
    /\ \/ ~Provisioning /\ UNCHANGED faults
       \/ Provisioning /\ faults < MaxFaults /\ faults' = faults + 1
    /\ stage' = "cleanup"
    /\ intents' = {a \in Allocs : Serviceable(a)}
    /\ UNCHANGED <<vars, local, lockVars, setupVars, outsideVars>>

ShutdownIntent(a) ==
    LET u == Owner[a[1]]
        fresh == Current(a) /\ local[u].intent = "none"
        o == IF Current(a) /\ ~fresh THEN DurableOutcome(local[u].status) ELSE "failed" IN
    /\ stage = "cleanup" /\ a \in intents
    /\ intents' = intents \ {a}
    /\ local' = IF fresh
                THEN [local EXCEPT ![u].status = "failed", ![u].intent = "failed"]
                ELSE local
    /\ \/ RequestTerminal(a, o) /\ UNCHANGED faults
       \/ TerminalRefused(a, o) /\ UNCHANGED <<vars, faults>>
       \/ faults < MaxFaults /\ faults' = faults + 1 /\ UNCHANGED vars
    /\ UNCHANGED <<lockVars, setupVars, outsideVars, stage>>

DrainDestroyWork ==
    /\ stage = "cleanup" /\ intents = {} /\ stage' = "drain"
    /\ UNCHANGED <<vars, local, lockVars, setupVars, outsideVars, intents, faults>>

-----------------------------------------------------------------------------
(***************************************************************************)
(* The outside: the provider loses an environment, a deadline passes, a    *)
(* lease runs out.  The provider is called with a deadline before the      *)
(* lease's, so a lease does not run out during the call.                   *)
(***************************************************************************)
ProviderLoses(a) ==
    /\ env[a] = "up"
    /\ env' = [env EXCEPT ![a] = "gone"]
    /\ UNCHANGED <<vars, local, lockVars, setupVars, expired, stopVars, faults>>

Expire(s) ==
    /\ sessState[s] # "none" /\ ~expired[s]
    /\ expired' = [expired EXCEPT ![s] = TRUE]
    /\ UNCHANGED <<vars, local, lockVars, setupVars, env, stopVars, faults>>

ClaimedCreateContext(a) == \E u \in Users : tx[u].pc = "create" /\ tx[u].a = a

ClaimedDestroyContext(a) ==
    \/ worker.pc \in {"wait", "call"} /\ worker.a = a
    \/ \E u \in Users : tx[u].pc = "dcall" /\ tx[u].d = a

LeaseExpires(a) ==
    /\ \/ ~ClaimedCreateContext(a) /\ CreateLeaseExpires(a)
       \/ ~ClaimedDestroyContext(a) /\ DestroyLeaseExpires(a)
    /\ UNCHANGED <<local, lockVars, setupVars, outsideVars, stopVars, faults>>

\* RecoverDurableState of an empty database, then Activate.
Startup ==
    /\ PrepareRecoveryWork \/ Activate
    /\ UNCHANGED <<local, lockVars, setupVars, outsideVars, stopVars, faults>>

-----------------------------------------------------------------------------
Transition(u) ==
    \/ Reserve(u) \/ ClaimCreate(u) \/ CreateCall(u) \/ Created(u)
    \/ Refuse(u) \/ Abandon(u)
    \/ DestroyClaim(u) \/ DestroyCall(u) \/ DestroyMark(u) \/ Finalize(u)
    \/ VerifyCall(u) \/ VerifyRecord(u)
    \/ EndLoop(u) \/ EndFinal(u)
    \/ ReleaseTerminalCommit(u)

Request(u) ==
    \/ \E s \in Sessions : StartProblemOperation(u, s) \/ ResumeDurableReservation(u, s)
    \/ ResetEnvironmentOperation(u) \/ ResetReplay(u)
    \/ \E k \in ClientOps : \/ Verify(u, k) \/ SubmitChoice(u, k) \/ EndReplay(u, k)
                            \/ \E s \in Sessions : EndSessionOperation(u, k, s)
    \/ AcquireTerminalCommit(u)

Watcher(u) ==
    \/ CheckCrashes(u) \/ CheckTimeouts(u) \/ RetryTerminalCleanup(u)
    \/ \E a \in Allocs : ProcessProvisionableCreate(u, a)

DestroyWorker ==
    \/ \E a \in Allocs : ProcessDestroyWork(a)
    \/ WorkerLock \/ WorkerGivesUp \/ WorkerCall \/ WorkerMark

Shutdown ==
    \/ BeginShutdown \/ CleanupAll \/ DrainDestroyWork
    \/ \E a \in Allocs : ShutdownIntent(a)

Outside ==
    \/ \E a \in Allocs : ProviderLoses(a) \/ LeaseExpires(a)
    \/ \E s \in Sessions : Expire(s)

ServiceNext ==
    \/ \E u \in Users : Transition(u) \/ Request(u) \/ Watcher(u)
    \/ \E a \in Allocs : SetupEnvironment(a)
    \/ DestroyWorker \/ Shutdown \/ Outside \/ Startup

ServiceSpec == ServiceInit /\ [][ServiceNext]_svcVars

-----------------------------------------------------------------------------
(***************************************************************************)
(* Safety.                                                                 *)
(***************************************************************************)

\* AcquireTerminalCommit: as long as a terminal holds its commit lease, the
\* allocation it relays to is the session's current one, still wanted and
\* ready, in memory and in the database.
CommitLeaseExact ==
    \A u \in Users : tx[u].kind = "commit" /\ stage = "up" =>
        LET a == tx[u].a IN
        /\ local[u].a = a /\ local[u].status = "ready" /\ ~local[u].ineligible
        /\ Serviceable(a) /\ sessState[a[1]] = "ready"

\* Recorded absence is absence: no provider call of a thread that lost its
\* claim brings back an environment the store has recorded as destroyed, until
\* a shutdown gave up waiting for such a call.
AbsentIsGone ==
    stage \in {"up", "draining"} \/ faults = 0 =>
        \A a \in Allocs : observed[a] = "absent" => env[a] # "up"

\* A reset replaces: the old environment is gone before the new one exists,
\* whichever thread destroys the one and creates the other.
OneEnvironmentPerSession ==
    stage \in {"up", "draining"} \/ faults = 0 =>
        \A a, b \in Allocs : env[a] = "up" /\ env[b] = "up" /\ a[1] = b[1] => a = b

\* As long as every answer of the store arrives, the create worker never has to
\* fail a reset's replacement because its session is missing in memory, where
\* only a paused service may hydrate it.
ReplacementNeverRefused ==
    faults = 0 => \A u \in Users : tx[u].kind = "resume" /\ tx[u].pc = "refuse"
                                  /\ local[u] = NoSession => tx[u].a[2] = 1

\* CleanupAll records the intent for every active session before the pool
\* destroys anything, although other threads still run.
ShutdownIntentsComplete ==
    stage = "drain" /\ faults = 0 =>
        \A s \in Sessions : sessDesired[s] # "active"

\* SetMaxConcurrentSessions caps the sessions of the process.
CapacityRespected == MaxSessions > 0 => Cardinality(Occupied) <= MaxSessions

\* setTerminalIntent: the first terminal outcome is a write-once fact, not to
\* be reclassified while persistence or cleanup is pending.
TerminalWriteOnce ==
    \A u \in Users :
        /\ local[u].intent = "success" => local[u].status = "completed"
        /\ local[u].intent \in {"failed", "timeout"} => local[u].status = local[u].intent

-----------------------------------------------------------------------------
(***************************************************************************)
(* Liveness.  A thread that holds a lock or runs a setup goes on; leases   *)
(* run out; the destroy worker polls.  The watchers only try the lock,     *)
(* once per tick, and the worker queues for it: if it is free again and    *)
(* again they get it.                                                      *)
(***************************************************************************)
ServiceFairness ==
    /\ WF_svcVars(Startup)
    /\ \A u \in Users :
          /\ WF_svcVars(Transition(u))
          /\ SF_svcVars(CheckCrashes(u))
          /\ SF_svcVars(CheckTimeouts(u))
          /\ SF_svcVars(RetryTerminalCleanup(u))
          /\ SF_svcVars(\E a \in Allocs : ProcessProvisionableCreate(u, a))
    /\ \A a \in Allocs :
          /\ SF_svcVars(SetupEnvironment(a))
          /\ SF_svcVars(ProcessDestroyWork(a))
          /\ WF_svcVars(LeaseExpires(a))
    /\ SF_svcVars(WorkerLock)
    /\ WF_svcVars(WorkerCall \/ WorkerMark)

ServiceFairSpec == ServiceSpec /\ ServiceFairness

\* A reset's pending replacement is created, or its session is over, without
\* the client ever asking again (ProcessProvisionableCreate).
ResetResumes ==
    \A a \in Allocs : a[2] > 1 =>
        (createOp[a] = "pending" ~> \/ createOp[a] = "succeeded"
                                    \/ ~Serviceable(a) \/ stage # "up")

\* No session stays in grading past its deadline, even when the grading request
\* never learnt that it began or could not record its result.
VerifyingEnds ==
    \A s \in Sessions : sessState[s] = "verifying" /\ expired[s]
        ~> sessState[s] # "verifying" \/ stage # "up"

\* The cleanup watcher retries a terminal intent until persistence and cleanup
\* have succeeded; then the session leaves memory and the user may start again.
TerminalIntentCompletes ==
    \A u \in Users : local[u].intent # "none" ~> local[u] = NoSession \/ stage # "up"

=============================================================================
