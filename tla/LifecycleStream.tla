-------------------------- MODULE LifecycleStream --------------------------
(***************************************************************************)
(* The lifecycle stream over the durable store: the snapshot and the       *)
(* cursor of a session (runner/lifecycle.go), and the server's side of the *)
(* browser's WebSocket (ws/lifecycle.go), which sends a snapshot first and *)
(* then polls for what follows its cursor.                                 *)
(*                                                                         *)
(* Reads are repeatable-read transactions, so one read is one action.  The *)
(* browser keeps the last cursor it was sent and resumes from it.          *)
(***************************************************************************)
EXTENDS RunnerStore

CONSTANT ReplayLimit   \* lifecycleReplayLimit

ASSUME ReplayLimitAssumption == ReplayLimit \in Nat \ {0}

VARIABLES
    reserved,  \* the sessions in queued_at order
    conn,      \* conn[u]: "closed" or "open"
    cursor,    \* cursor[u]: <<session, generation, sequence>>, <<>> for none
    shown      \* shown[u]: the last snapshot frame sent, <<>> for none

streamVars == <<conn, cursor, shown>>
allVars == <<vars, reserved, streamVars>>

-----------------------------------------------------------------------------
(***************************************************************************)
(* What is read.                                                           *)
(***************************************************************************)
CurrentEvents(s) == events[<<s, currentGen[s]>>]

CleanupPending(s) ==
    \E g \in 1..currentGen[s] :
       /\ sessDesired[s] = "absent" \/ g < currentGen[s]
       /\ ~Absent(<<s, g>>)

\* The first terminal event names the reason.
TerminalReason(s) ==
    LET es == CurrentEvents(s)
        terminal == {i \in 1..Len(es) : es[i][1] \in
                       {"failed", "timed_out", "provider_lost", "destroying"}}
        first == es[CHOOSE i \in terminal : \A j \in terminal : i <= j][1]
    IN  CASE terminal = {} -> "none"
          [] first = "destroying" -> outcome[<<s, currentGen[s]>>]
          [] OTHER -> first

\* The grades on the current allocation; the latest of them is shown.
Graded(s) ==
    {k \in ClientOps : /\ opAlloc[k] = <<s, currentGen[s]>>
                       /\ opState[k] \in {"passed", "rejected"}}

Watermark(s) == <<s, currentGen[s], Len(CurrentEvents(s))>>

LifecycleSnapshot(s) ==
    [cursor |-> Watermark(s), status |-> sessState[s],
     cleanupPending |-> CleanupPending(s), reason |-> TerminalReason(s),
     graded |-> Graded(s)]

Outstanding(u, s) ==
    Owner[s] = u /\ \E g \in 1..currentGen[s] : ~Absent(<<s, g>>)

\* lifecycleActiveSessionID: the newest session with anything outstanding, as
\* a set of at most one session.
ActiveLifecycleSession(u) ==
    LET positions == {i \in 1..Len(reserved) : Outstanding(u, reserved[i])}
    IN  {reserved[i] : i \in {p \in positions : \A q \in positions : q <= p}}

-----------------------------------------------------------------------------
(***************************************************************************)
(* The connection of a user.                                               *)
(***************************************************************************)
SendSnapshot(u, s) ==
    /\ cursor' = [cursor EXCEPT ![u] = Watermark(s)]
    /\ shown' = [shown EXCEPT ![u] = LifecycleSnapshot(s)]

SendNull(u) ==
    /\ cursor' = [cursor EXCEPT ![u] = <<>>]
    /\ shown' = [shown EXCEPT ![u] = <<>>]

\* BootstrapLifecycle with the cursor the browser resumes from: the active
\* session, else the resumed one, else none.
Bootstrap(u, resume) ==
    LET active == ActiveLifecycleSession(u) IN
    \/ \E s \in active : SendSnapshot(u, s)
    \/ active = {} /\ resume # <<>> /\ SendSnapshot(u, resume[1])
    \/ active = {} /\ resume = <<>> /\ SendNull(u)

\* The browser resumes from its cursor, unless it has none or sends it later
\* than the grace period.
Connect(u) ==
    /\ Serving
    /\ conn[u] = "closed"
    /\ conn' = [conn EXCEPT ![u] = "open"]
    /\ \E resume \in {cursor[u], <<>>} : Bootstrap(u, resume)
    /\ UNCHANGED <<vars, reserved>>

Disconnect(u) ==
    /\ conn[u] = "open"
    /\ conn' = [conn EXCEPT ![u] = "closed"]
    /\ UNCHANGED <<vars, reserved, cursor, shown>>

PollEmpty(u) ==
    /\ cursor[u] = <<>>
    /\ \E s \in ActiveLifecycleSession(u) : SendSnapshot(u, s)

Switch(u) ==
    \E s \in ActiveLifecycleSession(u) : s # cursor[u][1] /\ SendSnapshot(u, s)

OnCurrentSession(u) == ActiveLifecycleSession(u) \subseteq {cursor[u][1]}

ChangeGeneration(u) ==
    /\ cursor[u][2] # currentGen[cursor[u][1]]
    /\ SendSnapshot(u, cursor[u][1])

Page_Full(behind) == ReplayLimit

\* The events of one read: at most ReplayLimit of those behind the watermark.
Page(behind) == IF behind < ReplayLimit THEN behind ELSE ReplayLimit

SendEvents(u) ==
    LET s == cursor[u][1]
        behind == Len(CurrentEvents(s)) - cursor[u][3] IN
    /\ cursor[u][2] = currentGen[s]
    /\ behind > 0
    /\ cursor' = [cursor EXCEPT ![u][3] = @ + Page(behind)]
    /\ UNCHANGED shown

TombstoneReady_Intent(s) == sessDesired[s] = "absent"

TombstoneReady_Terminal(s) == sessState[s] \in Outcomes /\ ~CleanupPending(s)

\* Desired-absent is only an intent.
TombstoneReady(s) == sessDesired[s] = "absent" /\ ~CleanupPending(s)

Tombstone(u) ==
    LET s == cursor[u][1] IN
    /\ cursor[u] = Watermark(s)
    /\ TombstoneReady(s)
    /\ SendNull(u)

\* One tick of the poll: ReadLifecycleDelta from the connection's cursor.
Poll(u) ==
    /\ Serving
    /\ conn[u] = "open"
    /\ \/ PollEmpty(u)
       \/ /\ cursor[u] # <<>>
          /\ \/ Switch(u)
             \/ OnCurrentSession(u) /\ (ChangeGeneration(u) \/ SendEvents(u) \/ Tombstone(u))
    /\ UNCHANGED <<vars, reserved, conn>>

-----------------------------------------------------------------------------
StreamInit ==
    /\ Init
    /\ reserved = <<>>
    /\ conn = [u \in Users |-> "closed"]
    /\ cursor = [u \in Users |-> <<>>]
    /\ shown = [u \in Users |-> <<>>]

\* What a step of the store means here: a new session is the newest, and a
\* restart of the controller closes every connection.
Follow ==
    /\ reserved' = reserved \o
          LET new == {s \in Sessions : sessState[s] = "none" /\ sessState'[s] # "none"}
          IN  IF new = {} THEN <<>> ELSE <<CHOOSE s \in new : TRUE>>
    /\ conn' = IF restarts' # restarts THEN [u \in Users |-> "closed"] ELSE conn
    /\ UNCHANGED <<cursor, shown>>

StreamNext ==
    \/ Next /\ Follow
    \/ \E u \in Users : Connect(u) \/ Disconnect(u) \/ Poll(u)

StreamSpec == StreamInit /\ [][StreamNext]_allVars

\* The browser reconnects, and a connection lives long enough to be polled.
StreamFairness ==
    /\ WF_allVars(PrepareRecoveryWork /\ Follow)
    /\ WF_allVars(RefuseRecovery /\ Follow)
    /\ WF_allVars(Activate /\ Follow)
    /\ \A a \in Allocs : WF_allVars(ConvergeLocalRestart(a) /\ Follow)
    /\ \A u \in Users : WF_allVars(Connect(u)) /\ SF_allVars(Poll(u))

FairStreamSpec == StreamSpec /\ StreamFairness

-----------------------------------------------------------------------------
(***************************************************************************)
(* Properties.                                                             *)
(***************************************************************************)

\* Snapshots with the same cursor are the same snapshot, as markDestroyed says
\* of its predecessor event ("so equal-watermark snapshots can never disagree
\* about it"): the frontend may then discard a snapshot that does not advance
\* its cursor.  convergeOneLocalRestart breaks it: it tells the end of an older
\* generation to that generation's own journal only.
EqualWatermarkSnapshotsAgree ==
    \A u \in Users : Serving /\ shown[u] # <<>> =>
       LET now == LifecycleSnapshot(shown[u].cursor[1])
       IN  now.cursor = shown[u].cursor => now = shown[u]

\* Whatever changes what a browser is shown of a session moves the session's
\* watermark.  The one exception is a restart that converges an older
\* generation: it may end the pending cleanup, and changes nothing else.
ChangesMoveWatermark ==
    [][\A s \in Sessions :
          currentGen[s] > 0 /\ Watermark(s)' = Watermark(s) =>
             \/ LifecycleSnapshot(s)' = LifecycleSnapshot(s)
             \/ /\ \E a \in recoverySet \ recoverySet' : a[1] = s /\ ~IsCurrent(a)
                /\ LifecycleSnapshot(s)' = [LifecycleSnapshot(s) EXCEPT !.cleanupPending = FALSE]]_allVars

\* A cursor that was sent can be resumed: its event exists in its journal, so
\* ReadLifecycleDelta never finds it unavailable.
CursorsResumable ==
    \A u \in Users : cursor[u] # <<>> =>
       LET s == cursor[u][1] g == cursor[u][2] IN
       /\ Owner[s] = u
       /\ g \in 1..currentGen[s]
       /\ cursor[u][3] \in 1..Len(events[<<s, g>>])

\* A browser is told that it has no session only when nothing of any of the
\* user's sessions is left at the provider.
NullMeansGone ==
    [][\A u \in Users : cursor[u] # <<>> /\ cursor'[u] = <<>> =>
          \A s \in Sessions : ~Outstanding(u, s)]_allVars

\* A session that is over and gone is eventually withdrawn from the browser.
GoneIsWithdrawn ==
    \A u \in Users, s \in Sessions :
       (cursor[u] # <<>> /\ cursor[u][1] = s /\ sessDesired[s] = "absent"
        /\ ~CleanupPending(s))
         ~> (cursor[u] = <<>> \/ cursor[u][1] # s \/ phase = "refused")

=============================================================================
