----------------------------- MODULE TerminalHub -----------------------------
(***************************************************************************)
(* One user's terminal sockets: the tabs that open them, reconnect and     *)
(* give up, the handler that prepares a candidate terminal beside the      *)
(* established one, the commit under the user's transition lock, and the   *)
(* hub that decides who owns the terminal.  The session below it is reset  *)
(* and ended while candidates are under way.  The runner grants a lease to *)
(* a first terminal, or to a candidate that names the single other one as  *)
(* its predecessor; LocalDockerRunner shows how.                           *)
(***************************************************************************)
EXTENDS Naturals, FiniteSets

CONSTANTS
    Tabs, Sockets,
    MaxGen,       \* bound: generations of the session
    MaxAttempts,  \* MAX_RECONNECT_ATTEMPTS
    MaxFaults     \* bound: dropped connections, refused opens, manual retries

ASSUME TerminalBounds ==
    /\ IsFiniteSet(Tabs) /\ IsFiniteSet(Sockets)
    /\ {"none", "free", "reset"} \cap Sockets = {}
    /\ MaxGen \in Nat \ {0} /\ MaxAttempts \in Nat /\ MaxFaults \in Nat

VARIABLES
    gen, status,   \* the session: its generation; ready, creating or over
    lock,          \* the user's transition lock: free, a reset, or a socket
    terminals,     \* sockets whose shell is open at the runner
    hub,           \* the owner in Hub.clients
    closed,        \* Hub.closed
    sock, tab, faults

sessionVars == <<gen, status>>
vars == <<gen, status, lock, terminals, hub, closed, sock, tab, faults>>

Free == [pc |-> "free", gen |-> 1, prev |-> "none", live |-> FALSE,
         conn |-> "closed", ack |-> FALSE, victim |-> "none"]

Steps == {"begin", "open", "check", "await", "commit", "swap",
          "displace", "serve", "unwind", "unregister"}

(* The types; only a socket past its commit is in the hub, a lock held by  *)
(* a socket is held for its commit, and a tab shows a socket it opened.    *)
TypeOK ==
    /\ gen \in 1..MaxGen /\ status \in {"ready", "creating", "over"} /\ closed \in BOOLEAN
    /\ terminals \subseteq Sockets
    /\ lock \in {"free", "reset"} \cup {c \in Sockets : sock[c].pc = "swap"}
    /\ hub \in {"none"} \cup {c \in Sockets : sock[c].pc \in
                  {"displace", "serve", "unwind", "unregister"}}
    /\ \A c \in Sockets : /\ sock[c].pc \in Steps \cup {"free"}
                          /\ sock[c].conn \in {"up", "dead", "closed", "replaced"}
    /\ \A b \in Tabs : /\ tab[b].st \in {"timer", "connecting", "attached",
                                         "failed", "moved", "over"}
                       /\ tab[b].attempts \in 0..MaxAttempts
                       /\ tab[b].st \in {"connecting", "attached"} <=> tab[b].sock # "none"
    /\ faults \in 0..MaxFaults

Init ==
    /\ gen = 1 /\ status = "ready" /\ lock = "free"
    /\ terminals = {} /\ hub = "none" /\ closed = FALSE
    /\ sock = [c \in Sockets |-> Free]
    /\ tab = [b \in Tabs |-> [st |-> "timer", sock |-> "none", attempts |-> 0, gen |-> 1]]
    /\ faults = 0

At(c, pc) == sock[c].pc = pc
(* What a step leaves behind is forgotten once it is no longer read.       *)
Go(c, pc) ==
    sock' = [sock EXCEPT ![c].pc = pc,
                         ![c].prev = IF pc \in {"check", "await", "commit", "swap"} THEN @ ELSE "none",
                         ![c].ack = FALSE]

(* Client.Close and CloseWith: the first close decides the code, cancels   *)
(* the socket's context and closes the connection.                         *)
Shut(f, c, code) ==
    [f EXCEPT ![c].live = FALSE,
              ![c].conn = IF f[c].conn = "up" THEN code ELSE @]

-----------------------------------------------------------------------------
(* The tab.                                                                *)

(* A browser opens a socket for the session it shows; the handler accepts  *)
(* it when that is the current, ready one, and otherwise closes it.        *)
Connect(b) ==
    /\ tab[b].st = "timer"
    /\ \E c \in Sockets :
        /\ At(c, "free") /\ \A a \in Tabs : tab[a].sock # c
        /\ \A d \in Sockets : c \notin {sock[d].prev, sock[d].victim}
        /\ tab' = [tab EXCEPT ![b].st = "connecting", ![b].sock = c]
        /\ sock' = [sock EXCEPT ![c] =
             [Free EXCEPT !.gen = tab[b].gen,
                !.pc = IF status = "ready" /\ gen = tab[b].gen /\ ~closed THEN "begin" ELSE "unregister",
                !.conn = "up", !.live = TRUE]]
    /\ UNCHANGED <<sessionVars, lock, terminals, hub, closed, faults>>

(* terminal_attached arrives: the tab answers terminal_ready.              *)
Acknowledge(b) ==
    LET c == tab[b].sock IN
    /\ tab[b].st = "connecting" /\ At(c, "await") /\ sock[c].conn = "up"
    /\ tab' = [tab EXCEPT ![b].st = "attached"]
    /\ sock' = [sock EXCEPT ![c].ack = TRUE]
    /\ UNCHANGED <<sessionVars, lock, terminals, hub, closed, faults>>

(* Terminal output shows that the connection is healthy.                   *)
Output(b) ==
    /\ tab[b].st = "attached" /\ At(tab[b].sock, "serve") /\ tab[b].attempts > 0
    /\ sock[tab[b].sock].conn = "up"
    /\ tab' = [tab EXCEPT ![b].attempts = 0]
    /\ UNCHANGED <<sessionVars, lock, terminals, hub, closed, sock, faults>>

ShouldReconnect_Always(code) == TRUE
ShouldReconnect(code) == code # "replaced"

Left(b, st, n) == tab' = [tab EXCEPT ![b].st = st, ![b].sock = "none", ![b].attempts = n]

(* onclose: another tab has taken over, the session is over, or the tab    *)
(* tries again until its attempts are used up.                             *)
OnClose(b) ==
    LET conn == sock[tab[b].sock].conn IN
    /\ tab[b].sock # "none" /\ conn # "up"
    /\ \/ ~ShouldReconnect(conn) /\ Left(b, "moved", tab[b].attempts)
       \/ ShouldReconnect(conn) /\ status = "over" /\ Left(b, "over", tab[b].attempts)
       \/ /\ ShouldReconnect(conn) /\ tab[b].attempts < MaxAttempts
          /\ Left(b, "timer", tab[b].attempts + 1)
       \/ /\ ShouldReconnect(conn) /\ tab[b].attempts = MaxAttempts
          /\ Left(b, "failed", tab[b].attempts)
    /\ UNCHANGED <<sessionVars, lock, terminals, hub, closed, sock, faults>>

(* The page shows another generation: the terminal is mounted anew.        *)
Remount(b) ==
    /\ tab[b].gen < gen /\ status = "ready"
    /\ tab' = [tab EXCEPT ![b] = [st |-> "timer", sock |-> "none", attempts |-> 0, gen |-> gen]]
    /\ sock' = IF tab[b].sock = "none" THEN sock
               ELSE [sock EXCEPT ![tab[b].sock].conn = IF @ = "up" THEN "dead" ELSE @]
    /\ UNCHANGED <<sessionVars, lock, terminals, hub, closed, faults>>

(* The user presses the retry button of a failed terminal.                 *)
Retry(b) ==
    /\ tab[b].st = "failed" /\ faults < MaxFaults /\ faults' = faults + 1
    /\ tab' = [tab EXCEPT ![b].st = "timer", ![b].attempts = 0]
    /\ UNCHANGED <<sessionVars, lock, terminals, hub, closed, sock>>

-----------------------------------------------------------------------------
(* serveTerminal.                                                          *)

(* The owner that the candidate means to replace.                          *)
SnapshotOwner(c) ==
    /\ At(c, "begin")
    /\ sock' = [sock EXCEPT ![c].pc = "open", ![c].prev = hub]
    /\ UNCHANGED <<sessionVars, lock, terminals, hub, closed, tab, faults>>

Leases(g) == {c \in terminals : sock[c].gen = g}

(* The runner opens the shell, or refuses: the allocation has changed, or  *)
(* another lease than the named predecessor is open.                       *)
OpenTerminal(c) ==
    /\ At(c, "open")
    /\ \/ /\ sock[c].gen = gen
          /\ Leases(gen) \subseteq {sock[c].prev}
          /\ terminals' = terminals \cup {c} /\ Go(c, "check") /\ UNCHANGED faults
       \/ /\ sock[c].gen # gen \/ ~(Leases(gen) \subseteq {sock[c].prev})
          /\ Go(c, "unregister") /\ UNCHANGED <<terminals, faults>>
       \/ /\ faults < MaxFaults /\ faults' = faults + 1
          /\ Go(c, "unregister") /\ UNCHANGED terminals
    /\ UNCHANGED <<sessionVars, lock, hub, closed, tab>>

Current(c) == status = "ready" /\ sock[c].gen = gen /\ ~closed

(* The target is checked again, and the tab is told that it is attached.   *)
SendAttached(c) ==
    /\ At(c, "check")
    /\ Go(c, IF sock[c].live /\ Current(c) THEN "await" ELSE "unwind")
    /\ UNCHANGED <<sessionVars, lock, terminals, hub, closed, tab, faults>>

(* The tab's acknowledgement, a cancelled socket, or ten seconds.          *)
WaitTerminalReady(c) ==
    /\ At(c, "await")
    /\ \/ sock[c].live /\ sock[c].ack /\ Go(c, "commit") /\ UNCHANGED faults
       \/ ~sock[c].live /\ Go(c, "unwind") /\ UNCHANGED faults
       \/ /\ ~sock[c].ack /\ faults < MaxFaults
          /\ faults' = faults + 1 /\ Go(c, "unwind")
    /\ UNCHANGED <<sessionVars, lock, terminals, hub, closed, tab>>

(* AcquireTerminalCommit: the transition lock, and under it the check that *)
(* the allocation is still the current ready one.                          *)
AcquireCommit_Snapshot(c) ==
    /\ At(c, "commit")
    /\ Go(c, IF Current(c) /\ sock[c].live THEN "swap" ELSE "unwind")
    /\ UNCHANGED <<sessionVars, lock, terminals, hub, closed, tab, faults>>

AcquireCommit(c) ==
    /\ At(c, "commit")
    /\ \/ /\ lock = "free" /\ Current(c) /\ sock[c].live
          /\ lock' = c /\ Go(c, "swap")
       \/ /\ \/ lock = "free" /\ ~(Current(c) /\ sock[c].live)
             \/ lock # "free" /\ ~sock[c].live
          /\ UNCHANGED lock /\ Go(c, "unwind")
    /\ UNCHANGED <<sessionVars, terminals, hub, closed, tab, faults>>

(* The hub takes the candidate if it is open, the candidate alive and the  *)
(* owner the one the candidate saw; then the lock is released.             *)
Accepted_IgnoresClosed(c) == sock[c].live /\ hub = sock[c].prev
Accepted(c) == ~closed /\ sock[c].live /\ hub = sock[c].prev
Released(c) == IF lock = c THEN "free" ELSE lock

ReplaceIfCurrent_Holds(c) ==
    /\ At(c, "swap")
    /\ IF Accepted(c)
       THEN /\ hub' = c /\ lock' = Released(c)
            /\ sock' = [sock EXCEPT ![c].pc = "displace", ![c].prev = "none",
                                    ![c].victim = hub]
       ELSE Go(c, "unwind") /\ UNCHANGED <<hub, lock>>
    /\ UNCHANGED <<sessionVars, terminals, closed, tab, faults>>

ReplaceIfCurrent(c) ==
    /\ At(c, "swap")
    /\ IF Accepted(c)
       THEN /\ hub' = c
            /\ sock' = [sock EXCEPT ![c].pc = "displace", ![c].prev = "none",
                                    ![c].victim = hub]
       ELSE Go(c, "unwind") /\ UNCHANGED hub
    /\ lock' = Released(c)
    /\ UNCHANGED <<sessionVars, terminals, closed, tab, faults>>

(* closeDisplaced: only now is the previous connection closed.             *)
CloseDisplaced_Plain(c) ==
    /\ At(c, "displace")
    /\ sock' = [sock EXCEPT ![c].pc = "serve", ![c].victim = "none"]
    /\ UNCHANGED <<sessionVars, lock, terminals, hub, closed, tab, faults>>

CloseDisplaced(c) ==
    LET v == sock[c].victim
        shut == IF v = "none" THEN sock ELSE Shut(sock, v, "replaced")
    IN /\ At(c, "displace")
       /\ sock' = [shut EXCEPT ![c].pc = "serve", ![c].victim = "none"]
       /\ UNCHANGED <<sessionVars, lock, terminals, hub, closed, tab, faults>>

(* The loop forwards frames until the context or the shell ends.           *)
ServeEnds(c) ==
    /\ At(c, "serve")
    /\ ~sock[c].live \/ c \notin terminals
    /\ Go(c, "unwind")
    /\ UNCHANGED <<sessionVars, lock, terminals, hub, closed, tab, faults>>

(* The deferred calls: the shell is closed, the hub forgets this owner,    *)
(* and the connection is closed.                                           *)
Unwind(c) ==
    /\ At(c, "unwind")
    /\ terminals' = terminals \ {c}
    /\ Go(c, "unregister")
    /\ UNCHANGED <<sessionVars, lock, hub, closed, tab, faults>>

Unregister_Keeps(c) ==
    /\ At(c, "unregister")
    /\ sock' = [Shut(sock, c, "closed") EXCEPT ![c].pc = "free", ![c].gen = 1]
    /\ UNCHANGED <<sessionVars, lock, terminals, hub, closed, tab, faults>>

Unregister(c) ==
    /\ At(c, "unregister")
    /\ hub' = IF hub = c THEN "none" ELSE hub
    /\ sock' = [Shut(sock, c, "closed") EXCEPT ![c].pc = "free", ![c].gen = 1]
    /\ UNCHANGED <<sessionVars, lock, terminals, closed, tab, faults>>

-----------------------------------------------------------------------------
(* The network, the session and the process.                               *)

Drop(c) ==
    /\ sock[c].conn = "up" /\ faults < MaxFaults /\ faults' = faults + 1
    /\ sock' = [sock EXCEPT ![c].conn = "dead"]
    /\ UNCHANGED <<sessionVars, lock, terminals, hub, closed, tab>>

(* readTerminalSocket: the read fails, at once or at the idle timeout.     *)
ReadFails(c) ==
    /\ ~At(c, "free") /\ sock[c].live /\ sock[c].conn # "up"
    /\ sock' = [sock EXCEPT ![c].live = FALSE]
    /\ UNCHANGED <<sessionVars, lock, terminals, hub, closed, tab, faults>>

(* A reset or an end, under the transition lock from its first change to   *)
(* its last.                                                               *)
BeginTransition ==
    /\ lock = "free" /\ status = "ready"
    /\ lock' = "reset"
    /\ \/ gen < MaxGen /\ gen' = gen + 1 /\ status' = "creating"
       \/ status' = "over" /\ UNCHANGED gen
    /\ UNCHANGED <<terminals, hub, closed, sock, tab, faults>>

EndTransition ==
    /\ lock = "reset" /\ lock' = "free"
    /\ UNCHANGED <<sessionVars, terminals, hub, closed, sock, tab, faults>>

(* The runner destroys an allocation, and closes its terminals.            *)
DestroyAllocation ==
    LET old == {c \in terminals : sock[c].gen < gen \/ status = "over"} IN
    /\ old # {}
    /\ terminals' = terminals \ old
    /\ UNCHANGED <<sessionVars, lock, hub, closed, sock, tab, faults>>

Provisioned ==
    /\ status = "creating" /\ lock = "free"
    /\ status' = "ready"
    /\ UNCHANGED <<gen, lock, terminals, hub, closed, sock, tab, faults>>

(* CloseAll at shutdown.                                                   *)
CloseAll ==
    /\ ~closed /\ closed' = TRUE /\ hub' = "none"
    /\ sock' = IF hub = "none" THEN sock ELSE Shut(sock, hub, "closed")
    /\ UNCHANGED <<sessionVars, lock, terminals, tab, faults>>

SocketStep(c) ==
    \/ SnapshotOwner(c)
    \/ OpenTerminal(c)
    \/ SendAttached(c)
    \/ WaitTerminalReady(c)
    \/ AcquireCommit(c)
    \/ ReplaceIfCurrent(c)
    \/ CloseDisplaced(c)
    \/ ServeEnds(c)
    \/ Unwind(c)
    \/ Unregister(c)
    \/ ReadFails(c)

TabStep(b) ==
    \/ Connect(b)
    \/ Acknowledge(b)
    \/ Output(b)
    \/ OnClose(b)
    \/ Remount(b)

Next ==
    \/ \E c \in Sockets : SocketStep(c)
    \/ \E b \in Tabs : TabStep(b)
    \/ \E b \in Tabs : Retry(b)
    \/ \E c \in Sockets : Drop(c)
    \/ BeginTransition
    \/ EndTransition
    \/ DestroyAllocation
    \/ Provisioned
    \/ CloseAll

Spec == Init /\ [][Next]_vars

(* Handlers and browsers make progress; locks are held for bounded work,   *)
(* and a lock that is released again and again is obtained.                *)
FairSpec ==
    /\ Spec
    /\ \A c \in Sockets : WF_vars(SocketStep(c)) /\ SF_vars(AcquireCommit(c))
    /\ \A b \in Tabs : WF_vars(TabStep(b))
    /\ WF_vars(EndTransition) /\ WF_vars(DestroyAllocation) /\ WF_vars(Provisioned)

-----------------------------------------------------------------------------
(* A terminal becomes the owner only for the allocation that is current    *)
(* and ready at that moment: no reset or end slips in between the check    *)
(* and the takeover.                                                       *)
TakeoverIsCurrent ==
    [][\A c \in Sockets : hub' = c /\ hub # c =>
           sock[c].gen = gen /\ status = "ready"]_vars

(* One terminal at a time takes the user's input: a socket that serves and *)
(* is not the owner is being closed, by the owner that displaced it, by    *)
(* its own failure or by the shutdown.                                     *)
OneWriter ==
    \A c \in Sockets :
        At(c, "serve") /\ sock[c].live =>
            hub = c \/ \E d \in Sockets : sock[d].victim = c

(* No socket owns the terminal after the shutdown closed the hub.          *)
ClosedHubStaysEmpty == closed => hub = "none"

(* Tabs do not evict each other forever: once the network and the session  *)
(* are quiet, every tab has its terminal, has given up or has been told    *)
(* that another tab took over, and it stays so.                            *)
TabsSettle ==
    <>[](\A b \in Tabs : tab[b].st \in {"attached", "moved", "failed", "over"})

(* The transition lock comes back from every terminal commit, whatever     *)
(* becomes of the candidate, so that resets and ends can go on.            *)
CommitReleasesLock == \A c \in Sockets : lock = c ~> lock # c
=============================================================================
