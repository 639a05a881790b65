------------------------- MODULE TerminalHubProofs --------------------------
(***************************************************************************)
(* The terminal of one user, for any number of tabs, sockets, generations  *)
(* and faults: a takeover is for the current, ready allocation, only the   *)
(* owner goes on serving, and a closed hub stays empty.                    *)
(***************************************************************************)
EXTENDS TerminalHub, TLAPS

\* The provers for the leaves that name none, and their time limits.
USE ZenonT(4), SMTT(30)

-----------------------------------------------------------------------------
(***************************************************************************)
(* The inductive invariant.                                                *)
(***************************************************************************)
Owning == {"displace", "serve", "unwind", "unregister"}
SocketType ==
    [pc : Steps \cup {"free"}, gen : 1..MaxGen, prev : Sockets \cup {"none"}, live : BOOLEAN,
     conn : {"up", "dead", "closed", "replaced"}, ack : BOOLEAN, victim : Sockets \cup {"none"}]
TabType ==
    [st : {"timer", "connecting", "attached", "failed", "moved", "over"},
     sock : Sockets \cup {"none"}, attempts : 0..MaxAttempts, gen : 1..MaxGen]

Types ==
    /\ gen \in 1..MaxGen /\ status \in {"ready", "creating", "over"} /\ closed \in BOOLEAN
    /\ terminals \subseteq Sockets /\ faults \in 0..MaxFaults
    /\ sock \in [Sockets -> SocketType]
    /\ tab \in [Tabs -> TabType]
    /\ \A b \in Tabs : tab[b].st \in {"connecting", "attached"} <=> tab[b].sock # "none"

\* A candidate between its check and its takeover holds the transition lock, and
\* what it checked still holds.
Commits ==
    /\ lock \in {"free", "reset"} \cup {c \in Sockets : At(c, "swap")}
    /\ \A c \in Sockets : At(c, "swap") =>
          lock = c /\ sock[c].gen = gen /\ status = "ready"

\* Who is past the takeover is the owner, or somebody is about to close it.
Writers ==
    /\ \A c \in Sockets : sock[c].victim # "none" => At(c, "displace")
    /\ \A c \in Sockets : sock[c].pc \in {"displace", "serve"} /\ sock[c].live =>
          hub = c \/ \E d \in Sockets : sock[d].victim = c

Owner == hub \in {"none"} \cup {c \in Sockets : sock[c].pc \in Owning} /\ ClosedHubStaysEmpty

HubInv == Types /\ Commits /\ Writers /\ Owner

-----------------------------------------------------------------------------
(***************************************************************************)
(* Steps that leave the session, the lock and the hub alone.               *)
(***************************************************************************)

LEMMA Distinct == \A c \in Sockets : c # "none" /\ c # "free" /\ c # "reset"
  BY TerminalBounds

\* What such a step may make of a socket.
Tame(d) ==
    /\ sock'[d].victim = sock[d].victim
    /\ \/ /\ sock'[d].pc = sock[d].pc /\ sock'[d].gen = sock[d].gen
          /\ sock'[d].live => sock[d].live
       \/ /\ sock'[d].pc \notin {"swap", "displace", "serve"}
          /\ sock[d].pc \notin {"swap", "displace"}
          /\ hub = d => sock'[d].pc \in Owning

LEMMA TameStep ==
    ASSUME HubInv, Types', UNCHANGED <<gen, status, lock, hub, closed>>, \A d \in Sockets : Tame(d)
    PROVE  HubInv'
  <1>1. Commits'
    <2>1. \A c \in Sockets : sock'[c].pc = "swap" => sock[c].pc = "swap" /\ sock'[c].gen = sock[c].gen
      BY DEF Tame
    <2>2. \A c \in Sockets : sock[c].pc = "swap" => sock'[c].pc = "swap"
      BY DEF Tame
    <2>3. QED
      BY <2>1, <2>2 DEF HubInv, Commits, At
  <1>2. Writers'
    <2>1. ASSUME NEW c \in Sockets, sock'[c].victim # "none" PROVE sock'[c].pc = "displace"
      BY <2>1 DEF HubInv, Writers, At, Tame
    <2>2. ASSUME NEW c \in Sockets, sock'[c].pc \in {"displace", "serve"}, sock'[c].live
          PROVE  hub' = c \/ \E d \in Sockets : sock'[d].victim = c
      <3>1. sock[c].pc \in {"displace", "serve"} /\ sock[c].live
        BY <2>2 DEF Tame
      <3>2. QED
        BY <3>1, SMTT(30) DEF HubInv, Writers, Tame
    <2>3. QED
      BY <2>1, <2>2 DEF Writers, At
  <1>3. Owner'
    <2>1. ASSUME hub # "none" PROVE hub \in Sockets /\ sock'[hub].pc \in Owning
      BY <2>1 DEF HubInv, Owner, Tame, Owning
    <2>2. QED
      BY <2>1 DEF HubInv, Owner, ClosedHubStaysEmpty
  <1>4. QED
    BY <1>1, <1>2, <1>3 DEF HubInv

\* One field of a socket's record.
LEMMA RecordFields ==
    ASSUME NEW x \in SocketType
    PROVE  /\ \A v \in Steps \cup {"free"} : [x EXCEPT !.pc = v] \in SocketType
           /\ \A v \in 1..MaxGen : [x EXCEPT !.gen = v] \in SocketType
           /\ \A v \in Sockets \cup {"none"} :
                 [x EXCEPT !.prev = v] \in SocketType /\ [x EXCEPT !.victim = v] \in SocketType
           /\ \A v \in {"up", "dead", "closed", "replaced"} : [x EXCEPT !.conn = v] \in SocketType
           /\ \A v \in BOOLEAN : [x EXCEPT !.live = v] \in SocketType /\ [x EXCEPT !.ack = v] \in SocketType
  BY Zenon DEF SocketType

\* The handler of a socket goes on to another statement.
LEMMA GoMoves ==
    ASSUME sock \in [Sockets -> SocketType], NEW c \in Sockets, NEW p \in Steps \cup {"free"}, Go(c, p)
    PROVE  /\ sock' \in [Sockets -> SocketType]
           /\ sock'[c].pc = p /\ sock'[c].gen = sock[c].gen
           /\ sock'[c].live = sock[c].live /\ sock'[c].victim = sock[c].victim
           /\ \A d \in Sockets : d # c => sock'[d] = sock[d]
  <1>1. PICK kept : kept = IF p \in {"check", "await", "commit", "swap"} THEN sock[c].prev ELSE "none"
    OBVIOUS
  <1>2. PICK x, y, z : x = [sock[c] EXCEPT !.pc = p] /\ y = [x EXCEPT !.prev = kept] /\ z = [y EXCEPT !.ack = FALSE]
    OBVIOUS
  <1>3. sock[c] \in SocketType /\ kept \in Sockets \cup {"none"}
    BY <1>1 DEF SocketType
  <1>4. x \in SocketType
    BY <1>2, <1>3, RecordFields
  <1>5. y \in SocketType
    BY <1>2, <1>3, <1>4, RecordFields
  <1>6. z \in SocketType
    BY <1>2, <1>5, RecordFields
  <1>7. /\ z.pc = p /\ z.gen = sock[c].gen /\ z.live = sock[c].live /\ z.victim = sock[c].victim
        /\ x.prev = sock[c].prev
    BY <1>2, <1>3, <1>4, <1>5, <1>6, SMTT(30) DEF SocketType
  <1>8. PICK s1 : s1 = [sock EXCEPT ![c] = x]
    OBVIOUS
  <1>9. PICK s2 : s2 = [s1 EXCEPT ![c] = y]
    OBVIOUS
  <1>10. s1 \in [Sockets -> SocketType] /\ s1[c] = x /\ \A d \in Sockets : d # c => s1[d] = sock[d]
    BY <1>4, <1>8
  <1>11. s2 \in [Sockets -> SocketType] /\ s2[c] = y /\ \A d \in Sockets : d # c => s2[d] = sock[d]
    BY <1>5, <1>9, <1>10
  <1>12. sock' = [s2 EXCEPT ![c] = z]
    BY <1>1, <1>2, <1>7, <1>8, <1>9, <1>10, <1>11 DEF Go
  <1>13. QED
    BY <1>6, <1>7, <1>11, <1>12

\* The sockets after the close of one.
Closes(s, c, code) == s = Shut(sock, c, code)

LEMMA ShutTyped ==
    ASSUME NEW c \in Sockets, NEW code \in {"closed", "replaced"}, sock \in [Sockets -> SocketType],
           NEW s, Closes(s, c, code)
    PROVE  /\ s \in [Sockets -> SocketType] /\ s[c].live = FALSE
           /\ s[c].pc = sock[c].pc /\ s[c].gen = sock[c].gen /\ s[c].victim = sock[c].victim
           /\ \A d \in Sockets : d # c => s[d] = sock[d]
  <1>1. PICK conn : conn = IF sock[c].conn = "up" THEN code ELSE sock[c].conn
    OBVIOUS
  <1>2. PICK x, y : x = [sock[c] EXCEPT !.live = FALSE] /\ y = [x EXCEPT !.conn = conn]
    OBVIOUS
  <1>3. sock[c] \in SocketType /\ conn \in {"up", "dead", "closed", "replaced"}
    BY <1>1 DEF SocketType
  <1>4. x \in SocketType
    BY <1>2, <1>3, RecordFields
  <1>5. y \in SocketType
    BY <1>2, <1>3, <1>4, RecordFields
  <1>6. /\ y.live = FALSE /\ y.pc = sock[c].pc /\ y.gen = sock[c].gen /\ y.victim = sock[c].victim
        /\ x.conn = sock[c].conn
    BY <1>2, <1>3, <1>4, <1>5, SMTT(30) DEF SocketType
  <1>7. PICK s1 : s1 = [sock EXCEPT ![c] = x]
    OBVIOUS
  <1>8. s1 \in [Sockets -> SocketType] /\ s1[c] = x /\ \A d \in Sockets : d # c => s1[d] = sock[d]
    BY <1>4, <1>7
  <1>9. s = [s1 EXCEPT ![c] = y]
    BY <1>1, <1>2, <1>6, <1>7, <1>8 DEF Shut, Closes
  <1>10. QED
    BY <1>5, <1>6, <1>8, <1>9

LEMMA HubInit == Init => HubInv
  <1> SUFFICES ASSUME Init PROVE HubInv
    OBVIOUS
  <1>1. 1 \in 1..MaxGen /\ 0 \in 0..MaxAttempts /\ 0 \in 0..MaxFaults
    BY TerminalBounds
  <1>2. Free \in SocketType
    BY <1>1 DEF Free, SocketType
  <1>3. [st |-> "timer", sock |-> "none", attempts |-> 0, gen |-> 1] \in TabType
    BY <1>1 DEF TabType
  <1>4. Types
    BY <1>1, <1>2, <1>3 DEF Init, Types
  <1>5. \A c \in Sockets : sock[c].pc = "free" /\ sock[c].victim = "none"
    BY DEF Init, Free
  <1>6. Commits /\ Writers /\ Owner
    BY <1>5 DEF Init, Commits, Writers, Owner, At, ClosedHubStaysEmpty
  <1>7. QED
    BY <1>4, <1>6 DEF HubInv
\* The tab's record.
LEMMA TabFields ==
    ASSUME NEW b \in Tabs, tab \in [Tabs -> TabType],
           NEW y \in TabType, y.st \in {"connecting", "attached"} <=> y.sock # "none",
           \A a \in Tabs : tab[a].st \in {"connecting", "attached"} <=> tab[a].sock # "none",
           tab' = [tab EXCEPT ![b] = y]
    PROVE  tab' \in [Tabs -> TabType]
           /\ \A a \in Tabs : tab'[a].st \in {"connecting", "attached"} <=> tab'[a].sock # "none"
  OBVIOUS

-----------------------------------------------------------------------------
(***************************************************************************)
(* Every step keeps the invariant.                                         *)
(***************************************************************************)
LEMMA HubNext == HubInv /\ [Next]_vars => HubInv'
  <1> SUFFICES ASSUME HubInv, [Next]_vars PROVE HubInv'
    OBVIOUS
  <1>a. /\ gen \in 1..MaxGen /\ status \in {"ready", "creating", "over"} /\ closed \in BOOLEAN
        /\ terminals \subseteq Sockets /\ faults \in 0..MaxFaults
        /\ sock \in [Sockets -> SocketType] /\ tab \in [Tabs -> TabType]
        /\ \A b \in Tabs : tab[b].st \in {"connecting", "attached"} <=> tab[b].sock # "none"
    BY DEF HubInv, Types
  <1>s. sock \in [Sockets -> SocketType]
    BY <1>a
  <1>b. faults < MaxFaults => faults + 1 \in 0..MaxFaults
    BY <1>a, TerminalBounds, SMTT(30)
  <1>c. ASSUME UNCHANGED <<gen, status, lock, hub, closed>>, terminals' \subseteq Sockets, faults' \in 0..MaxFaults,
               tab' \in [Tabs -> TabType],
               \A b \in Tabs : tab'[b].st \in {"connecting", "attached"} <=> tab'[b].sock # "none",
               sock' \in [Sockets -> SocketType], \A d \in Sockets : Tame(d)
        PROVE  HubInv'
    <2>1. Types'
      BY <1>a, <1>c DEF Types
    <2>2. QED
      BY <1>c, <2>1, TameStep
  <1>d. \A d \in Sockets : sock'[d] = sock[d] => Tame(d)
    BY DEF Tame
  \* The handler goes on, outside the commit and the takeover.
  <1>e. ASSUME NEW c \in Sockets, NEW p \in Steps \ {"swap", "displace", "serve"}, Go(c, p),
               sock[c].pc \notin {"swap", "displace"}, hub = c => p \in Owning,
               UNCHANGED <<gen, status, lock, hub, closed, tab>>,
               terminals' \subseteq Sockets, faults' \in 0..MaxFaults
        PROVE  HubInv'
    <2>1. p \in Steps \cup {"free"}
      OBVIOUS
    <2>2. /\ sock' \in [Sockets -> SocketType] /\ sock'[c].pc = p /\ sock'[c].victim = sock[c].victim
          /\ \A d \in Sockets : d # c => sock'[d] = sock[d]
      BY <1>a, <1>e, <2>1, GoMoves
    <2>3. Tame(c)
      BY <1>e, <2>2 DEF Tame
    <2>4. QED
      BY <1>a, <1>c, <1>d, <1>e, <2>2, <2>3
  \* A handler before its takeover is not the owner.
  <1>f. ASSUME NEW c \in Sockets, sock[c].pc \notin Owning PROVE hub # c
    BY <1>f, Distinct DEF HubInv, Owner
  <1>1. ASSUME NEW c \in Sockets, SnapshotOwner(c) PROVE HubInv'
    <2>1. /\ sock[c].pc = "begin" /\ sock' = [sock EXCEPT ![c].pc = "open", ![c].prev = hub]
          /\ UNCHANGED <<gen, status, lock, hub, closed, terminals, tab, faults>>
      BY <1>1 DEF SnapshotOwner, At, sessionVars
    <2>2. hub \in Sockets \cup {"none"}
      BY DEF HubInv, Owner
    <2>3. PICK x, y : x = [sock[c] EXCEPT !.pc = "open"] /\ y = [x EXCEPT !.prev = hub]
      OBVIOUS
    <2>4. x \in SocketType
      BY <1>a, <2>3, RecordFields DEF Steps
    <2>5. y \in SocketType
      BY <2>2, <2>3, <2>4, RecordFields
    <2>6. y.pc = "open" /\ y.victim = sock[c].victim
      BY <1>a, <2>3, <2>4, <2>5, SMTT(30) DEF SocketType
    <2>7. sock' = [sock EXCEPT ![c] = y]
      BY <1>a, <2>1, <2>3, <2>4
    <2>8. sock' \in [Sockets -> SocketType] /\ sock'[c] = y /\ \A d \in Sockets : d # c => sock'[d] = sock[d]
      BY <1>a, <2>5, <2>7
    <2>9. Tame(c)
      BY <1>f, <2>1, <2>6, <2>8 DEF Tame, Owning
    <2>10. QED
      BY <1>a, <1>c, <1>d, <2>1, <2>8, <2>9
  <1>2. ASSUME NEW c \in Sockets, OpenTerminal(c) PROVE HubInv'
    <2>1. sock[c].pc = "open" /\ UNCHANGED <<gen, status, lock, hub, closed, tab>>
      BY <1>2 DEF OpenTerminal, At, sessionVars
    <2>2. terminals' \subseteq Sockets /\ faults' \in 0..MaxFaults
      BY <1>a, <1>b, <1>2 DEF OpenTerminal
    <2>3. Go(c, "check") \/ Go(c, "unregister")
      BY <1>2 DEF OpenTerminal
    <2>4. QED
      BY <1>e, <1>f, <2>1, <2>2, <2>3 DEF Steps, Owning
  <1>3. ASSUME NEW c \in Sockets, SendAttached(c) PROVE HubInv'
    <2>1. sock[c].pc = "check" /\ UNCHANGED <<gen, status, lock, hub, closed, tab, terminals, faults>>
      BY <1>3 DEF SendAttached, At, sessionVars
    <2>2. Go(c, "await") \/ Go(c, "unwind")
      BY <1>3 DEF SendAttached
    <2>3. QED
      BY <1>a, <1>e, <1>f, <2>1, <2>2 DEF Steps, Owning
  <1>4. ASSUME NEW c \in Sockets, WaitTerminalReady(c) PROVE HubInv'
    <2>1. sock[c].pc = "await" /\ UNCHANGED <<gen, status, lock, hub, closed, tab, terminals>>
      BY <1>4 DEF WaitTerminalReady, At, sessionVars
    <2>2. faults' \in 0..MaxFaults
      BY <1>a, <1>b, <1>4 DEF WaitTerminalReady
    <2>3. Go(c, "commit") \/ Go(c, "unwind")
      BY <1>4 DEF WaitTerminalReady
    <2>4. QED
      BY <1>a, <1>e, <1>f, <2>1, <2>2, <2>3 DEF Steps, Owning
  <1>5. ASSUME NEW c \in Sockets, AcquireCommit(c) PROVE HubInv'
    <2>1. sock[c].pc = "commit" /\ UNCHANGED <<gen, status, hub, closed, tab, terminals, faults>>
      BY <1>5 DEF AcquireCommit, At, sessionVars
    <2>2. CASE UNCHANGED lock /\ Go(c, "unwind")
      BY <1>a, <1>e, <1>f, <2>1, <2>2 DEF Steps, Owning
    <2>3. CASE lock = "free" /\ Current(c) /\ lock' = c /\ Go(c, "swap")
      <3>1. /\ sock' \in [Sockets -> SocketType] /\ sock'[c].pc = "swap" /\ sock'[c].victim = sock[c].victim
            /\ sock'[c].gen = sock[c].gen /\ \A d \in Sockets : d # c => sock'[d] = sock[d]
        BY <1>a, <2>3, GoMoves DEF Steps
      <3>2. Types'
        BY <1>a, <2>1, <3>1 DEF Types
      <3>3. \A d \in Sockets : sock[d].pc # "swap"
        BY <2>3, Distinct DEF HubInv, Commits, At
      <3>4. Commits'
        BY <2>1, <2>3, <3>1, <3>3 DEF Commits, At, Current
      <3>5. sock[c].victim = "none"
        BY <2>1 DEF HubInv, Writers, At
      <3>6. Writers'
        <4>1. \A d \in Sockets : sock'[d].victim = sock[d].victim
          BY <3>1
        <4>2. QED
          BY <2>1, <3>1, <3>5, <4>1, SMTT(30) DEF HubInv, Writers, At
      <3>7. Owner'
        BY <1>f, <2>1, <3>1 DEF HubInv, Owner, Owning, ClosedHubStaysEmpty
      <3>8. QED
        BY <3>2, <3>4, <3>6, <3>7 DEF HubInv
    <2>4. QED
      BY <1>5, <2>2, <2>3 DEF AcquireCommit
  <1>8. ASSUME NEW c \in Sockets, ServeEnds(c) PROVE HubInv'
    <2>1. sock[c].pc = "serve" /\ UNCHANGED <<gen, status, lock, hub, closed, tab, terminals, faults>> /\ Go(c, "unwind")
      BY <1>8 DEF ServeEnds, At, sessionVars
    <2>2. QED
      BY <1>a, <1>e, <2>1 DEF Steps, Owning
  <1>9. ASSUME NEW c \in Sockets, Unwind(c) PROVE HubInv'
    <2>1. /\ sock[c].pc = "unwind" /\ UNCHANGED <<gen, status, lock, hub, closed, tab, faults>> /\ Go(c, "unregister")
          /\ terminals' = terminals \ {c}
      BY <1>9 DEF Unwind, At, sessionVars
    <2>2. QED
      BY <1>a, <1>e, <2>1 DEF Steps, Owning
  <1>6. ASSUME NEW c \in Sockets, ReplaceIfCurrent(c) PROVE HubInv'
    <2>1. /\ sock[c].pc = "swap" /\ UNCHANGED <<gen, status, closed, tab, terminals, faults>>
          /\ lock' = Released(c)
      BY <1>6 DEF ReplaceIfCurrent, At, sessionVars
    <2>2. lock = c /\ lock' = "free"
      BY <2>1 DEF HubInv, Commits, At, Released
    <2>3. \A d \in Sockets : d # c => sock[d].pc # "swap"
      BY <2>2 DEF HubInv, Commits, At
    <2>4. sock[c].victim = "none" /\ hub # c
      BY <1>f, <2>1 DEF HubInv, Writers, At, Owning
    <2>5. CASE Go(c, "unwind") /\ UNCHANGED hub
      <3>1. /\ sock' \in [Sockets -> SocketType] /\ sock'[c].pc = "unwind" /\ sock'[c].victim = "none"
            /\ \A d \in Sockets : d # c => sock'[d] = sock[d]
        BY <1>a, <2>4, <2>5, GoMoves DEF Steps
      <3>2. Types'
        BY <1>a, <2>1, <3>1 DEF Types
      <3>3. Commits'
        BY <2>2, <2>3, <3>1 DEF Commits, At
      <3>4. Writers'
        <4>1. \A d \in Sockets : sock'[d].victim = sock[d].victim
          BY <2>4, <3>1
        <4>2. QED
          BY <2>5, <3>1, <4>1, SMTT(30) DEF HubInv, Writers, At
      <3>5. Owner'
        BY <2>1, <2>4, <2>5, <3>1 DEF HubInv, Owner, ClosedHubStaysEmpty
      <3>6. QED
        BY <3>2, <3>3, <3>4, <3>5 DEF HubInv
    <2>6. CASE /\ Accepted(c) /\ hub' = c
               /\ sock' = [sock EXCEPT ![c].pc = "displace", ![c].prev = "none", ![c].victim = hub]
      <3>1. hub \in Sockets \cup {"none"}
        BY DEF HubInv, Owner
      <3>2. PICK x, y, z : x = [sock[c] EXCEPT !.pc = "displace"] /\ y = [x EXCEPT !.prev = "none"]
                           /\ z = [y EXCEPT !.victim = hub]
        OBVIOUS
      <3>3. x \in SocketType
        BY <1>a, <3>2, RecordFields DEF Steps
      <3>4. y \in SocketType
        BY <3>2, <3>3, RecordFields
      <3>5. z \in SocketType
        BY <3>1, <3>2, <3>4, RecordFields
      <3>6. z.pc = "displace" /\ z.victim = hub
        BY <1>a, <3>2, <3>3, <3>4, <3>5, SMTT(30) DEF SocketType
      <3>7. sock' = [sock EXCEPT ![c] = z]
        BY <1>a, <2>6, <3>2, <3>3, <3>4
      <3>8. sock' \in [Sockets -> SocketType] /\ sock'[c] = z /\ \A d \in Sockets : d # c => sock'[d] = sock[d]
        BY <1>a, <3>5, <3>7
      <3>9. Types'
        BY <1>a, <2>1, <3>8 DEF Types
      <3>10. Commits'
        BY <2>2, <2>3, <3>6, <3>8 DEF Commits, At
      <3>11. Writers'
        <4>1. ASSUME NEW d \in Sockets, d # c, sock[d].pc \in {"displace", "serve"}, sock[d].live
              PROVE  \E e \in Sockets : sock'[e].victim = d
          <5>1. CASE hub = d
            BY <3>6, <3>8, <5>1
          <5>2. ASSUME NEW e \in Sockets, sock[e].victim = d PROVE sock'[e].victim = d
            BY <2>4, <3>8, <5>2, Distinct
          <5>3. QED
            BY <4>1, <5>1, <5>2 DEF HubInv, Writers
        <4>2. QED
          BY <2>6, <3>6, <3>8, <4>1, SMTT(30) DEF HubInv, Writers, At
      <3>12. Owner'
        BY <2>1, <2>6, <3>6, <3>8 DEF HubInv, Owner, ClosedHubStaysEmpty, Accepted, Owning
      <3>13. QED
        BY <3>9, <3>10, <3>11, <3>12 DEF HubInv
    <2>7. QED
      BY <1>6, <2>5, <2>6 DEF ReplaceIfCurrent
  <1>7. ASSUME NEW c \in Sockets, CloseDisplaced(c) PROVE HubInv'
    <2>1. PICK v, shut : v = sock[c].victim /\ shut = IF v = "none" THEN sock ELSE Shut(sock, v, "replaced")
      OBVIOUS
    <2>2. /\ sock[c].pc = "displace" /\ sock' = [shut EXCEPT ![c].pc = "serve", ![c].victim = "none"]
          /\ UNCHANGED <<gen, status, lock, hub, closed, tab, terminals, faults>>
      BY <1>7, <2>1 DEF CloseDisplaced, At, sessionVars
    <2>3. v \in Sockets \cup {"none"}
      BY <1>a, <2>1 DEF SocketType
    <2>4. /\ shut \in [Sockets -> SocketType]
          /\ \A d \in Sockets : /\ shut[d].pc = sock[d].pc /\ shut[d].gen = sock[d].gen
                                /\ shut[d].victim = sock[d].victim
                                /\ d # v => shut[d].live = sock[d].live
                                /\ d = v => shut[d].live = FALSE
      <3>1. CASE v = "none"
        BY <1>a, <2>1, <3>1, Distinct
      <3>2. CASE v # "none"
        <4>1. v \in Sockets /\ shut = Shut(sock, v, "replaced")
          BY <2>1, <2>3, <3>2
        <4>2. v \in Sockets /\ Closes(shut, v, "replaced") /\ "replaced" \in {"closed", "replaced"}
          BY <4>1 DEF Closes
        <4>3. /\ shut \in [Sockets -> SocketType] /\ shut[v].live = FALSE
              /\ shut[v].pc = sock[v].pc /\ shut[v].gen = sock[v].gen /\ shut[v].victim = sock[v].victim
              /\ \A d \in Sockets : d # v => shut[d] = sock[d]
          BY <1>s, <4>2, ShutTyped
        <4>4. QED
          BY <4>1, <4>3
      <3>3. QED
        BY <3>1, <3>2
    <2>5. PICK x, y : x = [shut[c] EXCEPT !.pc = "serve"] /\ y = [x EXCEPT !.victim = "none"]
      OBVIOUS
    <2>6. x \in SocketType
      BY <2>4, <2>5, RecordFields DEF Steps
    <2>7. y \in SocketType
      BY <2>5, <2>6, RecordFields
    <2>8. shut[c] \in SocketType
      BY <2>4
    <2>9. y.pc = "serve" /\ y.victim = "none" /\ y.live = shut[c].live
      BY <2>5, <2>6, <2>7, <2>8, SMTT(30) DEF SocketType
    <2>10. sock' = [shut EXCEPT ![c] = y]
      BY <2>2, <2>4, <2>5, <2>6
    <2>11. sock' \in [Sockets -> SocketType] /\ sock'[c] = y /\ \A d \in Sockets : d # c => sock'[d] = shut[d]
      BY <2>4, <2>7, <2>10
    <2>12. Types'
      BY <1>a, <2>2, <2>11 DEF Types
    <2>13. \A d \in Sockets : sock'[d].pc = "swap" <=> sock[d].pc = "swap"
      BY <2>2, <2>4, <2>9, <2>11
    <2>14. Commits'
      BY <2>2, <2>4, <2>11, <2>13, SMTT(30) DEF HubInv, Commits, At
    <2>15. Writers'
      <3>1. ASSUME NEW d \in Sockets, sock'[d].victim # "none" PROVE sock'[d].pc = "displace"
        BY <2>4, <2>9, <2>11, <3>1, SMTT(30) DEF HubInv, Writers, At
      <3>2. ASSUME NEW d \in Sockets, sock'[d].pc \in {"displace", "serve"}, sock'[d].live
            PROVE  hub' = d \/ \E e \in Sockets : sock'[e].victim = d
        <4>1. d # v /\ sock[d].pc \in {"displace", "serve"} /\ sock[d].live
          BY <2>2, <2>4, <2>9, <2>11, <3>2
        <4>2. CASE hub = d
          BY <2>2, <4>2
        <4>3. ASSUME NEW e \in Sockets, sock[e].victim = d PROVE sock'[e].victim = d
          BY <2>1, <2>4, <2>11, <4>1, <4>3, SMTT(30)
        <4>4. QED
          BY <4>1, <4>2, <4>3 DEF HubInv, Writers
      <3>3. QED
        BY <3>1, <3>2 DEF Writers, At
    <2>16. Owner'
      BY <2>2, <2>4, <2>9, <2>11 DEF HubInv, Owner, ClosedHubStaysEmpty, Owning
    <2>17. QED
      BY <2>12, <2>14, <2>15, <2>16 DEF HubInv
  <1>10. ASSUME NEW c \in Sockets, Unregister(c) PROVE HubInv'
    <2>1. PICK shut : shut = Shut(sock, c, "closed")
      OBVIOUS
    <2>2. /\ sock[c].pc = "unregister" /\ sock' = [shut EXCEPT ![c].pc = "free", ![c].gen = 1]
          /\ hub' = IF hub = c THEN "none" ELSE hub
          /\ UNCHANGED <<gen, status, lock, closed, tab, terminals, faults>>
      BY <1>10, <2>1 DEF Unregister, At, sessionVars
    <2>3. /\ shut \in [Sockets -> SocketType] /\ shut[c].victim = sock[c].victim
          /\ \A d \in Sockets : d # c => shut[d] = sock[d]
      <3>1. Closes(shut, c, "closed") /\ "closed" \in {"closed", "replaced"}
        BY <2>1 DEF Closes
      <3>2. QED
        BY <1>s, <3>1, ShutTyped
    <2>4. PICK x, y : x = [shut[c] EXCEPT !.pc = "free"] /\ y = [x EXCEPT !.gen = 1]
      OBVIOUS
    <2>5. x \in SocketType /\ shut[c] \in SocketType
      BY <2>3, <2>4, RecordFields
    <2>6. 1 \in 1..MaxGen
      BY TerminalBounds, SMTT(30)
    <2>7. y \in SocketType
      BY <2>4, <2>5, <2>6, RecordFields
    <2>8. y.pc = "free" /\ y.victim = shut[c].victim
      BY <2>4, <2>5, <2>7 DEF SocketType
    <2>9. sock' = [shut EXCEPT ![c] = y]
      BY <2>2, <2>3, <2>4, <2>5
    <2>10. sock' \in [Sockets -> SocketType] /\ sock'[c] = y /\ \A d \in Sockets : d # c => sock'[d] = sock[d]
      BY <2>3, <2>7, <2>9
    <2>11. sock[c].victim = "none"
      BY <2>2 DEF HubInv, Writers, At
    <2>12. \A d \in Sockets : sock'[d].victim = sock[d].victim
      BY <2>3, <2>8, <2>10
    <2>13. Types'
      BY <1>a, <2>2, <2>10 DEF Types
    <2>14. Commits'
      BY <2>2, <2>8, <2>10, SMTT(30) DEF HubInv, Commits, At
    <2>15. Writers'
      BY <2>2, <2>8, <2>10, <2>11, <2>12, SMTT(30) DEF HubInv, Writers, At
    <2>16. Owner'
      BY <2>2, <2>10 DEF HubInv, Owner, ClosedHubStaysEmpty
    <2>17. QED
      BY <2>13, <2>14, <2>15, <2>16 DEF HubInv
  <1>11. ASSUME NEW c \in Sockets, ReadFails(c) PROVE HubInv'
    <2>1. PICK y : y = [sock[c] EXCEPT !.live = FALSE]
      OBVIOUS
    <2>2. y \in SocketType /\ sock[c] \in SocketType
      BY <1>a, <2>1, RecordFields
    <2>3. y.live = FALSE /\ y.pc = sock[c].pc /\ y.gen = sock[c].gen /\ y.victim = sock[c].victim
      BY <2>1, <2>2 DEF SocketType
    <2>4. sock' = [sock EXCEPT ![c] = y]
          /\ UNCHANGED <<gen, status, lock, hub, closed, tab, terminals, faults>>
      BY <1>11, <2>1 DEF ReadFails, sessionVars
    <2>5. sock' \in [Sockets -> SocketType] /\ sock'[c] = y /\ \A d \in Sockets : d # c => sock'[d] = sock[d]
      BY <1>a, <2>2, <2>4
    <2>6. Tame(c)
      BY <2>3, <2>5 DEF Tame
    <2>7. QED
      BY <1>a, <1>c, <1>d, <2>4, <2>5, <2>6
  <1>g. ASSUME NEW b \in Tabs, NEW y \in TabType, y.st \in {"connecting", "attached"} <=> y.sock # "none",
               tab' = [tab EXCEPT ![b] = y], sock' \in [Sockets -> SocketType], \A d \in Sockets : Tame(d),
               UNCHANGED <<gen, status, lock, hub, closed, terminals>>, faults' \in 0..MaxFaults
        PROVE  HubInv'
    <2>1. tab' \in [Tabs -> TabType]
          /\ \A a \in Tabs : tab'[a].st \in {"connecting", "attached"} <=> tab'[a].sock # "none"
      BY <1>a, <1>g, TabFields
    <2>2. QED
      BY <1>a, <1>c, <1>g, <2>1
  <1>12. ASSUME NEW b \in Tabs, Connect(b) PROVE HubInv'
    <2>1. PICK c \in Sockets :
             /\ sock[c].pc = "free" /\ tab' = [tab EXCEPT ![b].st = "connecting", ![b].sock = c]
             /\ sock' = [sock EXCEPT ![c] =
                  [Free EXCEPT !.gen = tab[b].gen,
                     !.pc = IF status = "ready" /\ gen = tab[b].gen /\ ~closed THEN "begin" ELSE "unregister",
                     !.conn = "up", !.live = TRUE]]
      BY <1>12 DEF Connect, At
    <2>2. UNCHANGED <<gen, status, lock, hub, closed, terminals, faults>>
      BY <1>12 DEF Connect, sessionVars
    <2>3. PICK p : p = IF status = "ready" /\ gen = tab[b].gen /\ ~closed THEN "begin" ELSE "unregister"
      OBVIOUS
    <2>4. PICK u, v, w, y : /\ u = [Free EXCEPT !.gen = tab[b].gen] /\ v = [u EXCEPT !.pc = p]
                            /\ w = [v EXCEPT !.conn = "up"] /\ y = [w EXCEPT !.live = TRUE]
      OBVIOUS
    <2>5. sock' = [sock EXCEPT ![c] = y]
      BY <2>1, <2>3, <2>4
    <2>6. p \in {"begin", "unregister"} /\ tab[b] \in TabType
      BY <1>a, <2>3
    <2>7. tab[b].gen \in 1..MaxGen /\ p \in Steps /\ Free \in SocketType
      <3>1. tab[b].gen \in 1..MaxGen /\ p \in Steps
        BY <2>6 DEF TabType, Steps
      <3>2. 1 \in 1..MaxGen
        BY TerminalBounds, SMTT(30)
      <3>3. QED
        BY <3>1, <3>2 DEF Free, SocketType
    <2>8. y \in SocketType /\ y.pc = p /\ y.victim = "none"
      <3>1. u \in SocketType
        BY <2>4, <2>7, RecordFields
      <3>2. v \in SocketType
        BY <2>4, <2>7, <3>1, RecordFields
      <3>3. w \in SocketType
        BY <2>4, <3>2, RecordFields
      <3>4. y \in SocketType
        BY <2>4, <3>3, RecordFields
      <3>5. Free.victim = "none"
        BY DEF Free
      <3>6. QED
        BY <2>4, <2>7, <3>1, <3>2, <3>3, <3>4, <3>5, SMTT(30) DEF SocketType
    <2>9. sock' \in [Sockets -> SocketType] /\ sock'[c] = y /\ \A d \in Sockets : d # c => sock'[d] = sock[d]
      BY <1>s, <2>5, <2>8
    <2>10. sock[c].victim = "none" /\ hub # c
      BY <1>f, <2>1 DEF HubInv, Writers, At, Owning
    <2>11. Tame(c)
      BY <2>1, <2>6, <2>8, <2>9, <2>10 DEF Tame
    <2>12. PICK x, z : x = [tab[b] EXCEPT !.st = "connecting"] /\ z = [x EXCEPT !.sock = c]
      OBVIOUS
    <2>13. x \in TabType
      BY <2>6, <2>12 DEF TabType
    <2>14. z \in TabType /\ z.st = "connecting" /\ z.sock = c
      BY <2>6, <2>12, <2>13 DEF TabType
    <2>15. tab' = [tab EXCEPT ![b] = z]
      BY <1>a, <2>1, <2>12, <2>13
    <2>16. QED
      BY <1>a, <1>d, <1>g, <2>2, <2>9, <2>11, <2>14, <2>15, Distinct
  <1>13. ASSUME NEW b \in Tabs, Acknowledge(b) PROVE HubInv'
    <2>1. PICK c : c = tab[b].sock
      OBVIOUS
    <2>2. /\ tab[b].st = "connecting" /\ tab' = [tab EXCEPT ![b].st = "attached"]
          /\ sock' = [sock EXCEPT ![c].ack = TRUE]
          /\ UNCHANGED <<gen, status, lock, hub, closed, terminals, faults>>
      BY <1>13, <2>1 DEF Acknowledge, sessionVars
    <2>3. tab[b] \in TabType /\ c \in Sockets
      BY <1>a, <2>1, <2>2 DEF TabType
    <2>4. PICK y : y = [sock[c] EXCEPT !.ack = TRUE]
      OBVIOUS
    <2>5. y \in SocketType /\ sock[c] \in SocketType
      BY <1>s, <2>3, <2>4, RecordFields
    <2>6. y.live = sock[c].live /\ y.pc = sock[c].pc /\ y.gen = sock[c].gen /\ y.victim = sock[c].victim
      BY <2>4, <2>5 DEF SocketType
    <2>7. sock' \in [Sockets -> SocketType] /\ sock'[c] = y /\ \A d \in Sockets : d # c => sock'[d] = sock[d]
      BY <1>s, <2>2, <2>3, <2>4, <2>5
    <2>8. Tame(c)
      BY <2>6, <2>7 DEF Tame
    <2>9. PICK z : z = [tab[b] EXCEPT !.st = "attached"]
      OBVIOUS
    <2>10. z \in TabType /\ z.st = "attached" /\ z.sock = c
      BY <2>1, <2>3, <2>9 DEF TabType
    <2>11. tab' = [tab EXCEPT ![b] = z] /\ \A d \in Sockets : Tame(d)
      BY <1>d, <2>2, <2>7, <2>8, <2>9
    <2>12. z.st \in {"connecting", "attached"} <=> z.sock # "none"
      BY <2>3, <2>10, Distinct
    <2>13. QED
      BY <1>a, <1>g, <2>2, <2>7, <2>10, <2>11, <2>12
  \* The tab alone.
  <1>h. ASSUME NEW b \in Tabs, NEW y \in TabType, y.st \in {"connecting", "attached"} <=> y.sock # "none",
               tab' = [tab EXCEPT ![b] = y], UNCHANGED <<gen, status, lock, hub, closed, terminals, sock>>,
               faults' \in 0..MaxFaults
        PROVE  HubInv'
    BY <1>d, <1>g, <1>h, <1>s
  <1>14. ASSUME NEW b \in Tabs, Output(b) PROVE HubInv'
    <2>1. PICK z : z = [tab[b] EXCEPT !.attempts = 0]
      OBVIOUS
    <2>2. tab' = [tab EXCEPT ![b] = z] /\ UNCHANGED <<gen, status, lock, hub, closed, terminals, sock, faults>>
      BY <1>14, <2>1 DEF Output, sessionVars
    <2>3. tab[b] \in TabType /\ 0 \in 0..MaxAttempts
      BY <1>a, TerminalBounds, SMTT(30)
    <2>4. z \in TabType /\ z.st = tab[b].st /\ z.sock = tab[b].sock
      BY <2>1, <2>3 DEF TabType
    <2>5. QED
      BY <1>a, <1>h, <2>2, <2>4
  <1>15. ASSUME NEW b \in Tabs, OnClose(b) PROVE HubInv'
    <2>1. UNCHANGED <<gen, status, lock, hub, closed, terminals, sock, faults>>
      BY <1>15 DEF OnClose, sessionVars
    <2>2. tab[b] \in TabType /\ tab[b].attempts \in 0..MaxAttempts
      BY <1>a DEF TabType
    <2>3. tab[b].attempts < MaxAttempts => tab[b].attempts + 1 \in 0..MaxAttempts
      BY <2>2, TerminalBounds
    <2>4. PICK st \in {"moved", "over", "timer", "failed"}, n \in 0..MaxAttempts : Left(b, st, n)
      BY <1>15, <2>2, <2>3 DEF OnClose
    <2>5. PICK x, y, z : x = [tab[b] EXCEPT !.st = st] /\ y = [x EXCEPT !.sock = "none"]
                         /\ z = [y EXCEPT !.attempts = n]
      OBVIOUS
    <2>6. x \in TabType
      BY <2>2, <2>4, <2>5 DEF TabType
    <2>7. y \in TabType /\ y.st = st /\ y.sock = "none"
      BY <2>2, <2>5, <2>6 DEF TabType
    <2>8. z \in TabType /\ z.st = st /\ z.sock = "none"
      BY <2>5, <2>7 DEF TabType
    <2>9. tab' = [tab EXCEPT ![b] = z]
      BY <1>a, <2>4, <2>5, <2>6, <2>7 DEF Left
    <2>10. QED
      BY <1>a, <1>h, <2>1, <2>4, <2>8, <2>9
  <1>16. ASSUME NEW b \in Tabs, Remount(b) PROVE HubInv'
    <2>1. PICK z : z = [st |-> "timer", sock |-> "none", attempts |-> 0, gen |-> gen]
      OBVIOUS
    <2>2. /\ tab' = [tab EXCEPT ![b] = z]
          /\ UNCHANGED <<gen, status, lock, hub, closed, terminals, faults>>
      BY <1>16, <2>1 DEF Remount, sessionVars
    <2>3. 0 \in 0..MaxAttempts
      BY TerminalBounds
    <2>4. z \in TabType /\ z.st = "timer" /\ z.sock = "none"
      BY <1>a, <2>1, <2>3 DEF TabType
    <2>5. CASE tab[b].sock = "none"
      <3>1. sock' = sock
        BY <1>16, <2>5 DEF Remount
      <3>2. QED
        BY <1>a, <1>h, <2>2, <2>4, <3>1
    <2>6. CASE tab[b].sock # "none"
      <3>1. PICK c, conn : c = tab[b].sock /\ conn = IF sock[c].conn = "up" THEN "dead" ELSE sock[c].conn
        OBVIOUS
      <3>2. c \in Sockets
        BY <1>a, <2>6, <3>1 DEF TabType
      <3>3. PICK y : y = [sock[c] EXCEPT !.conn = conn]
        OBVIOUS
      <3>4. conn \in {"up", "dead", "closed", "replaced"} /\ sock[c] \in SocketType
        BY <1>s, <3>1, <3>2 DEF SocketType
      <3>5. y \in SocketType
        BY <3>3, <3>4, RecordFields
      <3>6. y.live = sock[c].live /\ y.pc = sock[c].pc /\ y.gen = sock[c].gen /\ y.victim = sock[c].victim
        BY <3>3, <3>4, <3>5 DEF SocketType
      <3>7. sock' = [sock EXCEPT ![c] = y]
        BY <1>16, <2>6, <3>1, <3>3 DEF Remount
      <3>8. sock' \in [Sockets -> SocketType] /\ sock'[c] = y /\ \A d \in Sockets : d # c => sock'[d] = sock[d]
        BY <1>s, <3>2, <3>5, <3>7
      <3>9. Tame(c)
        BY <3>6, <3>8 DEF Tame
      <3>10. QED
        BY <1>a, <1>d, <1>g, <2>2, <2>4, <3>8, <3>9
    <2>7. QED
      BY <2>5, <2>6
  <1>17. ASSUME NEW b \in Tabs, Retry(b) PROVE HubInv'
    <2>1. PICK x, z : x = [tab[b] EXCEPT !.st = "timer"] /\ z = [x EXCEPT !.attempts = 0]
      OBVIOUS
    <2>2. /\ tab[b].st = "failed" /\ tab' = [tab EXCEPT ![b].st = "timer", ![b].attempts = 0]
          /\ UNCHANGED <<gen, status, lock, hub, closed, terminals, sock>> /\ faults' \in 0..MaxFaults
      BY <1>17, <1>b DEF Retry, sessionVars
    <2>3. tab[b] \in TabType /\ 0 \in 0..MaxAttempts /\ tab[b].sock = "none"
      BY <1>a, <2>2, TerminalBounds, SMTT(30)
    <2>4. x \in TabType /\ x.sock = "none" /\ x.st = "timer"
      BY <2>1, <2>3 DEF TabType
    <2>5. z \in TabType /\ z.st = "timer" /\ z.sock = "none"
      BY <2>1, <2>3, <2>4 DEF TabType
    <2>6. tab' = [tab EXCEPT ![b] = z]
      BY <1>a, <2>1, <2>2, <2>4
    <2>7. QED
      BY <1>h, <2>2, <2>5, <2>6
  <1>18. ASSUME NEW c \in Sockets, Drop(c) PROVE HubInv'
    <2>1. PICK y : y = [sock[c] EXCEPT !.conn = "dead"]
      OBVIOUS
    <2>2. y \in SocketType /\ sock[c] \in SocketType
      BY <1>s, <2>1, RecordFields
    <2>3. y.live = sock[c].live /\ y.pc = sock[c].pc /\ y.gen = sock[c].gen /\ y.victim = sock[c].victim
      BY <2>1, <2>2 DEF SocketType
    <2>4. sock' = [sock EXCEPT ![c] = y]
          /\ UNCHANGED <<gen, status, lock, hub, closed, tab, terminals>> /\ faults' \in 0..MaxFaults
      BY <1>18, <1>b, <2>1 DEF Drop, sessionVars
    <2>5. sock' \in [Sockets -> SocketType] /\ sock'[c] = y /\ \A d \in Sockets : d # c => sock'[d] = sock[d]
      BY <1>s, <2>2, <2>4
    <2>6. Tame(c)
      BY <2>3, <2>5 DEF Tame
    <2>7. QED
      BY <1>a, <1>c, <1>d, <2>4, <2>5, <2>6
  \* A step of the session, which holds no socket in its commit.
  <1>i. ASSUME lock \in {"free", "reset"}, lock' \in {"free", "reset"}, UNCHANGED <<hub, closed, sock, tab, faults, terminals>>,
               gen' \in 1..MaxGen, status' \in {"ready", "creating", "over"}
        PROVE  HubInv'
    <2>1. Types'
      BY <1>a, <1>i DEF Types
    <2>2. \A c \in Sockets : sock[c].pc # "swap"
      BY <1>i, Distinct DEF HubInv, Commits, At
    <2>3. Commits'
      BY <1>i, <2>2 DEF Commits, At
    <2>4. Writers' /\ Owner'
      BY <1>i DEF HubInv, Writers, Owner, At, ClosedHubStaysEmpty
    <2>5. QED
      BY <2>1, <2>3, <2>4 DEF HubInv
  <1>19. CASE BeginTransition
    <2>1. gen < MaxGen => gen + 1 \in 1..MaxGen
      BY <1>a, TerminalBounds, SMTT(30)
    <2>2. QED
      BY <1>19, <1>a, <1>i, <2>1 DEF BeginTransition
  <1>20. CASE EndTransition
    BY <1>20, <1>a, <1>i DEF EndTransition, sessionVars
  <1>21. CASE DestroyAllocation
    <2>1. terminals' \subseteq Sockets /\ UNCHANGED <<gen, status, lock, hub, closed, sock, tab, faults>>
      BY <1>21, <1>a DEF DestroyAllocation, sessionVars
    <2>2. QED
      BY <1>a, <1>c, <1>d, <2>1
  <1>22. CASE Provisioned
    BY <1>22, <1>a, <1>i DEF Provisioned
  <1>23. CASE CloseAll
    <2>1. closed' = TRUE /\ hub' = "none" /\ UNCHANGED <<gen, status, lock, terminals, tab, faults>>
      BY <1>23 DEF CloseAll, sessionVars
    <2>2. /\ sock' \in [Sockets -> SocketType]
          /\ \A d \in Sockets : /\ sock'[d].pc = sock[d].pc /\ sock'[d].gen = sock[d].gen
                                /\ sock'[d].victim = sock[d].victim
                                /\ d # hub => sock'[d].live = sock[d].live
                                /\ d = hub => sock'[d].live = FALSE
      <3>1. CASE hub = "none"
        <4>1. sock' = sock
          BY <1>23, <3>1 DEF CloseAll
        <4>2. QED
          BY <1>s, <3>1, <4>1, Distinct
      <3>2. CASE hub # "none"
        <4>1. PICK s, h : s = sock' /\ h = hub
          OBVIOUS
        <4>2. h \in Sockets /\ Closes(s, h, "closed") /\ "closed" \in {"closed", "replaced"}
          BY <1>23, <3>2, <4>1 DEF CloseAll, Closes, HubInv, Owner
        <4>3. /\ s \in [Sockets -> SocketType] /\ s[h].live = FALSE /\ s[h].pc = sock[h].pc
              /\ s[h].gen = sock[h].gen /\ s[h].victim = sock[h].victim
              /\ \A d \in Sockets : d # h => s[d] = sock[d]
          BY <1>s, <4>2, ShutTyped, ZenonT(30)
        <4>4. QED
          BY <4>1, <4>2, <4>3
      <3>3. QED
        BY <3>1, <3>2
    <2>3. Types'
      BY <1>a, <2>1, <2>2 DEF Types
    <2>4. Commits'
      BY <2>1, <2>2 DEF HubInv, Commits, At
    <2>5. Writers'
      <3>1. ASSUME NEW d \in Sockets, sock'[d].pc \in {"displace", "serve"}, sock'[d].live
            PROVE  \E e \in Sockets : sock'[e].victim = d
        <4>1. d # hub /\ sock[d].pc \in {"displace", "serve"} /\ sock[d].live
          BY <2>2, <3>1
        <4>2. QED
          BY <2>2, <4>1, SMTT(30) DEF HubInv, Writers
      <3>2. QED
        BY <2>2, <3>1 DEF HubInv, Writers, At
    <2>6. Owner'
      BY <2>1 DEF Owner, ClosedHubStaysEmpty
    <2>7. QED
      BY <2>3, <2>4, <2>5, <2>6 DEF HubInv
  <1>24. CASE UNCHANGED vars
    BY <1>24, <1>a, <1>c, <1>d DEF vars
  <1>25. QED
    BY <1>1, <1>2, <1>3, <1>4, <1>5, <1>6, <1>7, <1>8, <1>9, <1>10, <1>11, <1>12, <1>13, <1>14, <1>15, <1>16, <1>17,
       <1>18, <1>19, <1>20, <1>21, <1>22, <1>23, <1>24
       DEF Next, SocketStep, TabStep

LEMMA SpecHub == Spec => []HubInv
  BY HubInit, HubNext, PTL DEF Spec

\* The types, and who may hold the lock and the hub: only a candidate that is
\* committing, and only a socket that has taken over (ws/hub.go, ws/terminal.go).
THEOREM TypesHold == Spec => []TypeOK
  <1>1. HubInv => TypeOK
    <2> SUFFICES ASSUME HubInv PROVE TypeOK
      OBVIOUS
    <2>1. \A c \in Sockets : /\ sock[c].pc \in Steps \cup {"free"}
                             /\ sock[c].conn \in {"up", "dead", "closed", "replaced"}
      BY DEF HubInv, Types, SocketType
    <2>2. \A b \in Tabs : /\ tab[b].st \in {"timer", "connecting", "attached", "failed", "moved", "over"}
                          /\ tab[b].attempts \in 0..MaxAttempts
      BY DEF HubInv, Types, TabType
    <2>3. QED
      BY <2>1, <2>2 DEF HubInv, Types, Commits, Owner, Owning, At, TypeOK
  <1>2. QED
    BY <1>1, SpecHub, PTL

\* Only the owner goes on serving: any other socket past its takeover is being
\* closed, however takeovers, failures and the shutdown interleave.
THEOREM OneWriterAlways == Spec => []OneWriter
  <1>1. HubInv => OneWriter
    BY DEF HubInv, Writers, OneWriter, At
  <1>2. QED
    BY <1>1, SpecHub, PTL

\* A hub that CloseAll closed admits nobody, not even a candidate that was
\* already past its checks.
THEOREM ClosedHubAlwaysEmpty == Spec => []ClosedHubStaysEmpty
  <1>1. HubInv => ClosedHubStaysEmpty
    BY DEF HubInv, Owner
  <1>2. QED
    BY <1>1, SpecHub, PTL

\* A terminal takes over only for the allocation that is current and ready at
\* that moment: the transition lock keeps resets and ends out between
\* AcquireTerminalCommit's check and ReplaceIfCurrent.
THEOREM TakeoversAreCurrent == Spec => TakeoverIsCurrent
  <1> DEFINE Took == \A c \in Sockets : hub' = c /\ hub # c => sock[c].gen = gen /\ status = "ready"
  <1>1. HubInv /\ [Next]_vars => [Took]_vars
    <2> SUFFICES ASSUME HubInv, [Next]_vars, NEW c \in Sockets, hub' = c, hub # c
                 PROVE  sock[c].gen = gen /\ status = "ready"
      OBVIOUS
    <2>1. PICK d \in Sockets : ReplaceIfCurrent(d) /\ hub' = d
      BY Distinct
         DEF Next, SocketStep, TabStep, vars, SnapshotOwner, OpenTerminal, SendAttached, WaitTerminalReady,
             AcquireCommit, ReplaceIfCurrent, CloseDisplaced, ServeEnds, Unwind, Unregister, ReadFails, Connect,
             Acknowledge, Output, OnClose, Remount, Retry, Drop, BeginTransition, EndTransition,
             DestroyAllocation, Provisioned, CloseAll
    <2>2. At(c, "swap")
      BY <2>1 DEF ReplaceIfCurrent
    <2>3. QED
      BY <2>2 DEF HubInv, Commits
  <1>2. QED
    BY <1>1, SpecHub, PTL DEF Spec, TakeoverIsCurrent
=============================================================================
