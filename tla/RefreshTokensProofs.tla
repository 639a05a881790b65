------------------------ MODULE RefreshTokensProofs -------------------------
(***************************************************************************)
(* Rotation of refresh tokens, for any number of tabs, requests, handlers  *)
(* and tokens: a family never has two tokens that can be rotated, and one  *)
(* tab that loses no answer never presents a token twice.                  *)
(***************************************************************************)
EXTENDS RefreshTokens, FiniteSetTheorems, TLAPS

\* The provers for the leaves that name none, and their time limits.
USE ZenonT(4), SMTT(30)

-----------------------------------------------------------------------------
(***************************************************************************)
(* The inductive invariant of the table.                                   *)
(***************************************************************************)
States == {"idle"} \cup Pending \cup Answers

\* Handlers that hold the number of a row.
Holding == {"claim", "lookup", "revoke", "expire", "insert", "ldelete", "ok"}

Types ==
    /\ row \in [Tokens -> {"none", "unused", "used"}]
    /\ family \in [Tokens -> 0..MaxTokens]
    /\ issued \in 0..MaxTokens
    /\ flight \in [Flights -> [pc : States, tok : 0..MaxTokens]]
    /\ promise \in [Tabs -> Flights \cup {None}]

\* Rows, cookies and handlers name tokens that were issued.
IssuedOnly ==
    /\ \A t \in Tokens : t > issued => row[t] = "none" /\ family[t] = 0
    /\ \A t \in Tokens : t <= issued => family[t] \in 1..t
    /\ cookie \in 0..issued /\ (access # "none" => cookie # 0)
    /\ \A f \in Flights : flight[f].pc \in Holding => flight[f].tok \in 1..issued

\* A handler about to insert claimed its token, and its family has no other
\* token that can be rotated and no other handler about to insert.
Exclusive ==
    /\ \A f \in Flights : flight[f].pc = "lookup" =>
          row[flight[f].tok] # "unused" \/ flight[f].tok \in stale
    /\ \A f \in Flights, t \in Tokens :
          flight[f].pc = "insert" /\ family[t] = family[flight[f].tok] => row[t] # "unused"
    /\ \A f, g \in Flights :
          flight[f].pc = "insert" /\ flight[g].pc = "insert"
          /\ family[flight[f].tok] = family[flight[g].tok] => f = g

TableInv == Types /\ IssuedOnly /\ Exclusive /\ OneUnusedPerFamily

-----------------------------------------------------------------------------
(***************************************************************************)
(* The table's steps.  A step that makes no token usable touches at most   *)
(* one handler; the two that issue a token put it where nothing competes.  *)
(***************************************************************************)

\* What a handler may become without disturbing the table.
Fine(g) ==
    LET pc == flight'[g].pc
        t == flight'[g].tok IN
    /\ pc \in Holding => t \in 1..issued
    /\ pc = "lookup" => row'[t] # "unused" \/ t \in stale'
    /\ pc = "insert" =>
          /\ \A x \in Tokens : family[x] = family[t] => row'[x] # "unused"
          /\ \A h \in Flights : flight'[h].pc = "insert" /\ family[flight'[h].tok] = family[t] => h = g

\* Rows are claimed, deleted or expire.
Shrunk ==
    /\ row' \in [Tokens -> {"none", "unused", "used"}]
    /\ \A t \in Tokens : row'[t] = "unused" => row[t] = "unused"
    /\ \A t \in Tokens : row[t] = "none" => row'[t] = "none"
    /\ family' = family /\ issued' = issued /\ stale \subseteq stale'

Cookies(n) == cookie' \in 0..n /\ (access' # "none" => cookie' # 0)

LEMMA ShrunkStep ==
    ASSUME TableInv, Shrunk, Cookies(issued), promise' \in [Tabs -> Flights \cup {None}],
           flight' \in [Flights -> [pc : States, tok : 0..MaxTokens]],
           \A g \in Flights : flight'[g] = flight[g] \/ Fine(g)
    PROVE  TableInv'
  <1>1. Types'
    BY DEF TableInv, Types, Shrunk
  <1>2. IssuedOnly'
    <2>1. ASSUME NEW f \in Flights, flight'[f].pc \in Holding PROVE flight'[f].tok \in 1..issued
      BY <2>1 DEF TableInv, IssuedOnly, Fine
    <2>2. QED
      BY <2>1 DEF TableInv, IssuedOnly, Shrunk, Cookies
  <1>3. Exclusive'
    <2>1. ASSUME NEW f \in Flights, flight'[f].pc = "lookup"
          PROVE  row'[flight'[f].tok] # "unused" \/ flight'[f].tok \in stale'
      <3>1. CASE flight'[f] = flight[f]
        <4>1. flight[f].tok \in 1..issued /\ issued \in 0..MaxTokens
          BY <2>1, <3>1 DEF TableInv, IssuedOnly, Holding, Types
        <4>2. flight[f].tok \in Tokens
          BY <4>1, TokenBounds, SMTT(30) DEF Tokens
        <4>3. QED
          BY <2>1, <3>1, <4>2 DEF TableInv, Exclusive, Shrunk
      <3>2. QED
        BY <2>1, <3>1 DEF Fine
    <2>2. ASSUME NEW f \in Flights, NEW t \in Tokens, flight'[f].pc = "insert",
                 family[t] = family[flight'[f].tok]
          PROVE  row'[t] # "unused"
      <3>1. CASE flight'[f] = flight[f]
        BY <2>2, <3>1, SMTT(30) DEF TableInv, Exclusive, Shrunk
      <3>2. QED
        BY <2>2, <3>1 DEF Fine
    <2>3. ASSUME NEW f \in Flights, NEW g \in Flights, flight'[f].pc = "insert", flight'[g].pc = "insert",
                 family[flight'[f].tok] = family[flight'[g].tok]
          PROVE  f = g
      <3>1. CASE flight'[f] = flight[f] /\ flight'[g] = flight[g]
        BY <2>3, <3>1 DEF TableInv, Exclusive
      <3>2. QED
        BY <2>3, <3>1 DEF Fine
    <2>4. QED
      BY <2>1, <2>2, <2>3 DEF Exclusive, Shrunk
  <1>4. OneUnusedPerFamily'
    BY DEF TableInv, OneUnusedPerFamily, Shrunk
  <1>5. QED
    BY <1>1, <1>2, <1>3, <1>4 DEF TableInv

LEMMA IssueStep ==
    ASSUME TableInv, NEW n, NEW fam, n = issued + 1, issued < MaxTokens, fam \in 1..n,
           issued' = n, row' = [row EXCEPT ![n] = "unused"], family' = [family EXCEPT ![n] = fam],
           stale' = stale, Cookies(n), promise' \in [Tabs -> Flights \cup {None}],
           flight' \in [Flights -> [pc : States, tok : 0..MaxTokens]],
           \A g \in Flights : flight'[g] = flight[g] \/ flight'[g] = [pc |-> "ok", tok |-> n],
           \A t \in Tokens : family[t] = fam => row[t] # "unused",
           \A g \in Flights : flight'[g].pc = "insert" => family[flight'[g].tok] # fam
    PROVE  TableInv'
  <1>1. n \in Tokens /\ issued \in Nat /\ MaxTokens \in Nat /\ n \in Nat
    BY TokenBounds, SMTT(30) DEF TableInv, Types, Tokens
  <1>2. /\ row'[n] = "unused" /\ family'[n] = fam /\ row[n] = "none" /\ family[n] = 0
        /\ \A t \in Tokens : t # n => row'[t] = row[t] /\ family'[t] = family[t]
        /\ \A t \in Tokens : t = n \/ t <= issued \/ t > n
    <2>1. row[n] = "none" /\ family[n] = 0
      BY <1>1, SMTT(30) DEF TableInv, IssuedOnly
    <2>2. \A t \in Tokens : t = n \/ t <= issued \/ t > n
      BY <1>1, SMTT(30) DEF Tokens
    <2>3. QED
      BY <1>1, <2>1, <2>2 DEF TableInv, Types
  <1>3. Types'
    <2>1. fam \in 0..MaxTokens /\ n \in 0..MaxTokens
      BY <1>1, SMTT(30)
    <2>2. QED
      BY <1>1, <2>1 DEF TableInv, Types
  <1>4. \A f \in Flights : flight'[f].pc \in Holding =>
           flight'[f].tok \in 1..n /\ (flight'[f].pc # "ok" => flight'[f] = flight[f]
                                       /\ flight'[f].tok \in 1..issued /\ flight'[f].tok \in Tokens
                                       /\ flight'[f].tok # n)
    <2>1. ASSUME NEW f \in Flights, flight'[f].pc \in Holding, flight'[f] = flight[f]
          PROVE  flight'[f].tok \in 1..issued
      BY <2>1 DEF TableInv, IssuedOnly
    <2>2. \A t \in 1..issued : t \in 1..n /\ t \in Tokens /\ t # n
      BY <1>1, SMTT(30) DEF Tokens
    <2>3. n \in 1..n
      BY <1>1, SMTT(30)
    <2>4. QED
      BY <2>1, <2>2, <2>3, SMTT(30)
  <1>5. IssuedOnly'
    <2>1. \A t \in Tokens : t > n => row'[t] = "none" /\ family'[t] = 0
      <3>1. \A t \in Tokens : t > n => t > issued /\ t # n
        BY <1>1, SMTT(30) DEF Tokens
      <3>2. QED
        BY <1>2, <3>1 DEF TableInv, IssuedOnly
    <2>2. \A t \in Tokens : t <= n => family'[t] \in 1..t
      <3>1. \A t \in Tokens : t <= n => t <= issued \/ t = n
        BY <1>1, SMTT(30) DEF Tokens
      <3>2. QED
        BY <1>1, <1>2, <3>1, SMTT(30) DEF TableInv, IssuedOnly
    <2>3. QED
      BY <1>4, <2>1, <2>2 DEF IssuedOnly, Cookies
  <1>6. Exclusive'
    <2>1. \A f \in Flights : flight'[f].pc \in {"lookup", "insert"} =>
             /\ flight'[f] = flight[f] /\ flight'[f].tok \in Tokens
             /\ row'[flight'[f].tok] = row[flight'[f].tok]
             /\ family'[flight'[f].tok] = family[flight'[f].tok]
      BY <1>2, <1>4 DEF Holding
    <2>2. \A f \in Flights : flight'[f].pc = "insert" => family'[flight'[f].tok] # fam
      BY <2>1
    <2>3. QED
      BY <1>2, <2>1, <2>2, SMTT(30) DEF TableInv, Exclusive
  <1>7. OneUnusedPerFamily'
    BY <1>2, SMTT(30) DEF TableInv, OneUnusedPerFamily
  <1>8. QED
    BY <1>3, <1>5, <1>6, <1>7 DEF TableInv

\* What a handler's step does to its own record, and to no other.
Moves(f, p, t) ==
    /\ flight' \in [Flights -> [pc : States, tok : 0..MaxTokens]]
    /\ flight'[f].pc = p /\ flight'[f].tok = t
    /\ \A g \in Flights : g # f => flight'[g] = flight[g]

LEMMA ToMoves ==
    ASSUME Types, NEW f \in Flights, NEW p \in States, To(f, p)
    PROVE  Moves(f, p, flight[f].tok)
  BY DEF Types, To, Moves

LEMMA PutMoves ==
    ASSUME Types, NEW f \in Flights, NEW p \in States, NEW t \in 0..MaxTokens,
           flight' = [flight EXCEPT ![f] = [pc |-> p, tok |-> t]]
    PROVE  Moves(f, p, t)
  BY DEF Types, Moves

LEMMA ReplyMoves ==
    ASSUME Types, NEW f \in Flights, NEW p \in States, Reply(f, p)
    PROVE  Moves(f, p, 0)
  <1>1. 0 \in 0..MaxTokens
    BY TokenBounds
  <1>2. QED
    BY <1>1, PutMoves DEF Reply

\* The table stays as it is, and one handler becomes something that is fine.
LEMMA QuietStep ==
    ASSUME TableInv, UNCHANGED tableVars, Cookies(issued), promise' \in [Tabs -> Flights \cup {None}],
           NEW f \in Flights, NEW p, NEW t, Moves(f, p, t), p # "insert",
           p \in Holding => t \in 1..issued,
           p = "lookup" => row[t] # "unused" \/ t \in stale
    PROVE  TableInv'
  <1>1. Shrunk
    BY DEF TableInv, Types, Shrunk, tableVars
  <1>2. Fine(f)
    BY DEF Fine, Moves, tableVars
  <1>3. QED
    BY <1>1, <1>2, ShrunkStep DEF Moves

LEMMA TableInit == Init => TableInv
  <1> SUFFICES ASSUME Init PROVE TableInv
    OBVIOUS
  <1>1. Types
    <2>1. 0 \in 0..MaxTokens
      BY TokenBounds
    <2>2. Idle \in [pc : States, tok : 0..MaxTokens]
      BY <2>1 DEF Idle, States
    <2>3. QED
      BY <2>1, <2>2 DEF Init, Types
  <1>2. \A f \in Flights : flight[f].pc = "idle"
    BY DEF Init, Idle
  <1>3. IssuedOnly
    <2>1. \A t \in Tokens : ~(t <= 0)
      BY TokenBounds DEF Tokens
    <2>2. QED
      BY <1>2, <2>1 DEF Init, IssuedOnly, Holding
  <1>4. Exclusive /\ OneUnusedPerFamily
    BY <1>2 DEF Init, Exclusive, OneUnusedPerFamily
  <1>5. QED
    BY <1>1, <1>3, <1>4 DEF TableInv

\* Every step of the tabs and the handlers keeps the table's invariant.
LEMMA TableNext == TableInv /\ [Next]_vars => TableInv'
  <1> SUFFICES ASSUME TableInv, [Next]_vars PROVE TableInv'
    OBVIOUS
  <1> USE DEF TableInv
  <1>a. /\ issued \in Nat /\ MaxTokens \in Nat /\ issued <= MaxTokens
        /\ cookie \in 0..issued /\ cookie \in 0..MaxTokens /\ (access # "none" => cookie # 0)
        /\ 0 \in 0..MaxTokens /\ 0 \in 0..issued /\ \A x \in 1..issued : x \in Tokens
    BY TokenBounds, SMTT(30) DEF Types, IssuedOnly, Tokens
  <1>b. /\ flight \in [Flights -> [pc : States, tok : 0..MaxTokens]]
        /\ promise \in [Tabs -> Flights \cup {None}]
    BY DEF Types
  <1>c. UNCHANGED browserVars => Cookies(issued)
    BY <1>a DEF browserVars, Cookies
  <1>d. ASSUME UNCHANGED <<tableVars, browserVars, flight>>, promise' \in [Tabs -> Flights \cup {None}]
        PROVE  TableInv'
    <2>1. Shrunk
      BY <1>d DEF Types, Shrunk, tableVars
    <2>2. QED
      BY <1>b, <1>c, <1>d, <2>1, ShrunkStep
  <1>1. ASSUME NEW i \in Tabs, Login(i) PROVE TableInv'
    <2>1. PICK n : n = issued + 1
      OBVIOUS
    <2>2. /\ issued < MaxTokens /\ issued' = n /\ row' = [row EXCEPT ![n] = "unused"]
          /\ family' = [family EXCEPT ![n] = n] /\ stale' = stale
          /\ cookie' = n /\ flight' = flight /\ promise' = promise
      BY <1>1, <2>1 DEF Login, Issue
    <2>3. n \in 1..n /\ n # 0 /\ n \in 0..n
      BY <1>a, <2>1
    <2>4. \A t \in Tokens : family[t] # n
      <3>1. \A t \in Tokens : family[t] = 0 \/ (t <= issued /\ family[t] \in 1..t)
        BY <1>a DEF IssuedOnly, Tokens
      <3>2. QED
        BY <1>a, <2>1, <3>1 DEF Tokens
    <2>5. \A g \in Flights : flight[g].pc = "insert" => family[flight[g].tok] # n
      BY <1>a, <2>4 DEF IssuedOnly, Holding
    <2>6. Cookies(n)
      BY <2>2, <2>3 DEF Cookies
    <2>7. QED
      BY <1>b, <2>1, <2>2, <2>3, <2>4, <2>5, <2>6, IssueStep
  <1>2. ASSUME NEW i \in Tabs, Bootstrap(i) PROVE TableInv'
    BY <1>b, <1>d, <1>2 DEF Bootstrap
  <1>3. ASSUME NEW i \in Tabs, Logout(i) PROVE TableInv'
    <2>1. PICK f \in Flights : flight' = [flight EXCEPT ![f] = [pc |-> "lfind", tok |-> cookie]]
      BY <1>3 DEF Logout
    <2>2. Moves(f, "lfind", cookie)
      BY <1>a, <2>1, PutMoves DEF States, Pending
    <2>3. UNCHANGED <<tableVars, browserVars, promise>>
      BY <1>3 DEF Logout
    <2>4. QED
      BY <1>b, <1>c, <2>2, <2>3, QuietStep DEF Holding
  <1>4. ASSUME NEW i \in Tabs, NEW r \in Requests, Unauthorized(i, r) PROVE TableInv'
    BY <1>b, <1>d, <1>4 DEF Unauthorized
  <1>5. ASSUME NEW i \in Tabs, NEW r \in Requests, RefreshOnce(i, r) PROVE TableInv'
    <2>1. UNCHANGED <<tableVars, browserVars>>
      BY <1>5 DEF RefreshOnce
    <2>2. CASE UNCHANGED <<flight, promise>>
      BY <1>b, <1>d, <2>1, <2>2
    <2>3. ASSUME NEW f \in Flights, promise' = [promise EXCEPT ![i] = f],
                 flight' = [flight EXCEPT ![f] =
                    [pc |-> IF cookie = 0 THEN "left" ELSE "claim", tok |-> cookie]]
          PROVE  TableInv'
      <3>1. PICK p : p = IF cookie = 0 THEN "left" ELSE "claim"
        OBVIOUS
      <3>2. p \in States /\ p # "insert" /\ p # "lookup" /\ (p \in Holding => cookie # 0)
        BY <3>1 DEF States, Pending, Answers, Holding
      <3>3. Moves(f, p, cookie)
        BY <1>a, <2>3, <3>1, <3>2, PutMoves
      <3>4. promise' \in [Tabs -> Flights \cup {None}]
        BY <1>b, <2>3
      <3>5. cookie # 0 => cookie \in 1..issued
        BY <1>a
      <3>6. QED
        BY <1>c, <2>1, <3>2, <3>3, <3>4, <3>5, QuietStep
    <2>4. QED
      BY <1>5, <2>2, <2>3 DEF RefreshOnce
  <1>6. ASSUME NEW i \in Tabs, NEW r \in Requests, Retry(i, r) PROVE TableInv'
    BY <1>b, <1>d, <1>6 DEF Retry
  <1>7. ASSUME NEW i \in Tabs, RefreshAnswered(i) PROVE TableInv'
    <2>1. PICK f : f = promise[i]
      OBVIOUS
    <2>2. f \in Flights
      BY <1>b, <1>7, <2>1 DEF RefreshAnswered
    <2>3. UNCHANGED tableVars /\ flight' = [flight EXCEPT ![f] = Idle] /\ promise' = [promise EXCEPT ![i] = None]
      BY <1>7, <2>1 DEF RefreshAnswered, Settled
    <2>4. /\ flight[f].pc = "ok" => SetTokenCookies(flight[f].tok)
          /\ flight[f].pc = "rejected" => ClearTokenCookies
          /\ flight[f].pc \notin {"ok", "rejected"} => UNCHANGED browserVars
      BY <1>7, <2>1 DEF RefreshAnswered
    <2>5. Cookies(issued)
      <3>1. CASE flight[f].pc = "ok"
        <4>1. flight[f].tok \in 1..issued /\ cookie' = flight[f].tok
          BY <2>2, <2>4, <3>1 DEF SetTokenCookies, IssuedOnly, Holding
        <4>2. flight[f].tok # 0 /\ flight[f].tok \in 0..issued
          BY <1>a, <4>1
        <4>3. QED
          BY <4>1, <4>2 DEF Cookies
      <3>2. CASE flight[f].pc = "rejected"
        <4>1. cookie' = 0 /\ access' = "none"
          BY <2>4, <3>2 DEF ClearTokenCookies
        <4>2. QED
          BY <1>a, <4>1 DEF Cookies
      <3>3. QED
        BY <1>c, <2>4, <3>1, <3>2
    <2>6. Moves(f, "idle", 0)
      BY <1>a, <2>2, <2>3, PutMoves DEF Idle, States
    <2>7. promise' \in [Tabs -> Flights \cup {None}]
      BY <1>b, <2>3
    <2>8. QED
      BY <2>2, <2>3, <2>5, <2>6, <2>7, QuietStep DEF Holding
  <1>8. ASSUME NEW i \in Tabs, AnswerLost(i) PROVE TableInv'
    <2>1. promise' = [promise EXCEPT ![i] = None]
      BY <1>8 DEF AnswerLost, Settled
    <2>2. promise' \in [Tabs -> Flights \cup {None}]
      BY <1>b, <2>1
    <2>3. QED
      BY <1>d, <1>8, <2>2 DEF AnswerLost
  <1>9. ASSUME NEW f \in Flights, Unawaited(f) PROVE TableInv'
    <2>1. UNCHANGED <<tableVars, promise>> /\ flight' = [flight EXCEPT ![f] = Idle]
      BY <1>9 DEF Unawaited, tabVars
    <2>2. Moves(f, "idle", 0)
      BY <1>a, <2>1, PutMoves DEF Idle, States
    <2>3. UNCHANGED browserVars \/ ClearTokenCookies
      BY <1>9 DEF Unawaited
    <2>4. Cookies(issued)
      BY <1>a, <1>c, <2>3 DEF ClearTokenCookies, Cookies
    <2>5. QED
      BY <1>b, <2>1, <2>2, <2>4, QuietStep DEF Holding
  <1>e. ASSUME NEW f \in Flights, Kept PROVE promise' = promise /\ UNCHANGED browserVars /\ Cookies(issued)
    BY <1>c, <1>e DEF Kept, tabVars
  <1>f. ASSUME NEW f \in Flights, flight[f].pc \in Holding
        PROVE  flight[f].tok \in 1..issued /\ flight[f].tok \in Tokens
    BY <1>a, <1>f DEF IssuedOnly
  <1>10. ASSUME NEW f \in Flights, ClaimRefreshToken(f) PROVE TableInv'
    <2>1. PICK t : t = flight[f].tok
      OBVIOUS
    <2>2. flight[f].pc = "claim" /\ Kept
      BY <1>10 DEF ClaimRefreshToken
    <2>3. t \in 1..issued /\ t \in Tokens
      BY <1>f, <2>1, <2>2 DEF Holding
    <2>4. CASE /\ row[t] = "unused" /\ row' = [row EXCEPT ![t] = "used"]
               /\ To(f, "insert") /\ UNCHANGED <<family, stale, issued>>
      <3>1. Moves(f, "insert", t)
        BY <2>1, <2>4, ToMoves DEF States, Pending
      <3>2. row'[t] = "used" /\ \A x \in Tokens : x # t => row'[x] = row[x]
        BY <2>3, <2>4 DEF Types
      <3>3. Shrunk
        BY <2>3, <2>4, <3>2 DEF Types, Shrunk
      <3>4. \A x \in Tokens : family[x] = family[t] => row'[x] # "unused"
        BY <2>3, <2>4, <3>2 DEF OneUnusedPerFamily
      <3>5. \A h \in Flights : flight'[h].pc = "insert" /\ family[flight'[h].tok] = family[t] => h = f
        BY <2>3, <2>4, <3>1 DEF Exclusive, Moves
      <3>6. Fine(f)
        BY <2>3, <3>1, <3>4, <3>5 DEF Fine, Moves
      <3>7. QED
        BY <1>b, <1>e, <2>2, <3>1, <3>3, <3>6, ShrunkStep DEF Moves
    <2>5. CASE /\ ~(row[t] = "unused" /\ t \notin stale)
               /\ To(f, "lookup") /\ UNCHANGED tableVars
      <3>1. Moves(f, "lookup", t)
        BY <2>1, <2>5, ToMoves DEF States, Pending
      <3>2. QED
        BY <1>b, <1>e, <2>2, <2>3, <2>5, <3>1, QuietStep
    <2>6. CASE Reply(f, "rejected") /\ UNCHANGED tableVars
      <3>1. Moves(f, "rejected", 0)
        BY <2>6, ReplyMoves DEF States, Answers
      <3>2. QED
        BY <1>b, <1>e, <2>2, <2>6, <3>1, QuietStep DEF Holding
    <2>7. QED
      BY <1>10, <2>1, <2>4, <2>5, <2>6 DEF ClaimRefreshToken
  <1>11. ASSUME NEW f \in Flights, Lookup(f) PROVE TableInv'
    <2>1. PICK t : t = flight[f].tok
      OBVIOUS
    <2>2. flight[f].pc = "lookup" /\ Kept /\ UNCHANGED tableVars
      BY <1>11 DEF Lookup
    <2>3. t \in 1..issued /\ t \in Tokens
      BY <1>f, <2>1, <2>2 DEF Holding
    <2>4. row[t] = "none" \/ row[t] = "used" \/ (row[t] = "unused" /\ t \in stale)
      BY <2>1, <2>2, <2>3 DEF Exclusive, Types
    <2>5. CASE To(f, "revoke") \/ To(f, "expire")
      <3>1. \E p \in {"revoke", "expire"} : Moves(f, p, t)
        BY <2>1, <2>5, ToMoves DEF States, Pending
      <3>2. QED
        BY <1>b, <1>e, <2>2, <2>3, <3>1, QuietStep
    <2>6. CASE Reply(f, "rejected")
      <3>1. Moves(f, "rejected", 0)
        BY <2>6, ReplyMoves DEF States, Answers
      <3>2. QED
        BY <1>b, <1>e, <2>2, <3>1, QuietStep DEF Holding
    <2>7. QED
      BY <1>11, <2>1, <2>4, <2>5, <2>6 DEF Lookup
  <1>g. ASSUME NEW f \in Flights, NEW p \in {"rejected", "signedout"}, Reply(f, p), Kept,
               UNCHANGED row \/ (\E T : Delete(T)), UNCHANGED <<family, stale, issued>>
        PROVE  TableInv'
    <2>1. Moves(f, p, 0)
      BY <1>g, ReplyMoves DEF States, Answers
    <2>2. Shrunk
      <3>1. CASE UNCHANGED row
        BY <1>g, <3>1 DEF Types, Shrunk
      <3>2. ASSUME NEW T, Delete(T) PROVE Shrunk
        BY <1>g, <3>2 DEF Delete, Types, Shrunk
      <3>3. QED
        BY <1>g, <3>1, <3>2
    <2>3. Fine(f)
      BY <2>1 DEF Fine, Moves, Holding
    <2>4. QED
      BY <1>b, <1>e, <1>g, <2>1, <2>2, <2>3, ShrunkStep DEF Moves
  <1>12. ASSUME NEW f \in Flights, Revoke(f) PROVE TableInv'
    <2>1. UNCHANGED row \/ \E T : Delete(T)
      BY <1>12 DEF Revoke
    <2>2. QED
      BY <1>g, <1>12, <2>1 DEF Revoke
  <1>13. ASSUME NEW f \in Flights, Rotate(f) PROVE TableInv'
    <2>1. PICK t : t = flight[f].tok
      OBVIOUS
    <2>2. flight[f].pc = "insert" /\ Kept
      BY <1>13 DEF Rotate
    <2>3. t \in 1..issued /\ t \in Tokens
      BY <1>f, <2>1, <2>2 DEF Holding
    <2>4. CASE Issue(family[t]) /\ flight' = [flight EXCEPT ![f] = [pc |-> "ok", tok |-> issued']]
      <3>1. PICK n, fam : n = issued + 1 /\ fam = family[t]
        OBVIOUS
      <3>2. fam \in 1..t
        BY <1>a, <2>3, <3>1 DEF IssuedOnly
      <3>3. fam \in 1..n /\ fam # 0 /\ n # 0
        BY <1>a, <2>3, <3>1, <3>2
      <3>4. /\ issued < MaxTokens /\ issued' = n /\ row' = [row EXCEPT ![n] = "unused"]
            /\ family' = [family EXCEPT ![n] = fam] /\ stale' = stale
        BY <2>4, <3>1, <3>3 DEF Issue
      <3>5. n \in 0..MaxTokens /\ \A x \in 0..issued : x \in 0..n
        BY <1>a, <3>1, <3>4
      <3>6. flight' = [flight EXCEPT ![f] = [pc |-> "ok", tok |-> n]]
        BY <2>4, <3>4
      <3>7. /\ flight' \in [Flights -> [pc : States, tok : 0..MaxTokens]]
            /\ flight'[f] = [pc |-> "ok", tok |-> n]
            /\ \A g \in Flights : g # f => flight'[g] = flight[g]
        <4>1. [pc |-> "ok", tok |-> n] \in [pc : States, tok : 0..MaxTokens]
          BY <3>5 DEF States, Answers
        <4>2. QED
          BY <1>b, <3>6, <4>1
      <3>8. \A x \in Tokens : family[x] = fam => row[x] # "unused"
        BY <2>1, <2>2, <3>1 DEF Exclusive
      <3>9. \A g \in Flights : flight'[g].pc = "insert" => family[flight'[g].tok] # fam
        <4>1. flight'[f].pc # "insert"
          BY <3>7, SMTT(30)
        <4>2. QED
          BY <2>1, <2>2, <3>1, <3>7, <4>1 DEF Exclusive
      <3>10. Cookies(n)
        BY <1>a, <1>e, <2>2, <3>5 DEF Cookies, browserVars
      <3>11. promise' \in [Tabs -> Flights \cup {None}]
        BY <1>b, <1>e, <2>2
      <3>12. \A g \in Flights : flight'[g] = flight[g] \/ flight'[g] = [pc |-> "ok", tok |-> n]
        BY <3>7
      <3>13. QED
        BY <3>1, <3>3, <3>4, <3>7, <3>8, <3>9, <3>10, <3>11, <3>12, IssueStep
    <2>5. CASE Reply(f, "rejected") /\ UNCHANGED tableVars
      <3>1. Moves(f, "rejected", 0)
        BY <2>5, ReplyMoves DEF States, Answers
      <3>2. QED
        BY <1>b, <1>e, <2>2, <2>5, <3>1, QuietStep DEF Holding
    <2>6. QED
      BY <1>13, <2>1, <2>4, <2>5 DEF Rotate
  <1>14. ASSUME NEW f \in Flights, RevokeRefresh(f) PROVE TableInv'
    <2>1. PICK t : t = flight[f].tok
      OBVIOUS
    <2>2. Kept /\ UNCHANGED <<family, stale, issued>>
      BY <1>14 DEF RevokeRefresh
    <2>3. CASE t # 0 /\ row[t] # "none" /\ To(f, "ldelete") /\ UNCHANGED row
      <3>1. Moves(f, "ldelete", t)
        BY <2>1, <2>3, ToMoves DEF States, Pending
      <3>2. t \in Tokens /\ t <= issued
        <4>1. t \in 0..MaxTokens
          BY <1>b, <2>1
        <4>2. t \in Tokens
          BY <2>3, <4>1, TokenBounds DEF Tokens
        <4>3. ~(t > issued)
          BY <2>3, <4>2 DEF IssuedOnly
        <4>4. QED
          BY <1>a, <4>2, <4>3 DEF Tokens
      <3>3. t \in 1..issued
        BY <1>a, <3>2 DEF Tokens
      <3>4. QED
        BY <1>b, <1>e, <2>2, <2>3, <3>1, <3>3, QuietStep DEF tableVars
    <2>4. CASE To(f, "lforget") /\ UNCHANGED row
      <3>1. Moves(f, "lforget", t)
        BY <2>1, <2>4, ToMoves DEF States, Pending
      <3>2. QED
        BY <1>b, <1>e, <2>2, <2>4, <3>1, QuietStep DEF Holding, tableVars
    <2>5. CASE Reply(f, "signedout") /\ (UNCHANGED row \/ \E T : Delete(T))
      BY <1>g, <2>2, <2>5
    <2>6. QED
      BY <1>14, <2>1, <2>3, <2>4, <2>5 DEF RevokeRefresh
  <1>15. ASSUME AccessExpires PROVE TableInv'
    <2>1. Shrunk /\ Cookies(issued)
      BY <1>15, <1>a DEF AccessExpires, Types, Shrunk, Cookies, tableVars
    <2>2. QED
      BY <1>15, <1>b, <2>1, ShrunkStep DEF AccessExpires, tabVars
  <1>16. ASSUME NEW t \in Tokens, TokenExpires(t) PROVE TableInv'
    <2>1. Shrunk
      BY <1>16 DEF TokenExpires, Types, Shrunk
    <2>2. QED
      BY <1>16, <1>b, <1>c, <2>1, ShrunkStep DEF TokenExpires, tabVars
  <1>17. CASE UNCHANGED vars
    BY <1>17, <1>b, <1>d DEF vars, tabVars
  <1>18. QED
    BY <1>1, <1>2, <1>3, <1>4, <1>5, <1>6, <1>7, <1>8, <1>9, <1>10, <1>11, <1>12, <1>13, <1>14, <1>15, <1>16, <1>17
       DEF Next, Tab, Handler

\* Whatever refreshes, logouts and expiries interleave, a family never has two
\* tokens that can be rotated: ClaimRefreshToken's UPDATE gives a token to one
\* handler, and only that handler inserts the next one (auth/tokens.go).
THEOREM OneUnusedAlways == Spec => []OneUnusedPerFamily
  <1>1. Spec => []TableInv
    BY TableInit, TableNext, PTL DEF Spec
  <1>2. TableInv => OneUnusedPerFamily
    BY DEF TableInv
  <1>3. QED
    BY <1>1, <1>2, PTL


-----------------------------------------------------------------------------
(***************************************************************************)
(* The inductive invariant of one tab that lost no answer and never signed *)
(* out: the only handler is the one it waits for, and its cookie is a      *)
(* token that it can still rotate or that its handler has taken along.     *)
(***************************************************************************)
Serves(f) ==
    LET t == flight[f].tok IN
    /\ flight[f].pc \in {"claim", "lookup", "expire", "insert", "ok", "rejected", "left"}
    /\ flight[f].pc = "claim" => row[t] = "unused"
    /\ flight[f].pc = "lookup" => row[t] = "unused" /\ t \in stale
    /\ flight[f].pc = "ok" => row[t] = "unused"
    /\ flight[f].pc = "left" => t = 0
    /\ flight[f].pc \in {"claim", "lookup", "expire", "insert", "left"} =>
          cookie \in {0, t} \/ row[cookie] = "unused"

Alone(i) ==
    losses = 0 /\ out = {} =>
        /\ \A f \in Flights : flight[f] # Idle => promise[i] = f /\ Serves(f)
        /\ promise[i] = None /\ cookie # 0 => row[cookie] = "unused"
        /\ i \in user => cookie # 0

AloneInv == losses \in Nat /\ user \subseteq Tabs /\ \A i \in Tabs : Tabs = {i} => Alone(i)

LEMMA AloneInit == Init => AloneInv
  BY SMTT(30) DEF Init, AloneInv, Alone

\* Answers and store calls that were lost stay lost, families that were signed
\* out stay signed out.
LEMMA OnlyGrow ==
    ASSUME AloneInv, [Next]_vars
    PROVE  losses' \in Nat /\ (losses' = 0 => losses' = losses) /\ out \subseteq out' /\ user' \subseteq Tabs
  <1>1. losses \in Nat
    BY DEF AloneInv
  <1>2. losses' = losses \/ losses' = losses + 1
    BY DEF Next, Tab, Handler, vars, Login, Bootstrap, Logout, Unauthorized, RefreshOnce, Retry, RefreshAnswered,
           AnswerLost, Fault, ClaimRefreshToken, Lookup, Revoke, Rotate, RevokeRefresh, Unawaited,
           AccessExpires, TokenExpires
  <1>3. out \subseteq out'
    BY DEF Next, Tab, Handler, vars, Kept, Login, Bootstrap, Logout, Unauthorized, RefreshOnce, Retry,
           RefreshAnswered, AnswerLost, ClaimRefreshToken, Lookup, Revoke, Rotate, RevokeRefresh, Unawaited,
           AccessExpires, TokenExpires
  <1>4. user' \subseteq Tabs
    BY ZenonT(30) DEF AloneInv, Next, Tab, Handler, vars, Kept, tabVars, ClearAuth, Login,
       Bootstrap, Logout, Unauthorized,
           RefreshOnce, Retry, RefreshAnswered, AnswerLost, ClaimRefreshToken, Lookup, Revoke,
       Rotate,
           RevokeRefresh, Unawaited, AccessExpires, TokenExpires
  <1>5. QED
    BY <1>1, <1>2, <1>3, <1>4

\* The tab's own handler moves on; nothing else runs.
LEMMA OwnStep ==
    ASSUME NEW i, NEW f \in Flights, TableInv, promise' = promise, cookie' = cookie, user' = user,
           \A g \in Flights : flight[g] # Idle => promise[i] = g /\ Serves(g),
           flight[f] # Idle, i \in user => cookie # 0,
           \A g \in Flights : g # f => flight'[g] = flight[g],
           Serves(f)'
    PROVE  /\ \A g \in Flights : flight'[g] # Idle => promise'[i] = g /\ Serves(g)'
           /\ promise'[i] = None /\ cookie' # 0 => row'[cookie'] = "unused"
           /\ i \in user' => cookie' # 0
  <1>1. promise[i] = f /\ promise[i] # None
    BY TokenBounds
  <1>2. \A g \in Flights : flight'[g] # Idle => g = f
    BY <1>1
  <1>3. QED
    BY <1>1, <1>2

LEMMA AloneNext == TableInv /\ TableInv' /\ AloneInv /\ [Next]_vars => AloneInv'
  <1> SUFFICES ASSUME TableInv, TableInv', AloneInv, [Next]_vars, NEW i, Tabs = {i}, losses' = 0, out' = {}
               PROVE  /\ \A f \in Flights : flight'[f] # Idle => promise'[i] = f /\ Serves(f)'
                      /\ promise'[i] = None /\ cookie' # 0 => row'[cookie'] = "unused"
                      /\ i \in user' => cookie' # 0
    BY OnlyGrow DEF AloneInv, Alone
  <1> DEFINE Goal == /\ \A f \in Flights : flight'[f] # Idle => promise'[i] = f /\ Serves(f)'
                     /\ promise'[i] = None /\ cookie' # 0 => row'[cookie'] = "unused"
                     /\ i \in user' => cookie' # 0
  <1>a. losses = 0 /\ out = {} /\ ~Fault
    <2>1. losses = 0 /\ out = {}
      BY OnlyGrow
    <2>2. QED
      BY <2>1 DEF Fault
  <1>b. /\ \A f \in Flights : flight[f] # Idle => promise[i] = f /\ Serves(f)
        /\ promise[i] = None /\ cookie # 0 => row[cookie] = "unused"
        /\ i \in user => cookie # 0
    BY <1>a DEF AloneInv, Alone
  <1>c. /\ flight \in [Flights -> [pc : States, tok : 0..MaxTokens]]
        /\ promise \in [Tabs -> Flights \cup {None}]
        /\ row \in [Tokens -> {"none", "unused", "used"}]
        /\ issued \in Nat /\ cookie \in 0..issued
    BY TokenBounds, SMTT(30) DEF TableInv, Types, IssuedOnly
  <1>d. ASSUME NEW f \in Flights, flight[f].pc # "idle" PROVE flight[f] # Idle /\ promise[i] = f /\ Serves(f)
    BY <1>b, <1>d DEF Idle
  <1>1. CASE Login(i)
    <2>1. PICK n : n = issued + 1
      OBVIOUS
    <2>2. row' = [row EXCEPT ![n] = "unused"] /\ cookie' = n /\ issued < MaxTokens
          /\ stale' = stale /\ flight' = flight /\ promise' = promise
      BY <1>1, <2>1 DEF Login, Issue
    <2>3. n \in Tokens /\ n # 0
      BY <1>c, <2>1, <2>2, TokenBounds, SMTT(30) DEF Tokens
    <2>4. row'[n] = "unused" /\ \A t \in Tokens : t # n => row'[t] = row[t]
      BY <1>c, <2>2, <2>3
    <2>5. \A t \in Tokens : row[t] = "unused" => row'[t] = "unused"
      BY <2>4
    <2>6. \A f \in Flights : flight[f].pc \in Holding => flight[f].tok \in Tokens
      <3>1. \A t \in 1..issued : t \in Tokens
        BY <1>c, <2>2, TokenBounds, SMTT(30) DEF Tokens
      <3>2. QED
        BY <3>1 DEF TableInv, IssuedOnly
    <2>7. ASSUME NEW f \in Flights, flight[f] # Idle PROVE Serves(f)'
      BY <1>b, <2>2, <2>4, <2>5, <2>6, <2>7 DEF Serves, Holding
    <2>8. QED
      BY <1>b, <2>2, <2>3, <2>4, <2>7
  <1>2. CASE Bootstrap(i)
    <2>1. cookie # 0
      BY <1>2 DEF Bootstrap, TableInv, IssuedOnly
    <2>2. UNCHANGED <<row, stale, cookie, flight, promise>>
      BY <1>2 DEF Bootstrap, tableVars, browserVars
    <2>3. QED
      BY <1>b, <2>1, <2>2 DEF Serves
  <1>3. CASE Logout(i)
    <2>1. cookie # 0
      BY <1>3, <1>b DEF Logout
    <2>2. family[cookie] \in out'
      BY <1>3, <2>1 DEF Logout
    <2>3. QED
      BY <2>2
  <1>e. ASSUME UNCHANGED <<row, cookie, flight, promise>>, stale \subseteq stale', user' \subseteq user PROVE Goal
    BY <1>b, <1>e DEF Serves
  <1>4. ASSUME NEW r \in Requests, Unauthorized(i, r) PROVE Goal
    BY <1>4, <1>e DEF Unauthorized, tableVars, browserVars
  <1>5. ASSUME NEW r \in Requests, RefreshOnce(i, r) PROVE Goal
    <2>1. UNCHANGED <<row, stale, cookie, user>>
      BY <1>5 DEF RefreshOnce, tableVars, browserVars
    <2>2. CASE UNCHANGED <<flight, promise>>
      BY <1>e, <2>1, <2>2
    <2>3. ASSUME NEW f \in Flights, promise[i] = None, promise' = [promise EXCEPT ![i] = f],
                 flight' = [flight EXCEPT ![f] =
                    [pc |-> IF cookie = 0 THEN "left" ELSE "claim", tok |-> cookie]]
          PROVE  Goal
      <3>1. \A g \in Flights : flight[g] = Idle
        BY <1>b, <2>3, TokenBounds
      <3>2. promise'[i] = f /\ f # None
        BY <1>c, <2>3, TokenBounds
      <3>3. /\ flight'[f].pc = (IF cookie = 0 THEN "left" ELSE "claim") /\ flight'[f].tok = cookie
            /\ \A g \in Flights : g # f => flight'[g] = flight[g]
        BY <1>c, <2>3
      <3>4. Serves(f)'
        BY <1>b, <2>1, <2>3, <3>3, SMTT(30) DEF Serves
      <3>5. QED
        BY <1>b, <2>1, <3>1, <3>2, <3>3, <3>4
    <2>4. QED
      BY <1>5, <2>2, <2>3 DEF RefreshOnce
  <1>6. ASSUME NEW r \in Requests, Retry(i, r) PROVE Goal
    <2>1. user' \subseteq user
      BY <1>6 DEF Retry, ClearAuth
    <2>2. QED
      BY <1>6, <1>e, <2>1 DEF Retry, tableVars, browserVars
  <1>7. CASE RefreshAnswered(i)
    <2>1. PICK f : f = promise[i]
      OBVIOUS
    <2>2. f \in Flights /\ flight[f].pc \in Answers /\ promise' = [promise EXCEPT ![i] = None]
          /\ flight' = [flight EXCEPT ![f] = Idle] /\ UNCHANGED row
      BY <1>c, <1>7, <2>1 DEF RefreshAnswered, Settled, tableVars
    <2>3. Serves(f) /\ \A g \in Flights : g # f => flight[g] = Idle
      BY <1>b, <1>d, <2>1, <2>2 DEF Answers
    <2>4. (\A g \in Flights : flight'[g] = Idle) /\ promise'[i] = None
      BY <1>c, <2>2, <2>3
    <2>5. CASE flight[f].pc = "ok"
      <3>1. cookie' = flight[f].tok /\ row[flight[f].tok] = "unused"
        BY <1>7, <2>1, <2>3, <2>5 DEF RefreshAnswered, SetTokenCookies, Serves
      <3>2. flight[f].tok # 0
        <4>1. flight[f].tok \in 1..issued
          BY <2>2, <2>5 DEF TableInv, IssuedOnly, Holding
        <4>2. QED
          BY <1>c, <4>1, SMTT(30)
      <3>3. QED
        BY <2>2, <2>4, <3>1, <3>2
    <2>6. CASE flight[f].pc = "rejected"
      <3>1. cookie' = 0 /\ user' = user \ {i}
        BY <1>7, <2>1, <2>6 DEF RefreshAnswered, ClearTokenCookies, ClearAuth
      <3>2. QED
        BY <2>4, <3>1
    <2>7. CASE flight[f].pc = "left"
      <3>1. cookie' = cookie /\ user' = user \ {i}
        BY <1>7, <2>1, <2>7 DEF RefreshAnswered, ClearAuth, browserVars
      <3>2. cookie # 0 => row[cookie] = "unused"
        BY <2>3, <2>7 DEF Serves
      <3>3. QED
        BY <2>2, <2>4, <3>1, <3>2
    <2>8. QED
      BY <2>3, <2>5, <2>6, <2>7, <2>2 DEF Serves, Answers
  <1>8. ~AnswerLost(i)
    BY <1>a DEF AnswerLost
  <1>9. ASSUME NEW f \in Flights, Unawaited(f) PROVE FALSE
    BY <1>d, <1>9 DEF Unawaited, Awaited, Answers
  <1>f. ASSUME NEW f \in Flights, flight[f].pc # "idle", Kept,
               \A g \in Flights : g # f => flight'[g] = flight[g], Serves(f)'
        PROVE  Goal
    <2>1. promise' = promise /\ cookie' = cookie /\ user' = user
      BY <1>f DEF Kept, tabVars, browserVars
    <2>2. QED
      BY <1>b, <1>d, <1>f, <2>1, OwnStep
  <1>10. ASSUME NEW f \in Flights, ClaimRefreshToken(f) PROVE Goal
    <2>1. PICK t : t = flight[f].tok
      OBVIOUS
    <2>2. flight[f].pc = "claim" /\ Kept /\ Serves(f) /\ row[t] = "unused" /\ (cookie \in {0, t} \/ row[cookie] = "unused")
      BY <1>d, <1>10, <2>1 DEF ClaimRefreshToken, Serves
    <2>3. cookie' = cookie
      BY <2>2 DEF Kept, browserVars
    <2>4. CASE row' = [row EXCEPT ![t] = "used"] /\ To(f, "insert")
      <3>1. Moves(f, "insert", t)
        BY <2>1, <2>4, ToMoves DEF States, Pending, TableInv
      <3>2. cookie \in {0, t} \/ row'[cookie] = "unused"
        BY <1>c, <2>2, <2>4, SMTT(30)
      <3>3. Serves(f)'
        BY <2>3, <3>1, <3>2 DEF Moves, Serves
      <3>4. QED
        BY <1>f, <2>2, <3>1, <3>3 DEF Moves
    <2>5. CASE t \in stale /\ To(f, "lookup") /\ UNCHANGED tableVars
      <3>1. Moves(f, "lookup", t)
        BY <2>1, <2>5, ToMoves DEF States, Pending, TableInv
      <3>2. Serves(f)'
        BY <2>2, <2>3, <2>5, <3>1 DEF Moves, Serves, tableVars
      <3>3. QED
        BY <1>f, <2>2, <3>1, <3>2 DEF Moves
    <2>6. QED
      BY <1>a, <1>10, <2>1, <2>2, <2>4, <2>5 DEF ClaimRefreshToken
  <1>11. ASSUME NEW f \in Flights, Lookup(f) PROVE Goal
    <2>1. PICK t : t = flight[f].tok
      OBVIOUS
    <2>2. /\ flight[f].pc = "lookup" /\ Kept /\ UNCHANGED tableVars
          /\ row[t] = "unused" /\ t \in stale /\ (cookie \in {0, t} \/ row[cookie] = "unused")
      BY <1>d, <1>11, <2>1 DEF Lookup, Serves
    <2>3. To(f, "expire")
      BY <1>a, <1>11, <2>1, <2>2 DEF Lookup
    <2>4. Moves(f, "expire", t)
      BY <2>1, <2>3, ToMoves DEF States, Pending, TableInv
    <2>5. Serves(f)'
      BY <2>2, <2>4 DEF Moves, Serves, tableVars, Kept, browserVars
    <2>6. QED
      BY <1>f, <2>2, <2>4, <2>5 DEF Moves
  <1>12. ASSUME NEW f \in Flights, Revoke(f) PROVE Goal
    <2>1. flight[f].pc # "idle" /\ Kept /\ Reply(f, "rejected")
      BY <1>12 DEF Revoke
    <2>2. Moves(f, "rejected", 0)
      BY <2>1, ReplyMoves DEF States, Answers, TableInv
    <2>3. Serves(f)'
      BY <2>2 DEF Moves, Serves
    <2>4. QED
      BY <1>f, <2>1, <2>2, <2>3 DEF Moves
  <1>13. ASSUME NEW f \in Flights, Rotate(f) PROVE Goal
    <2>1. PICK n : n = issued + 1
      OBVIOUS
    <2>2. /\ flight[f].pc = "insert" /\ Kept /\ issued < MaxTokens
          /\ row' = [row EXCEPT ![n] = "unused"] /\ flight' = [flight EXCEPT ![f] = [pc |-> "ok", tok |-> n]]
      BY <1>a, <1>13, <2>1 DEF Rotate, Issue
    <2>3. n \in Tokens /\ n \in 0..MaxTokens
      BY <1>c, <2>1, <2>2, TokenBounds, SMTT(30) DEF Tokens
    <2>4. row'[n] = "unused"
      BY <1>c, <2>2, <2>3
    <2>5. Moves(f, "ok", n)
      BY <2>2, <2>3, PutMoves DEF States, Answers, TableInv
    <2>6. Serves(f)'
      BY <2>4, <2>5 DEF Moves, Serves
    <2>7. QED
      BY <1>f, <2>2, <2>5, <2>6 DEF Moves
  <1>14. ASSUME NEW f \in Flights, RevokeRefresh(f) PROVE FALSE
    BY <1>d, <1>14 DEF RevokeRefresh, Serves
  <1>15. CASE AccessExpires
    BY <1>15, <1>e DEF AccessExpires, tableVars, tabVars
  <1>16. ASSUME NEW t \in Tokens, TokenExpires(t) PROVE Goal
    BY <1>16, <1>e DEF TokenExpires, tabVars, browserVars
  <1>17. CASE UNCHANGED vars
    BY <1>17, <1>e DEF vars, tableVars, browserVars, tabVars
  <1>18. QED
    BY <1>1, <1>2, <1>3, <1>4, <1>5, <1>6, <1>7, <1>8, <1>9, <1>10, <1>11, <1>12, <1>13, <1>14, <1>15, <1>16, <1>17
       DEF Next, Tab, Handler

LEMMA SingleTab == Cardinality(Tabs) = 1 => \E i \in Tabs : Tabs = {i}
  BY FS_Singleton, TokenBounds

LEMMA SpecAlone == Spec => [](TableInv /\ AloneInv)
  <1>1. Init => TableInv /\ AloneInv
    BY TableInit, AloneInit
  <1>2. TableInv /\ AloneInv /\ [Next]_vars => (TableInv /\ AloneInv)'
    BY TableNext, AloneNext
  <1>3. QED
    BY <1>1, <1>2, PTL DEF Spec

\* One tab that lost no answer and never signed out never presents a token that
\* was already used, however many requests meet a 401 at once: refreshOnce
\* shares one refresh and the next one takes the rotated cookie.
THEOREM OneTabNeverReusesAlways == Spec => []OneTabNeverReuses
  <1>1. TableInv /\ AloneInv => OneTabNeverReuses
    <2> SUFFICES ASSUME AloneInv, Cardinality(Tabs) = 1, losses = 0, out = {}, NEW f \in Flights
                 PROVE  flight[f].pc # "revoke"
      BY DEF OneTabNeverReuses, NeverReused
    <2>1. PICK i \in Tabs : Tabs = {i}
      BY SingleTab
    <2>2. flight[f] # Idle => Serves(f)
      BY <2>1 DEF AloneInv, Alone
    <2>3. QED
      BY <2>2 DEF Serves, Idle
  <1>2. QED
    BY <1>1, SpecAlone, PTL

\* Under the same conditions a signed-in tab that is not refreshing holds a
\* token that the next refresh can rotate, so that an expired access token
\* alone never signs anybody out.
THEOREM CookieRotatesAlways == Spec => []CookieRotates
  <1>1. TableInv /\ AloneInv => CookieRotates
    <2> SUFFICES ASSUME AloneInv, NEW i \in user, Cardinality(Tabs) = 1, losses = 0, out = {},
                        promise[i] = None, cookie # 0
                 PROVE  row[cookie] = "unused"
      BY DEF CookieRotates
    <2>1. PICK j \in Tabs : Tabs = {j}
      BY SingleTab
    <2>2. QED
      BY <2>1 DEF AloneInv, Alone
  <1>2. QED
    BY <1>1, SpecAlone, PTL
=============================================================================
