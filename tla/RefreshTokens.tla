---------------------------- MODULE RefreshTokens ----------------------------
(***************************************************************************)
(* Rotating refresh tokens: the table of token families, the statements of *)
(* the refresh and logout handlers, one browser's cookies, and the tabs    *)
(* that share them.  Each tab shares one refresh among its own requests    *)
(* (refreshPromise); nothing is shared between tabs but the cookies, which *)
(* a request takes along when it is sent and an answer changes when it     *)
(* arrives.  A token is the number of its row; a family is named after the *)
(* token that started it.                                                  *)
(***************************************************************************)
EXTENDS Naturals, FiniteSets

CONSTANTS
    Tabs, Requests,
    Flights,    \* bound: calls of the auth handlers running at once
    MaxTokens,  \* bound: tokens ever issued
    MaxLosses,  \* bound: answers lost, store calls failed
    MaxExpired, \* bound: rows past expires_at
    MaxLogouts  \* bound: families whose user signs out

None == "none"

ASSUME TokenBounds ==
    /\ MaxTokens \in Nat /\ MaxLosses \in Nat /\ MaxExpired \in Nat /\ MaxLogouts \in Nat
    /\ IsFiniteSet(Tabs) /\ IsFiniteSet(Requests) /\ IsFiniteSet(Flights)
    /\ None \notin Flights

Tokens == 1..MaxTokens

VARIABLES
    row,      \* refresh_tokens.used, "none" for no row
    family,   \* refresh_tokens.family_id
    stale,    \* rows past expires_at
    issued,   \* tokens issued so far
    cookie,   \* the refresh_token cookie, 0 for none
    access,   \* the access_token cookie
    flight,   \* the running handlers
    user,     \* tabs with a signed-in user
    promise,  \* the tab's refreshPromise: the handler it waits for
    req,      \* the tab's requests
    out,      \* families whose user signed out
    losses

tableVars == <<row, family, stale, issued>>
browserVars == <<cookie, access>>
tabVars == <<user, promise, req>>
vars == <<tableVars, browserVars, flight, tabVars, out, losses>>

Idle == [pc |-> "idle", tok |-> 0]

Pending == {"claim", "lookup", "revoke", "expire", "insert",
            "lfind", "lforget", "ldelete"}
Answers == {"ok", "rejected", "left", "signedout"}

TypeOK ==
    /\ row \in [Tokens -> {"none", "unused", "used"}]
    /\ family \in [Tokens -> 0..MaxTokens]
    /\ \A t \in Tokens : row[t] # "none" => family[t] \in 1..t
    /\ stale \subseteq Tokens
    /\ issued \in 0..MaxTokens
    /\ cookie \in 0..MaxTokens /\ access \in {"none", "live", "expired"}
    /\ \A f \in Flights : /\ flight[f].pc \in {"idle"} \cup Pending \cup Answers
                          /\ flight[f].tok \in 0..MaxTokens
    /\ user \subseteq Tabs
    /\ promise \in [Tabs -> Flights \cup {None}]
    /\ req \in [Tabs -> [Requests -> {"idle", "unauthorized", "waiting", "retry"}]]
    /\ out \subseteq 0..MaxTokens
    /\ losses \in 0..MaxLosses

Init ==
    /\ row = [t \in Tokens |-> "none"] /\ family = [t \in Tokens |-> 0]
    /\ stale = {} /\ issued = 0
    /\ cookie = 0 /\ access = "none"
    /\ flight = [f \in Flights |-> Idle]
    /\ user = {} /\ promise = [i \in Tabs |-> None]
    /\ req = [i \in Tabs |-> [r \in Requests |-> "idle"]]
    /\ out = {} /\ losses = 0

Issue_NoFamily(fam) ==
    LET t == issued + 1 IN
    /\ issued < MaxTokens
    /\ issued' = t
    /\ row' = [row EXCEPT ![t] = "unused"]
    /\ family' = [family EXCEPT ![t] = fam]
    /\ UNCHANGED stale

\* generateRefreshToken: the new row is unused; 0 starts a family.
Issue(fam) ==
    LET t == issued + 1 IN
    /\ issued < MaxTokens
    /\ issued' = t
    /\ row' = [row EXCEPT ![t] = "unused"]
    /\ family' = [family EXCEPT ![t] = IF fam = 0 THEN t ELSE fam]
    /\ UNCHANGED stale

Delete(T) == row' = [t \in Tokens |-> IF t \in T THEN "none" ELSE row[t]]

FamilyOf(t) == {x \in Tokens : family[x] = family[t]}

\* The handler that takes the next call; which of the idle ones does not matter.
Free == CHOOSE f \in Flights : flight[f] = Idle

Fault == losses < MaxLosses /\ losses' = losses + 1

-----------------------------------------------------------------------------
(***************************************************************************)
(* The tabs.                                                               *)
(***************************************************************************)

\* GithubCallback: a new family, both cookies, and the tab finds its user.
Login(i) ==
    /\ i \notin user
    /\ Issue(0)
    /\ cookie' = issued' /\ access' = "live"
    /\ user' = user \cup {i}
    /\ UNCHANGED <<flight, promise, req, out, losses>>

\* bootstrap: a page finds the user of the browser's cookies.
Bootstrap(i) ==
    /\ i \notin user /\ access = "live"
    /\ user' = user \cup {i}
    /\ UNCHANGED <<tableVars, browserVars, flight, promise, req, out, losses>>

\* request(): a call is answered 401, that of a page that looks for its user
\* included.
Unauthorized(i, r) ==
    /\ req[i][r] = "idle" /\ access # "live"
    /\ req' = [req EXCEPT ![i][r] = "unauthorized"]
    /\ UNCHANGED <<tableVars, browserVars, flight, user, promise, out, losses>>

RefreshOnce_NotShared(i, r) ==
    /\ req[i][r] = "unauthorized"
    /\ \E f \in Flights :
          /\ flight[f] = Idle /\ f = Free
          /\ flight' = [flight EXCEPT ![f] =
                [pc |-> IF cookie = 0 THEN "left" ELSE "claim", tok |-> cookie]]
          /\ promise' = [promise EXCEPT ![i] = f]
    /\ req' = [req EXCEPT ![i][r] = "waiting"]
    /\ UNCHANGED <<tableVars, browserVars, user, out, losses>>

\* refreshOnce: the first 401 sends the refresh with the cookie of that moment,
\* the others share its promise.
RefreshOnce(i, r) ==
    /\ req[i][r] = "unauthorized"
    /\ req' = [req EXCEPT ![i][r] = "waiting"]
    /\ \/ promise[i] # None /\ UNCHANGED <<flight, promise>>
       \/ /\ promise[i] = None
          /\ \E f \in Flights :
                /\ flight[f] = Idle /\ f = Free
                /\ flight' = [flight EXCEPT ![f] =
                      [pc |-> IF cookie = 0 THEN "left" ELSE "claim", tok |-> cookie]]
                /\ promise' = [promise EXCEPT ![i] = f]
    /\ UNCHANGED <<tableVars, browserVars, user, out, losses>>

\* clearAuth drops the user; requests in flight run on.
ClearAuth(i) == user' = user \ {i}

\* The requests that waited for the refresh go on.
Answered(i, then) ==
    req' = [req EXCEPT ![i] = [r \in Requests |-> IF @[r] = "waiting" THEN then ELSE @[r]]]

Settled_Kept(i) == promise

\* The finally of refreshOnce.
Settled(i) == [promise EXCEPT ![i] = None]

SetTokenCookies_AccessOnly(t) == access' = "live" /\ UNCHANGED cookie

SetTokenCookies(t) == cookie' = t /\ access' = "live"

ClearTokenCookies == cookie' = 0 /\ access' = "none"

\* The answer to the tab's refresh: its Set-Cookie headers and its status.
RefreshAnswered(i) ==
    LET f == promise[i] IN
    /\ f # None /\ flight[f].pc \in Answers
    /\ promise' = Settled(i)
    /\ flight' = [flight EXCEPT ![f] = Idle]
    /\ CASE flight[f].pc = "ok" -> SetTokenCookies(flight[f].tok)
         [] flight[f].pc = "rejected" -> ClearTokenCookies
         [] OTHER -> UNCHANGED browserVars
    /\ IF flight[f].pc = "ok"
       THEN Answered(i, "retry") /\ UNCHANGED user
       ELSE Answered(i, "idle") /\ ClearAuth(i)
    /\ UNCHANGED <<tableVars, out, losses>>

\* A transport failure is transient: the user stays, the requests fail, and the
\* handler runs on for nobody.
AnswerLost(i) ==
    /\ promise[i] # None /\ Fault
    /\ promise' = Settled(i)
    /\ Answered(i, "idle")
    /\ UNCHANGED <<tableVars, browserVars, flight, user, out>>

Retry(i, r) ==
    /\ req[i][r] = "retry"
    /\ req' = [req EXCEPT ![i][r] = "idle"]
    /\ IF access = "live" THEN UNCHANGED user ELSE ClearAuth(i)
    /\ UNCHANGED <<tableVars, browserVars, flight, promise, out, losses>>

\* logout(): the call is not waited for; its answer clears the cookies.
Logout(i) ==
    /\ Cardinality(out) < MaxLogouts /\ i \in user
    /\ \E f \in Flights : /\ flight[f] = Idle /\ f = Free
                          /\ flight' = [flight EXCEPT ![f] = [pc |-> "lfind", tok |-> cookie]]
    /\ ClearAuth(i)
    /\ out' = out \cup {family[t] : t \in {cookie} \ {0}}
    /\ UNCHANGED <<tableVars, browserVars, promise, req, losses>>

-----------------------------------------------------------------------------
(***************************************************************************)
(* The handlers, one statement per step.                                   *)
(***************************************************************************)
To(f, pc) == flight' = [flight EXCEPT ![f].pc = pc]
Reply(f, pc) == flight' = [flight EXCEPT ![f] = [pc |-> pc, tok |-> 0]]
Kept == UNCHANGED <<browserVars, tabVars, out>>

ClaimRefreshToken_ReadsFirst(f) ==
    LET t == flight[f].tok IN
    /\ \/ /\ flight[f].pc = "claim"
          /\ To(f, IF row[t] = "unused" /\ t \notin stale THEN "write" ELSE "lookup")
          /\ UNCHANGED tableVars
       \/ /\ flight[f].pc = "write"
          /\ row' = [row EXCEPT ![t] = IF @ = "none" THEN @ ELSE "used"]
          /\ To(f, "insert") /\ UNCHANGED <<family, stale, issued>>
    /\ Kept /\ UNCHANGED losses

\* UPDATE ... SET used = true WHERE used = false AND expires_at > NOW().
ClaimRefreshToken(f) ==
    LET t == flight[f].tok IN
    /\ flight[f].pc = "claim"
    /\ \/ /\ row[t] = "unused" /\ t \notin stale
          /\ row' = [row EXCEPT ![t] = "used"]
          /\ To(f, "insert") /\ UNCHANGED <<family, stale, issued, losses>>
       \/ /\ ~(row[t] = "unused" /\ t \notin stale)
          /\ To(f, "lookup") /\ UNCHANGED <<tableVars, losses>>
       \/ Fault /\ Reply(f, "rejected") /\ UNCHANGED tableVars
    /\ Kept

\* FindRefreshToken, and RefreshAccessToken's decision on what it read.
Lookup(f) ==
    LET t == flight[f].tok IN
    /\ flight[f].pc = "lookup"
    /\ \/ /\ row[t] # "none" /\ UNCHANGED losses
          /\ To(f, CASE row[t] = "used" -> "revoke"
                     [] row[t] = "unused" /\ t \in stale -> "expire"
                     [] OTHER -> "insert")
       \/ Reply(f, "rejected") /\ (Fault \/ (row[t] = "none" /\ UNCHANGED losses))
    /\ Kept /\ UNCHANGED tableVars

\* Reuse revokes the family; an expired token only itself.  The error of the
\* delete is ignored.
Revoke(f) ==
    LET t == flight[f].tok IN
    /\ flight[f].pc \in {"revoke", "expire"}
    /\ \/ Fault /\ UNCHANGED row
       \/ flight[f].pc = "revoke" /\ Delete(FamilyOf(t)) /\ UNCHANGED losses
       \/ flight[f].pc = "expire" /\ Delete({t}) /\ UNCHANGED losses
    /\ Reply(f, "rejected")
    /\ Kept /\ UNCHANGED <<family, stale, issued>>

\* generateRefreshToken in the family of the claimed token.
Rotate(f) ==
    /\ flight[f].pc = "insert"
    /\ \/ /\ Issue(family[flight[f].tok])
          /\ flight' = [flight EXCEPT ![f] = [pc |-> "ok", tok |-> issued']]
          /\ UNCHANGED losses
       \/ Fault /\ Reply(f, "rejected") /\ UNCHANGED tableVars
    /\ Kept

\* RevokeRefresh: find the family, then delete it; a token that is not found, or
\* whose lookup fails, is deleted alone.  The error of the delete is ignored.
RevokeRefresh(f) ==
    LET t == flight[f].tok IN
    /\ \/ /\ flight[f].pc = "lfind" /\ t = 0
          /\ Reply(f, "signedout") /\ UNCHANGED <<row, losses>>
       \/ /\ flight[f].pc = "lfind" /\ t # 0
          /\ \/ row[t] # "none" /\ To(f, "ldelete") /\ UNCHANGED losses
             \/ To(f, "lforget") /\ (Fault \/ (row[t] = "none" /\ UNCHANGED losses))
          /\ UNCHANGED row
       \/ /\ flight[f].pc = "ldelete" /\ Reply(f, "signedout")
          /\ ((Delete(FamilyOf(t)) /\ UNCHANGED losses) \/ (UNCHANGED row /\ Fault))
       \/ /\ flight[f].pc = "lforget" /\ Reply(f, "signedout")
          /\ ((Delete({t}) /\ UNCHANGED losses) \/ (UNCHANGED row /\ Fault))
    /\ Kept /\ UNCHANGED <<family, stale, issued>>

Awaited(f) == \E i \in Tabs : promise[i] = f

\* The answer of a logout clears the cookies; that of a handler whose tab gave
\* up is lost.
Unawaited(f) ==
    /\ flight[f].pc \in Answers /\ ~Awaited(f)
    /\ flight' = [flight EXCEPT ![f] = Idle]
    /\ \/ flight[f].pc # "signedout" /\ UNCHANGED <<browserVars, losses>>
       \/ flight[f].pc = "signedout" /\ Fault /\ UNCHANGED browserVars
       \/ /\ flight[f].pc = "signedout" /\ ClearTokenCookies /\ UNCHANGED losses
    /\ UNCHANGED <<tableVars, tabVars, out>>

AccessExpires ==
    /\ access = "live" /\ access' = "expired"
    /\ UNCHANGED <<tableVars, cookie, flight, tabVars, out, losses>>

TokenExpires(t) ==
    /\ row[t] = "unused" /\ t \notin stale /\ Cardinality(stale) < MaxExpired
    /\ stale' = stale \cup {t}
    /\ UNCHANGED <<row, family, issued, browserVars, flight, tabVars, out, losses>>

-----------------------------------------------------------------------------
Handler(f) ==
    \/ ClaimRefreshToken(f) \/ Lookup(f) \/ Revoke(f) \/ Rotate(f)
    \/ RevokeRefresh(f) \/ Unawaited(f)

Tab(i) ==
    \/ Login(i) \/ Bootstrap(i) \/ Logout(i)
    \/ \E r \in Requests : Unauthorized(i, r) \/ RefreshOnce(i, r) \/ Retry(i, r)
    \/ RefreshAnswered(i) \/ AnswerLost(i)

Next ==
    \/ \E i \in Tabs : Tab(i)
    \/ \E f \in Flights : Handler(f)
    \/ AccessExpires
    \/ \E t \in Tokens : TokenExpires(t)

Spec == Init /\ [][Next]_vars

\* The server finishes what it runs, and a tab goes on with its answer.
Fairness ==
    /\ \A f \in Flights : WF_vars(Handler(f))
    /\ \A i \in Tabs : WF_vars(RefreshAnswered(i))

FairSpec == Spec /\ Fairness

-----------------------------------------------------------------------------
(***************************************************************************)
(* Properties.                                                             *)
(***************************************************************************)

\* Rotation: a family never has two tokens that could both be rotated, whatever
\* refreshes run at once (the atomic claim of ClaimRefreshToken).
OneUnusedPerFamily ==
    \A t, x \in Tokens :
        row[t] = "unused" /\ row[x] = "unused" /\ family[t] = family[x] => t = x

\* The rotating refresh token is never reused: no refresh finds its token used,
\* which would sign the browser out everywhere (client.ts).
NeverReused == \A f \in Flights : flight[f].pc # "revoke"

\* In one tab, as long as no answer was lost and nobody signed out, the shared
\* refresh and the rotated cookie keep every token from being presented twice.
OneTabNeverReuses == Cardinality(Tabs) = 1 /\ losses = 0 /\ out = {} => NeverReused

\* Then a signed-in tab that is not refreshing also holds a token it can still
\* rotate, so that an expired access token alone never signs anybody out.
CookieRotates ==
    \A i \in user :
        Cardinality(Tabs) = 1 /\ losses = 0 /\ out = {}
        /\ promise[i] = None /\ cookie # 0 /\ cookie \notin stale
        => row[cookie] = "unused"

\* Logout revokes the family: once every handler has answered, no token of a
\* family whose user signed out can be rotated (RevokeRefresh).
LogoutEndsFamily ==
    (\A f \in Flights : flight[f] = Idle) =>
        \A t \in Tokens : family[t] \in out => row[t] # "unused" \/ t \in stale

\* Requests that wait for a refresh are answered: it settles, and all of them go
\* on together, retried or given up (or its rotation needs more rows than the
\* bound on tokens has), whatever store call of it fails.
RequestsSettle ==
    \A i \in Tabs :
        (\E r \in Requests : req[i][r] = "waiting") ~>
            \/ \A r \in Requests : req[i][r] # "waiting"
            \/ /\ issued = MaxTokens /\ promise[i] # None
               /\ flight[promise[i]].pc = "insert"

=============================================================================
