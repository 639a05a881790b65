-------------------------- MODULE MCRefreshTokens --------------------------
(***************************************************************************)
(* Small instances of RefreshTokens: one or two tabs of one browser.       *)
(***************************************************************************)
EXTENDS RefreshTokens, TLC

CONSTANTS i1, i2, r1, r2, f1, f2

OneTab == {i1}
TwoTabs == {i1, i2}
TwoRequests == {r1, r2}
OneRequest == {r1}
TwoFlights == {f1, f2}
Symmetric == Permutations({f1, f2}) \cup Permutations({r1, r2})
=============================================================================
