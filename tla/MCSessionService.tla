-------------------------- MODULE MCSessionService --------------------------
(***************************************************************************)
(* Values of SessionService's constants for TLC.                           *)
(***************************************************************************)
EXTENDS SessionService

CONSTANTS u1, u2, s1, s2, k1

OwnedByU1 == [s \in Sessions |-> u1]
OneEach == [s \in Sessions |-> IF s = s1 THEN u1 ELSE u2]
KeysOfU1 == [k \in ClientOps |-> u1]

\* Bound: of all creates and destroys, one is claimed more than once.
OneReclaimed ==
    LET creates == {a \in Allocs : createClaims[a] > 1}
        destroys == {a \in Allocs : destroyClaims[a] > 1}
    IN  Cardinality(creates) + Cardinality(destroys) <= 1

=============================================================================
