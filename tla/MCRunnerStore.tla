--------------------------- MODULE MCRunnerStore ---------------------------
(***************************************************************************)
(* Values of RunnerStore's constants for TLC.                              *)
(***************************************************************************)
EXTENDS RunnerStoreRefinement

CONSTANTS u1, s1, s2, k1, k2

OwnedByU1 == [s \in Sessions |-> u1]
KeysOfU1 == [k \in ClientOps |-> u1]

=============================================================================
