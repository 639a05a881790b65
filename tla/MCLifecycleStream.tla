------------------------- MODULE MCLifecycleStream -------------------------
(***************************************************************************)
(* Values of LifecycleStream's constants for TLC.                          *)
(***************************************************************************)
EXTENDS LifecycleStream

CONSTANTS u1, s1, s2, k1

OwnedByU1 == [s \in Sessions |-> u1]
KeysOfU1 == [k \in ClientOps |-> u1]

=============================================================================
