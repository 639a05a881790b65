----------------------- MODULE MCControllerAuthority -----------------------
(***************************************************************************)
(* ControllerAuthority for TLC: a controller, and the one that takes over. *)
(***************************************************************************)
EXTENDS ControllerAuthority

CONSTANTS c1, c2

TwoControllers == {c1, c2}
AllKinds == CallKinds
=============================================================================
