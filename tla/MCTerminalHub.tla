--------------------------- MODULE MCTerminalHub ---------------------------
(***************************************************************************)
(* Small instances of TerminalHub: two tabs of one user and two or three   *)
(* sockets, which are used again once nobody refers to them.               *)
(***************************************************************************)
EXTENDS TerminalHub, TLC

CONSTANTS b1, b2, c1, c2, c3

TwoTabs == {b1, b2}
TwoSockets == {c1, c2}
ThreeSockets == {c1, c2, c3}
Symmetric == Permutations(Tabs) \cup Permutations(Sockets)
=============================================================================
