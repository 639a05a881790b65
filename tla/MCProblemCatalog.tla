-------------------------- MODULE MCProblemCatalog --------------------------
(***************************************************************************)
(* Small instances of ProblemCatalog.                                      *)
(***************************************************************************)
EXTENDS ProblemCatalog, TLC

CONSTANTS p1, p2, x1, x2, r1, r2, r3

OneProcess == {p1}
TwoProcesses == {p1, p2}
\* The second catalog has a new revision of one problem, and keeps the other.
ThreeRevisions == {r1, r2, r3}
TwoProblems == r1 :> x1 @@ r2 :> x2 @@ r3 :> x2
TwoContents == {{r1, r2}, {r1, r3}}
Symmetric == Permutations(Procs)
=============================================================================
