-------------------------- MODULE MCArtifactStore --------------------------
(***************************************************************************)
(* Small instances of ArtifactStore.                                       *)
(***************************************************************************)
EXTENDS ArtifactStore, TLC

CONSTANTS r1, r2, x1, x2

TwoRefs == {r1, r2}
OneWriter == {x1}
TwoWriters == {x1, x2}
Symmetric == Permutations(Writers)
=============================================================================
