------------------------ MODULE MCLocalDockerRunner ------------------------
(***************************************************************************)
(* Small instances of LocalDockerRunner: one session of two generations,   *)
(* two concurrent calls.                                                   *)
(***************************************************************************)
EXTENDS LocalDockerRunner

CONSTANTS s1, t1, t2, l1, l2

OneSession == {s1}
TwoThreads == {t1, t2}
TwoLeases == {l1, l2}
NoLeases == {}
AllCalls == {"setup", "verify", "terminal", "destroy"}
Destroys == {"destroy"}

First == {1}

\* A second generation is created only where nothing but creates and destroys
\* goes on: a reset does not add its steps to every other case.
QuietReset ==
    \/ \A ref \in reserved : Gen(ref) = 1
    \/ /\ faults = 0 /\ meddled = 0 /\ crashes = 0 /\ expired = {}
       /\ \A l \in Leases : lease[l].st = "none"
       /\ \A k \in Keys : runs[k] = 0 /\ (k \in keys => k[1] = "create")
       /\ \A t \in Threads : call[t].op \in {"none", "create", "destroy"}

Symmetric == Permutations(Threads) \cup Permutations(Leases)
=============================================================================
