----------------------- MODULE RunnerStoreRefinement ------------------------
(***************************************************************************)
(* RunnerStore keeps the promise of Environments: the refinement mapping   *)
(* reads an environment's life from the rows of its allocation.            *)
(***************************************************************************)
EXTENDS RunnerStore

\* Usable is what BeginVerify, RecordChoice and the terminal ask for.
Life(a) ==
    CASE desired[a] = "none" -> "none"
      [] desired[a] = "active" /\ observed[a] # "running" -> "wanted"
      [] desired[a] = "active" /\ observed[a] = "running" -> "usable"
      [] desired[a] = "absent" /\ observed[a] # "absent" -> "leaving"
      [] Absent(a) -> "gone"

environment == [a \in Allocs |-> Life(a)]

Promise == INSTANCE Environments WITH
    life <- environment,
    verdict <- attempt,
    latest <- currentGen

\* The store implements the environments it promises: whatever workers, clients,
\* watchers and restarts do, every transaction is a step of Environments or
\* invisible to it.
KeepsPromise == Promise!Spec

\* Why it does: the one wanted allocation of a session is that of its current
\* generation, its attempt is open exactly as long, every older one has been
\* given up, and what was observed running had been claimed.
Rows ==
    /\ \A a \in Allocs :
          /\ desired[a] = "active" => IsCurrent(a) /\ sessDesired[a[1]] = "active"
          /\ attempt[a] = "in_progress" <=> desired[a] = "active"
          /\ desired[a] = "none" <=> a[2] > currentGen[a[1]]
          /\ observed[a] = "running" \/ createOp[a] = "succeeded" => createClaims[a] > 0
    /\ \A s \in Sessions : sessDesired[s] = "active" => desired[<<s, currentGen[s]>>] = "active"

\* A running verification is stored for an allocation, and a session that is
\* verifying has a running environment.
Grading ==
    /\ \A k \in ClientOps : opState[k] = "running" => opAlloc[k] \in Allocs
    /\ \A s \in Sessions : sessState[s] = "verifying" =>
          sessDesired[s] = "active" /\ observed[<<s, currentGen[s]>>] = "running"

=============================================================================
