---------------------------- MODULE DockerManager ----------------------------
(***************************************************************************)
(* The container manager of the local Docker provider: one container and   *)
(* one network of the same deterministic name per allocation, created,     *)
(* recovered after a lost answer, inspected and removed by separate calls  *)
(* of the Docker daemon, any of which may fail or be answered too late.    *)
(* A resource is this allocation's own (the trusted create specification   *)
(* and the physical identity match) or foreign: something else that        *)
(* occupies the name.  At most one own container exists per name, so an    *)
(* own resource stands for its identifier.                                 *)
(***************************************************************************)
EXTENDS Naturals, FiniteSets

CONSTANTS
    Sessions, Threads,
    MaxGen,         \* bound: generations of a session
    MaxFaults,      \* bound: failed daemon calls
    FaultsPerCall,  \* bound: failed daemon calls within one runner call
    MaxForeign      \* bound: names taken, containers removed by an operator

ASSUME DockerBounds ==
    /\ IsFiniteSet(Sessions) /\ IsFiniteSet(Threads)
    /\ MaxGen \in Nat \ {0} /\ MaxFaults \in Nat
    /\ FaultsPerCall \in Nat /\ MaxForeign \in Nat

Generations == 1..MaxGen
Refs == Sessions \X Generations

VARIABLES
    container,  \* what has the allocation's name: its own container or not
    network,    \* likewise for the network
    call,       \* the running calls of the runner
    faults, meddled

dockerVars == <<container, network, call, faults, meddled>>

Own == {"created", "running", "stopped"}

(* A call: its step, the identifiers an inspection resolved, whether a     *)
(* removal failed, what the removal is for, and the faults it met.         *)
IdleCall(ref) == [op |-> "none", ref |-> ref, pc |-> "idle", lease |-> "none",
                  c |-> FALSE, n |-> FALSE, err |-> FALSE, for |-> "none", hits |-> 0]

At(t, pc) == call[t].pc = pc
Ref(t) == call[t].ref

Move(t, pc) ==
    /\ call' = [call EXCEPT ![t].pc = pc]
    /\ UNCHANGED faults

(* The daemon call of this step fails, or its answer is lost.              *)
CanTrip(t) == faults < MaxFaults /\ call[t].hits < FaultsPerCall

Trip(t, pc) ==
    /\ CanTrip(t)
    /\ call' = [call EXCEPT ![t].pc = pc, ![t].hits = @ + 1]
    /\ faults' = faults + 1

(* Starts RemoveOwnedAllocation; it ends in Removed.                       *)
Cleanup(t, for) ==
    call' = [call EXCEPT ![t].pc = "inspect", ![t].for = for, ![t].err = FALSE]

Removed(t, ok) ==
    CASE call[t].for = "create" -> "notmade"
      [] call[t].for # "create" /\ ok -> "removed"
      [] call[t].for # "create" /\ ~ok -> "notremoved"

-----------------------------------------------------------------------------
(* CreateOwnedAllocation.                                                  *)

NetworkIs(t, what) ==
    /\ network' = [network EXCEPT ![Ref(t)] = what]
    /\ UNCHANGED <<container, meddled>>

ContainerIs(t, what) ==
    /\ container' = [container EXCEPT ![Ref(t)] = what]
    /\ UNCHANGED <<network, meddled>>

EnsureNetwork(t) ==
    /\ At(t, "network")
    /\ \/ network[Ref(t)] = "own" /\ NetworkIs(t, "own") /\ Move(t, "container")
       \/ network[Ref(t)] = "foreign" /\ NetworkIs(t, "foreign") /\ Move(t, "notmade")
       \/ network[Ref(t)] = "none" /\ NetworkIs(t, "own") /\ Move(t, "container")
       \/ NetworkIs(t, network[Ref(t)]) /\ Trip(t, "notmade")
       \/ /\ network[Ref(t)] = "none"
          /\ \E left \in {"none", "own"} : NetworkIs(t, left)
          /\ Trip(t, "netlost")

(* The answer to the network's creation was lost: look the name up again.  *)
RecoverNetwork(t) ==
    /\ At(t, "netlost")
    /\ UNCHANGED <<container, network, meddled>>
    /\ \/ Move(t, IF network[Ref(t)] = "own" THEN "container" ELSE "notmade")
       \/ Trip(t, "notmade")

ContainerCreate(t) ==
    /\ At(t, "container")
    /\ \/ container[Ref(t)] = "none" /\ ContainerIs(t, "created") /\ Move(t, "start")
       \/ /\ container[Ref(t)] = "none"
          /\ \E left \in {"none", "created"} : ContainerIs(t, left)
          /\ Trip(t, "recover")
       \/ /\ container[Ref(t)] # "none"
          /\ ContainerIs(t, container[Ref(t)]) /\ Move(t, "recover")

(* A container that cannot be started is removed again.                    *)
ContainerStart(t) ==
    /\ At(t, "start")
    /\ \/ container[Ref(t)] \in Own /\ ContainerIs(t, "running") /\ Move(t, "made")
       \/ /\ container[Ref(t)] \in Own /\ CanTrip(t)
          /\ \E left \in {container[Ref(t)], "running"} : ContainerIs(t, left)
          /\ call' = [call EXCEPT ![t].pc = "inspect", ![t].for = "create",
                                  ![t].err = FALSE, ![t].hits = @ + 1]
          /\ faults' = faults + 1
       \/ /\ container[Ref(t)] \notin Own
          /\ ContainerIs(t, container[Ref(t)])
          /\ Cleanup(t, "create") /\ UNCHANGED faults

(* After an ambiguous create the container is adopted only when it and its *)
(* network are this allocation's; nothing ambiguous is deleted.            *)
Adoptable(ref) == container[ref] \in {"created", "running"} /\ network[ref] = "own"

RecoverAmbiguousCreate(t) ==
    /\ At(t, "recover")
    /\ UNCHANGED <<container, network, meddled>>
    /\ \/ /\ container[Ref(t)] = "none"
          /\ Cleanup(t, "create") /\ UNCHANGED faults
       \/ /\ Adoptable(Ref(t))
          /\ Move(t, IF container[Ref(t)] = "running" THEN "made" ELSE "start")
       \/ /\ container[Ref(t)] # "none" /\ ~Adoptable(Ref(t))
          /\ Move(t, "notmade")
       \/ Trip(t, "notmade")

-----------------------------------------------------------------------------
(* RemoveOwnedAllocation.                                                  *)

(* OwnershipComplete of inspectOwnedAllocation: nothing foreign has the    *)
(* name of either resource.                                                *)
OwnershipComplete(ref) == container[ref] # "foreign" /\ network[ref] # "foreign"
ContainerPresent(ref) == container[ref] # "none"
NetworkPresent(ref) == network[ref] # "none"

InspectBefore(t) ==
    /\ At(t, "inspect")
    /\ UNCHANGED <<container, network, meddled>>
    /\ \/ /\ OwnershipComplete(Ref(t))
          /\ call' = [call EXCEPT ![t].pc = "rmcontainer",
                                  ![t].c = ContainerPresent(Ref(t)),
                                  ![t].n = NetworkPresent(Ref(t))]
          /\ UNCHANGED faults
       \/ ~OwnershipComplete(Ref(t)) /\ Move(t, Removed(t, FALSE))
       \/ Trip(t, Removed(t, FALSE))

(* The container that was inspected is removed by its identifier: one that *)
(* has taken its name since is not touched.                                *)
ContainerRemove_ByName(t) ==
    /\ At(t, "rmcontainer")
    /\ ContainerIs(t, "none")
    /\ Move(t, "rmnetwork")

ContainerRemove(t) ==
    /\ At(t, "rmcontainer")
    /\ \/ /\ call[t].c /\ container[Ref(t)] \in Own
          /\ ContainerIs(t, "none")
          /\ Move(t, "rmnetwork")
       \/ /\ ~(call[t].c /\ container[Ref(t)] \in Own)
          /\ ContainerIs(t, container[Ref(t)])
          /\ Move(t, "rmnetwork")
       \/ /\ call[t].c /\ container[Ref(t)] \in Own /\ CanTrip(t)
          /\ \E left \in {container[Ref(t)], "none"} : ContainerIs(t, left)
          /\ call' = [call EXCEPT ![t].pc = "rmnetwork", ![t].err = TRUE, ![t].hits = @ + 1]
          /\ faults' = faults + 1

(* The daemon refuses to remove a network that a container is attached to. *)
NetworkRemove(t) ==
    /\ At(t, "rmnetwork")
    /\ LET mine == call[t].n /\ network[Ref(t)] = "own"
           done == IF call[t].err THEN Removed(t, FALSE) ELSE "recheck"
       IN \/ /\ mine /\ container[Ref(t)] \notin Own
             /\ NetworkIs(t, "none") /\ Move(t, done)
          \/ /\ mine /\ container[Ref(t)] \in Own
             /\ NetworkIs(t, "own") /\ Move(t, Removed(t, FALSE))
          \/ /\ ~mine
             /\ NetworkIs(t, network[Ref(t)]) /\ Move(t, done)
          \/ /\ mine /\ container[Ref(t)] \notin Own
             /\ \E left \in {"none", "own"} : NetworkIs(t, left)
             /\ Trip(t, Removed(t, FALSE))

(* Removal succeeded only when neither identifiers nor names are left.     *)
InspectAfter(t) ==
    /\ At(t, "recheck")
    /\ UNCHANGED <<container, network, meddled>>
    /\ \/ Move(t, Removed(t, ~ContainerPresent(Ref(t)) /\ ~NetworkPresent(Ref(t))))
       \/ Trip(t, Removed(t, FALSE))

ManagerStep(t) ==
    \/ EnsureNetwork(t)
    \/ RecoverNetwork(t)
    \/ ContainerCreate(t)
    \/ ContainerStart(t)
    \/ RecoverAmbiguousCreate(t)
    \/ InspectBefore(t)
    \/ ContainerRemove(t)
    \/ NetworkRemove(t)
    \/ InspectAfter(t)

-----------------------------------------------------------------------------
(* What happens to the containers without the runner.                      *)

(* A container dies.                                                       *)
Dies(ref) ==
    /\ container[ref] = "running"
    /\ container' = [container EXCEPT ![ref] = "stopped"]
    /\ UNCHANGED <<network, call, faults, meddled>>

(* An operator removes a container, or something else takes a free name.   *)
Meddle(ref) ==
    /\ meddled < MaxForeign
    /\ meddled' = meddled + 1
    /\ UNCHANGED <<call, faults>>
    /\ \/ /\ container[ref] \in Own
          /\ container' = [container EXCEPT ![ref] = "none"] /\ UNCHANGED network
       \/ /\ container[ref] = "none"
          /\ container' = [container EXCEPT ![ref] = "foreign"] /\ UNCHANGED network
       \/ /\ network[ref] = "none"
          /\ network' = [network EXCEPT ![ref] = "foreign"] /\ UNCHANGED container

DockerInit ==
    /\ container = [ref \in Refs |-> "none"]
    /\ network = [ref \in Refs |-> "none"]
    /\ call = [t \in Threads |-> IdleCall(CHOOSE ref \in Refs : TRUE)]
    /\ faults = 0 /\ meddled = 0
=============================================================================
