--------------------------- MODULE ArtifactStore ---------------------------
(***************************************************************************)
(* The filesystem store of problem artifacts.  Ensure walks and creates    *)
(* the chain of directories above an object, writes a temporary file,      *)
(* renames it to the object's name without replacing anything, and syncs   *)
(* at each step.  What is visible and what is on disk are kept apart: a    *)
(* process may die at any step, which loses its work and keeps what is     *)
(* visible, and the machine may stop, which loses whatever was not synced. *)
(* All objects of the model share one directory, so that a writer can meet *)
(* the unsynced work of another.                                           *)
(***************************************************************************)
EXTENDS Naturals, FiniteSets

CONSTANTS
    Refs, Writers,
    Depth,        \* directories above an object: root, objects, sha256, prefix
    MaxFaults,    \* bound: failed writes and syncs
    MaxKills,     \* bound: deaths of a process
    MaxCrashes    \* bound: stops of the machine

ASSUME ArtifactBounds ==
    /\ IsFiniteSet(Refs) /\ IsFiniteSet(Writers) /\ Depth \in Nat \ {0}
    /\ {MaxFaults, MaxKills, MaxCrashes} \subseteq Nat

Levels == 1..Depth

VARIABLES
    dirs, dirsOnDisk,    \* the levels that exist, and those that are synced
    objects, onDisk,     \* the file under each object name: seen, and synced
    writer,              \* each call of Ensure
    ensured,             \* history: refs that an Ensure reported as stored
    exposed,             \* history: refs stored below a directory of another
                         \* call that was not synced when it was entered
    faults, kills, crashes

diskVars == <<dirs, dirsOnDisk, objects, onDisk>>
boundVars == <<faults, kills, crashes>>
historyVars == <<ensured, exposed>>
vars == <<diskVars, writer, historyVars, boundVars>>

(* A file whose bytes are synced is whole; before that a crash may tear it.*)
Files == {"none", "whole", "volatile", "torn"}

Idle == [pc |-> "idle", ref |-> CHOOSE r \in Refs : TRUE, level |-> 1,
         temp |-> "none", ok |-> FALSE]

(* The types; a call that has returned leaves no temporary file.           *)
TypeOK ==
    /\ dirs \subseteq Levels /\ dirsOnDisk \subseteq Levels
    /\ objects \in [Refs -> Files] /\ onDisk \in [Refs -> Files]
    /\ \A x \in Writers :
        /\ writer[x].pc \in {"idle", "mkdir", "syncparent", "read", "temp", "write",
                             "install", "installed", "sync", "check", "remove"}
        /\ writer[x].ref \in Refs /\ writer[x].level \in Levels
        /\ writer[x].temp \in {"none", "volatile", "whole"}
        /\ writer[x].pc = "idle" => writer[x].temp = "none"
    /\ ensured \subseteq Refs /\ exposed \subseteq Refs
    /\ faults \in 0..MaxFaults /\ kills \in 0..MaxKills /\ crashes \in 0..MaxCrashes

Init ==
    /\ dirs = {} /\ dirsOnDisk = {}
    /\ objects = [r \in Refs |-> "none"] /\ onDisk = [r \in Refs |-> "none"]
    /\ writer = [x \in Writers |-> Idle]
    /\ ensured = {} /\ exposed = {} /\ faults = 0 /\ kills = 0 /\ crashes = 0

At(x, pc) == writer[x].pc = pc
Go(x, pc) == writer' = [writer EXCEPT ![x].pc = pc]
Fault == faults < MaxFaults /\ faults' = faults + 1

(* Ensure returns: its deferred function first removes a temporary file.   *)
Return(x, ok) ==
    IF writer[x].temp = "none"
    THEN /\ writer' = [writer EXCEPT ![x] = Idle]
         /\ ensured' = IF ok THEN ensured \cup {writer[x].ref} ELSE ensured
    ELSE /\ writer' = [writer EXCEPT ![x].pc = "remove", ![x].ok = ok]
         /\ UNCHANGED ensured

(* A write or a sync fails, or the context is cancelled, before any step.  *)
StepFails(x) ==
    /\ writer[x].pc \notin {"idle", "remove"}
    /\ Fault /\ Return(x, FALSE)
    /\ UNCHANGED <<diskVars, exposed, kills, crashes>>

-----------------------------------------------------------------------------
Ensure(x) ==
    /\ At(x, "idle")
    /\ \E r \in Refs :
        writer' = [writer EXCEPT ![x] = [Idle EXCEPT !.pc = "mkdir", !.ref = r]]
    /\ UNCHANGED <<diskVars, historyVars, boundVars>>

Below(x) == [writer EXCEPT ![x].pc = IF writer[x].level = Depth THEN "read" ELSE "mkdir",
                           ![x].level = IF @ = Depth THEN @ ELSE @ + 1]

(* ensureArtifactDirAt: a directory that exists is entered at once, a new  *)
(* one after its parent is synced.                                         *)
MakeDir(x) ==
    /\ At(x, "mkdir")
    /\ dirs' = dirs \cup {writer[x].level}
    /\ writer' = IF writer[x].level \in dirs THEN Below(x)
                 ELSE [writer EXCEPT ![x].pc = "syncparent"]
    /\ exposed' = IF writer[x].level \in dirs \ dirsOnDisk
                  THEN exposed \cup {writer[x].ref} ELSE exposed
    /\ UNCHANGED <<dirsOnDisk, objects, onDisk, ensured, boundVars>>

SyncParent_Skipped(x) ==
    /\ At(x, "syncparent") /\ writer' = Below(x)
    /\ UNCHANGED <<diskVars, historyVars, boundVars>>

SyncParent(x) ==
    /\ At(x, "syncparent")
    /\ dirsOnDisk' = dirsOnDisk \cup {writer[x].level}
    /\ writer' = Below(x)
    /\ UNCHANGED <<dirs, objects, onDisk, historyVars, boundVars>>

(* readArtifactObject: the owner, the size and the digest of the file.     *)
Get(r) ==
    CASE objects[r] = "none" -> "not_found"
      [] objects[r] \in {"whole", "volatile"} -> "ok"
      [] objects[r] = "torn" -> "integrity"

ReadObject(x) ==
    /\ At(x, "read")
    /\ \/ Get(writer[x].ref) = "not_found" /\ Go(x, "temp") /\ UNCHANGED ensured
       \/ /\ Get(writer[x].ref) # "not_found"
          /\ IF Get(writer[x].ref) = "ok" THEN Go(x, "sync") /\ UNCHANGED ensured
             ELSE Return(x, FALSE)
    /\ UNCHANGED <<diskVars, exposed, boundVars>>

CreateTemp(x) ==
    /\ At(x, "temp")
    /\ writer' = [writer EXCEPT ![x].pc = "write", ![x].temp = "volatile"]
    /\ UNCHANGED <<diskVars, historyVars, boundVars>>

(* writeArtifactTemp writes the bytes and syncs them.                      *)
WriteTemp_Unsynced(x) ==
    /\ At(x, "write") /\ Go(x, "install")
    /\ UNCHANGED <<diskVars, historyVars, boundVars>>

WriteTemp(x) ==
    /\ At(x, "write")
    /\ writer' = [writer EXCEPT ![x].pc = "install", ![x].temp = "whole"]
    /\ UNCHANGED <<diskVars, historyVars, boundVars>>

(* installArtifactNoReplace: the rename, or the object of another writer,  *)
(* which is read and synced before it is relied on.                        *)
Install_Trusts(x) ==
    LET r == writer[x].ref IN
    /\ At(x, "install")
    /\ \/ /\ objects[r] = "none"
          /\ objects' = [objects EXCEPT ![r] = writer[x].temp]
          /\ writer' = [writer EXCEPT ![x].pc = "installed", ![x].temp = "none"]
          /\ UNCHANGED ensured
       \/ /\ Get(r) = "ok" /\ writer' = [writer EXCEPT ![x] = Idle]
          /\ ensured' = ensured \cup {r} /\ UNCHANGED objects
    /\ UNCHANGED <<dirs, dirsOnDisk, onDisk, exposed, boundVars>>

Install(x) ==
    LET r == writer[x].ref IN
    /\ At(x, "install")
    /\ \/ /\ objects[r] = "none"
          /\ objects' = [objects EXCEPT ![r] = writer[x].temp]
          /\ writer' = [writer EXCEPT ![x].pc = "installed", ![x].temp = "none"]
          /\ UNCHANGED ensured
       \/ /\ objects[r] # "none" /\ UNCHANGED objects
          /\ IF Get(r) = "ok" THEN Go(x, "sync") /\ UNCHANGED ensured
             ELSE Return(x, FALSE)
    /\ UNCHANGED <<dirs, dirsOnDisk, onDisk, exposed, boundVars>>

(* syncArtifactObjectDir; an object just installed is then read back.      *)
SyncObjectDir(x) ==
    /\ \/ At(x, "sync") /\ Return(x, TRUE)
       \/ At(x, "installed") /\ Go(x, "check") /\ UNCHANGED ensured
    /\ onDisk' = objects
    /\ UNCHANGED <<dirs, dirsOnDisk, objects, exposed, boundVars>>

CheckInstalled(x) ==
    /\ At(x, "check")
    /\ Return(x, Get(writer[x].ref) = "ok")
    /\ UNCHANGED <<diskVars, exposed, boundVars>>

(* removeArtifactTemp unlinks the file and syncs the directory; a failed   *)
(* sync is an error of the call.                                           *)
RemoveTemp_Forgets(x) ==
    /\ At(x, "remove")
    /\ writer' = [writer EXCEPT ![x].pc = "idle"]
    /\ UNCHANGED <<diskVars, historyVars, boundVars>>

RemoveTemp(x) ==
    /\ At(x, "remove")
    /\ writer' = [writer EXCEPT ![x] = Idle]
    /\ \/ /\ onDisk' = objects /\ UNCHANGED faults
          /\ ensured' = IF writer[x].ok THEN ensured \cup {writer[x].ref} ELSE ensured
       \/ Fault /\ UNCHANGED <<onDisk, ensured>>
    /\ UNCHANGED <<dirs, dirsOnDisk, objects, exposed, kills, crashes>>

-----------------------------------------------------------------------------
(* A process dies: its temporary files stay behind under names that nobody *)
(* uses again.                                                             *)
Kill ==
    /\ kills < MaxKills /\ kills' = kills + 1
    /\ writer' = [x \in Writers |-> Idle]
    /\ UNCHANGED <<diskVars, historyVars, faults, crashes>>

(* The machine stops.  Of what was not synced any part may have reached    *)
(* the disk; a file whose bytes were not synced may be torn; what lies     *)
(* below a missing directory is gone.                                      *)
Survivors(f) ==
    IF f = "volatile" THEN {"whole", "torn"} ELSE {f}

Crash ==
    /\ crashes < MaxCrashes /\ crashes' = crashes + 1
    /\ writer' = [x \in Writers |-> Idle]
    /\ \E late \in SUBSET (dirs \ dirsOnDisk), saved \in SUBSET Refs :
        LET kept == {l \in Levels : 1..l \subseteq dirsOnDisk \cup late} IN
        /\ dirs' = kept /\ dirsOnDisk' = kept
        /\ \E f \in [Refs -> Files] :
            /\ \A r \in Refs :
                f[r] \in IF kept # Levels THEN {"none"}
                         ELSE Survivors(IF r \in saved THEN objects[r] ELSE onDisk[r])
            /\ objects' = f /\ onDisk' = f
    /\ UNCHANGED <<historyVars, faults, kills>>

EnsureStep(x) ==
    \/ MakeDir(x)
    \/ SyncParent(x)
    \/ ReadObject(x)
    \/ CreateTemp(x)
    \/ WriteTemp(x)
    \/ Install(x)
    \/ SyncObjectDir(x)
    \/ CheckInstalled(x)
    \/ RemoveTemp(x)
    \/ StepFails(x)

Next ==
    \/ \E x \in Writers : Ensure(x)
    \/ \E x \in Writers : EnsureStep(x)
    \/ Kill
    \/ Crash

Spec == Init /\ [][Next]_vars

-----------------------------------------------------------------------------
(* What Ensure reported as stored can be read from then on, whatever dies  *)
(* afterwards: the catalog ledger refers to it for good.  An object is     *)
(* excepted when its call entered a directory that the call which made it  *)
(* had not synced.                                                         *)
EnsuredReadable == \A r \in ensured \ exposed : Get(r) = "ok"

(* The same without the exception: "ensureArtifacts durably installs and   *)
(* reads back every canonical object" (loader.go).                         *)
EnsuredSurvives == \A r \in ensured : Get(r) = "ok"

(* No object name ever holds a damaged file.  Ensure never overwrites, so  *)
(* one would make its problem unusable for good.                           *)
InstalledIsWhole == \A r \in Refs : objects[r] # "torn"
=============================================================================
