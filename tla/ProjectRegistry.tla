-------------------------- MODULE ProjectRegistry --------------------------
(***************************************************************************)
(* How a directory becomes a registered repository: register_repository,   *)
(* create_local_project, create_managed_checkout and                       *)
(* prepare_coordination_checkout.  A new project or clone is built in a    *)
(* private staging directory, moved to its destination by one rename, then *)
(* inspected, and only then written to the registry, whose root_path is    *)
(* unique.  Only the two clone requests hold `operation_lock`; the         *)
(* operator uses the file system at the same time.                         *)
(***************************************************************************)
EXTENDS Integers, FiniteSets

CONSTANTS
    Requests,     \* requests of API clients
    MaxUser,      \* bound: what the operator does to the file system
    MaxFaults     \* bound: git, file system and store failures, and crashes

Paths == {"source", "dest"}
Kinds == {"register", "local", "managed", "prepare"}
Locked == {"managed", "prepare"}
Cloned == {"managed", "prepare"}
None == "none"
\* The repository that is registered from the start, at "source".
First == "first"
Repositories == Requests \cup {First}

\* What is at a path.  "stub" is a project whose first commit is missing.
Content == {"absent", "empty", "files", "checkout", "dirty", "project", "clone", "stub"}
Repository == {"checkout", "dirty", "project", "clone"}

VARIABLES
    dir,       \* path -> what is there
    kept,      \* path -> non-empty content the operator put there, or None
    staging,   \* request -> content of its staging directory
    root,      \* repository -> root_path of its row, or None
    state,     \* repository -> state of its row
    at,        \* request -> where it is
    kind,      \* request -> which operation it is
    goal,      \* request -> the path it is about
    seen,      \* request -> what its inspection found
    crashed, user, faults

vars == <<dir, kept, staging, root, state, at, kind, goal, seen, crashed, user, faults>>
Registry == <<root, state>>
Disk == <<dir, kept, staging>>

Init ==
    /\ dir = [p \in Paths |-> IF p = "source" THEN "checkout" ELSE "absent"]
    /\ kept = [p \in Paths |-> IF p = "source" THEN "checkout" ELSE None]
    /\ staging = [q \in Requests |-> "absent"]
    /\ root = [r \in Repositories |-> IF r = First THEN "source" ELSE None]
    /\ state = [r \in Repositories |-> IF r = First THEN "READY" ELSE None]
    /\ at = [q \in Requests |-> "new"]
    /\ kind = [q \in Requests |-> None]
    /\ goal = [q \in Requests |-> None]
    /\ seen = [q \in Requests |-> None]
    /\ crashed = FALSE
    /\ user = 0
    /\ faults = 0

Fault == faults < MaxFaults /\ faults' = faults + 1

Goto(q, step) == at' = [at EXCEPT ![q] = step]
Return(q) == Goto(q, "done")

-----------------------------------------------------------------------------

\* The destination does not exist; a clone's must not be registered either.
Admissible(k, p) ==
    CASE k = "register" -> TRUE
      [] k = "local" -> dir[p] = "absent"
      [] OTHER -> dir[p] = "absent" /\ \A r \in Repositories : root[r] # p

OperationLockFree ==
    \A q \in Requests : kind[q] \in Locked => at[q] \in {"new", "done"}

\* A request arrives and passes the checks before its first write.
request(q, k, p) ==
    /\ at[q] = "new"
    /\ k \in Locked => OperationLockFree
    /\ kind' = [kind EXCEPT ![q] = k]
    /\ goal' = [goal EXCEPT ![q] = p]
    /\ Goto(q, IF ~Admissible(k, p) THEN "done"
               ELSE IF k = "register" THEN "inspect" ELSE "stage")
    /\ UNCHANGED <<seen, crashed, user, faults, Registry, Disk>>

\* create_project_staging_directory and git init, or the start of the clone.
create_staging(q) ==
    /\ at[q] = "stage"
    /\ staging' = [staging EXCEPT ![q] = "stub"]
    /\ Goto(q, "fill")
    /\ UNCHANGED <<dir, kept, kind, goal, seen, crashed, user, faults, Registry>>

\* Mutant: a failed request keeps its staging directory.
DiscardNothing(q) == UNCHANGED staging

\* remove_dir_all(staging) on every error before the rename.
Discard(q) == staging' = [staging EXCEPT ![q] = "absent"]

\* README and first commit, or the clone, its identity and its inspection.
fill_staging(q) ==
    /\ at[q] = "fill"
    /\ \/ /\ staging' = [staging EXCEPT ![q] =
                           IF kind[q] = "local" THEN "project" ELSE "clone"]
          /\ Goto(q, "rename")
          /\ UNCHANGED faults
       \/ Discard(q) /\ Return(q) /\ Fault
    /\ UNCHANGED <<dir, kept, kind, goal, seen, crashed, user, Registry>>

\* Mutant: whatever is at the destination is replaced.
RenamableOver(q) == TRUE

\* rename(2) of a directory replaces nothing but an empty directory, and the
\* clone looks at the destination once more before it.
Renamable(q) ==
    dir[goal[q]] = "absent" \/ (dir[goal[q]] = "empty" /\ kind[q] = "local")

rename_staging(q) ==
    /\ at[q] = "rename"
    /\ IF Renamable(q)
       THEN /\ dir' = [dir EXCEPT ![goal[q]] = staging[q]]
            /\ staging' = [staging EXCEPT ![q] = "absent"]
            /\ Goto(q, "inspect")
       ELSE Discard(q) /\ Return(q) /\ UNCHANGED dir
    /\ UNCHANGED <<kept, kind, goal, seen, crashed, user, faults, Registry>>

\* inspect: git must answer at that root; a dirty checkout is a blocker.
inspect(q) ==
    /\ at[q] = "inspect"
    /\ \/ /\ dir[goal[q]] \in Repository
          /\ seen' = [seen EXCEPT ![q] = IF dir[goal[q]] = "dirty" THEN "BLOCKED" ELSE "READY"]
          /\ Goto(q, "register")
          /\ UNCHANGED faults
       \/ dir[goal[q]] \notin Repository /\ Return(q) /\ UNCHANGED <<seen, faults>>
       \/ Return(q) /\ Fault /\ UNCHANGED seen
    /\ UNCHANGED <<kind, goal, crashed, user, Registry, Disk>>

\* Mutant: the registry accepts a second row for a root.
UnclaimedUnchecked(p) == TRUE

\* UNIQUE(root_path)
Unclaimed(p) == \A r \in Repositories : root[r] # p

\* create_repository, or replace_repository_checkout of the first repository
\* while its root is still the source.
register(q) ==
    /\ at[q] = "register"
    /\ LET id == IF kind[q] = "prepare" THEN First ELSE q
           allowed == /\ Unclaimed(goal[q])
                      /\ kind[q] = "prepare" => root[First] = "source"
       IN \/ /\ allowed
             /\ root' = [root EXCEPT ![id] = goal[q]]
             /\ state' = [state EXCEPT ![id] = IF kind[q] = "prepare" THEN @ ELSE seen[q]]
             /\ Goto(q, "health")
             /\ UNCHANGED faults
          \/ ~allowed /\ Return(q) /\ UNCHANGED <<root, state, faults>>
          \/ Return(q) /\ Fault /\ UNCHANGED <<root, state>>
    /\ UNCHANGED <<kind, goal, seen, crashed, user, Disk>>

\* record_inspection: the state of the row follows the inspection.
record_inspection(q) ==
    /\ at[q] = "health"
    /\ LET id == IF kind[q] = "prepare" THEN First ELSE q
       IN \/ state' = [state EXCEPT ![id] = seen[q]] /\ UNCHANGED faults
          \/ Fault /\ UNCHANGED state
    /\ Return(q)
    /\ UNCHANGED <<root, kind, goal, seen, crashed, user, Disk>>

-----------------------------------------------------------------------------

\* External: the operator creates a directory, clones into it, edits a
\* checkout, or removes what is there.
user_writes ==
    /\ user < MaxUser
    /\ user' = user + 1
    /\ \E p \in Paths :
         \/ /\ dir[p] = "absent"
            /\ \E c \in {"empty", "files", "checkout"} :
                 /\ dir' = [dir EXCEPT ![p] = c]
                 /\ kept' = [kept EXCEPT ![p] = IF c = "empty" THEN None ELSE c]
         \/ /\ dir[p] \in {"empty", "files", "checkout", "dirty"}
            /\ dir' = [dir EXCEPT ![p] = "absent"]
            /\ kept' = [kept EXCEPT ![p] = None]
         \/ /\ dir[p] \in Repository \ {"dirty"}
            /\ dir' = [dir EXCEPT ![p] = "dirty"]
            /\ kept' = [kept EXCEPT ![p] = "dirty"]
    /\ UNCHANGED <<staging, at, kind, goal, seen, crashed, faults, Registry>>

\* The daemon dies: requests under way are lost.
Crash ==
    /\ Fault
    /\ crashed' = TRUE
    /\ at' = [q \in Requests |-> IF at[q] = "new" THEN "new" ELSE "done"]
    /\ UNCHANGED <<kind, goal, seen, user, Registry, Disk>>

Next ==
    \/ \E q \in Requests, k \in Kinds, p \in Paths : request(q, k, p)
    \/ \E q \in Requests : create_staging(q) \/ fill_staging(q) \/ rename_staging(q)
    \/ \E q \in Requests : inspect(q) \/ register(q) \/ record_inspection(q)
    \/ user_writes \/ Crash

Spec == Init /\ [][Next]_vars

-----------------------------------------------------------------------------

\* No request replaces or removes what the operator put at a path, whichever
\* of them came first.
OperatorContentKept == \A p \in Paths : kept[p] # None => dir[p] = kept[p]

\* An unfinished project or clone is never seen at its destination.
NoStubExposed == \A p \in Paths : dir[p] # "stub"

\* Two registered repositories never share a root, also when a registration
\* overtakes a clone that has checked its destination.
RootsDistinct ==
    \A r, s \in Repositories : r # s /\ root[r] # None => root[r] # root[s]

\* A request that returns, with or without an error, leaves no staging
\* directory, unless the daemon died under it.
NoStagingLeft ==
    crashed \/ \A q \in Requests : at[q] = "done" => staging[q] = "absent"

RegistrySound ==
    /\ OperatorContentKept
    /\ NoStubExposed
    /\ RootsDistinct
    /\ NoStagingLeft

=============================================================================
