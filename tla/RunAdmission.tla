---------------------------- MODULE RunAdmission ----------------------------
(***************************************************************************)
(* The administration of runs, repositories and the daemon's provider:     *)
(* create_run with its inspection worktree, the worktree of a launched     *)
(* task, archive_run and delete_run, the replacement of a repository's     *)
(* checkout, and the provider switch with the immutable model route every  *)
(* run and session is bound to.                                            *)
(*                                                                         *)
(* create_run, tick and prepare_coordination_checkout hold                 *)
(* `operation_lock` until they return, begin_provider_switch only for its  *)
(* test; archive_run and delete_run do without it, and so does the         *)
(* evaluation command, which inserts a run of its own into the same        *)
(* database.  Git administration of a repository is exclusive: calls of one  *)
(* daemon wait for each other, and fail at once while another process (the *)
(* evaluation command) holds the repository's lock file.  A successful git *)
(* call is therefore one step.                                             *)
(***************************************************************************)
EXTENDS Integers, FiniteSets

CONSTANTS
    Runs,         \* runs that can be created
    MaxFaults,    \* bound: crashes and store or git failures
    MaxBusy       \* bound: times the other process takes the lock file or
                  \* inserts a run

Kinds == {"inspection", "task"}
Worktrees == Runs \X Kinds
Providers == {"openai", "local"}
Roots == {"source", "coordination"}
None == "none"

Ops == {"create", "tick", "prepare", "switch", "archive", "delete"}
Locked == {"create", "tick", "prepare", "switch"}

VARIABLES
    provider,    \* provider of the running daemon
    config,      \* provider in the configuration file
    pending,     \* provider_switch_pending
    root,        \* root_path of the repository row
    clean,       \* the primary checkout has no changes
    other,       \* another process holds the repository's lock file
    run,         \* run -> its state
    route,       \* run -> provider of its immutable model route
    dir,         \* worktree -> root that has it registered, while on disk
    gone,        \* worktree -> root that still lists it though it is removed
    row,         \* worktree -> state of its row
    bound,       \* run -> provider its session is bound to
    thread,      \* run -> provider of the App Server its thread runs on
    at,          \* operation -> where it is
    arg,         \* operation -> the run it works on
    held,        \* what an operation read and still uses
    raced,       \* runs stopped while being created or launched
    faults, busy

vars == <<provider, config, pending, root, clean, other, run, route, dir, gone,
          row, bound, thread, at, arg, held, raced, faults, busy>>

Daemon == <<provider, config, pending>>
Repository == <<root, clean, other>>
Books == <<run, route, row>>
Disk == <<dir, gone>>
Sessions == <<bound, thread>>
Bounds == <<faults, busy>>
Flow == <<at, arg, held, raced>>

\* list_runs(.., false): every run that is not terminal.
Terminal == {None, "CANCELED", "ARCHIVED", "DELETED"}
Active == {r \in Runs : run[r] \notin Terminal}

Init ==
    /\ provider = "openai" /\ config = "openai" /\ pending = FALSE
    /\ root = "source" /\ clean = TRUE /\ other = FALSE
    /\ run = [r \in Runs |-> None]
    /\ route = [r \in Runs |-> None]
    /\ dir = [w \in Worktrees |-> None]
    /\ gone = [w \in Worktrees |-> None]
    /\ row = [w \in Worktrees |-> None]
    /\ bound = [r \in Runs |-> None]
    /\ thread = [r \in Runs |-> None]
    /\ at = [op \in Ops |-> "idle"]
    /\ arg = [op \in Ops |-> None]
    /\ held = [op \in Ops |-> {}]
    /\ raced = {}
    /\ faults = 0 /\ busy = 0

-----------------------------------------------------------------------------

\* The lock is free: begin_provider_switch has given it back when it returns.
OperationLockFree == \A op \in Locked \ {"switch"} : at[op] = "idle"

\* Mutant: begin_provider_switch does not wait for create_run.
EnterUnlocked(op, r, step) ==
    /\ at[op] = "idle"
    /\ op \in Locked \ {"switch"} => OperationLockFree
    /\ at' = [at EXCEPT ![op] = step]
    /\ arg' = [arg EXCEPT ![op] = r]

\* An operation starts; those in Locked wait for the operation lock.
Enter(op, r, step) ==
    /\ at[op] = "idle"
    /\ op \in Locked => OperationLockFree
    /\ at' = [at EXCEPT ![op] = step]
    /\ arg' = [arg EXCEPT ![op] = r]

Goto(op, step) == at' = [at EXCEPT ![op] = step] /\ UNCHANGED <<arg, held>>

\* The operation returns.
Leave(op) ==
    /\ at' = [at EXCEPT ![op] = "idle"]
    /\ arg' = [arg EXCEPT ![op] = None]
    /\ held' = [held EXCEPT ![op] = {}]

\* A git call on the repository succeeds only while no other process holds
\* the lock file.
GitFree == ~other

Fault == faults < MaxFaults /\ faults' = faults + 1 /\ UNCHANGED busy

\* The call fails: the lock file is taken, or git or the store errs.
GitFails == \/ other /\ UNCHANGED Bounds
            \/ Fault

-----------------------------------------------------------------------------

\* create_run: the guard, the pending switch, the request's validation and a
\* fresh inspection, whose blockers refuse the run.
create_run_begin ==
    /\ \E r \in Runs : run[r] = None /\ Enter("create", r, "pin")
    /\ ~pending /\ clean
    /\ UNCHANGED <<held, raced, Daemon, Repository, Books, Disk, Sessions, Bounds>>

\* fetch_and_pin, then create_worktree for the inspection.
create_run_worktree ==
    /\ at["create"] = "pin"
    /\ LET w == <<arg["create"], "inspection">> IN
       \/ /\ GitFree
          /\ dir' = [dir EXCEPT ![w] = root]
          /\ Goto("create", "insert")
          /\ UNCHANGED Bounds
       \/ Leave("create") /\ GitFails /\ UNCHANGED dir
    /\ UNCHANGED <<raced, gone, Daemon, Repository, Books, Sessions>>

\* remove_worktree(force): what git does when the repository knows the
\* worktree.
Removed(w) == dir' = [dir EXCEPT ![w] = None]

\* create_run_with_immutable_model_route: the run and its route in one
\* transaction; on an error (or a refused authority digest) the worktree is
\* removed again, and a failure to do so only logged.
create_run_row ==
    /\ at["create"] = "insert"
    /\ LET r == arg["create"] IN
       \/ /\ run' = [run EXCEPT ![r] = "CREATED"]
          /\ route' = [route EXCEPT ![r] = provider]
          /\ Goto("create", "register")
          /\ UNCHANGED <<dir, Bounds>>
       \/ /\ Fault
          /\ IF GitFree THEN Removed(<<r, "inspection">>) ELSE UNCHANGED dir
          /\ Leave("create")
          /\ UNCHANGED <<run, route>>
    /\ UNCHANGED <<raced, gone, row, Daemon, Repository, Sessions>>

\* The run's metadata, its transition to PREPARING, the worktree's row and
\* the transition to the first working state; an error stops there.
create_run_register ==
    /\ at["create"] = "register"
    /\ LET r == arg["create"] IN
       \/ /\ run[r] = "CREATED"
          /\ run' = [run EXCEPT ![r] = "PREPARING"]
          /\ row' = [row EXCEPT ![<<r, "inspection">>] = "READY"]
          /\ Goto("create", "ready")
          /\ UNCHANGED Bounds
       \/ /\ run[r] # "CREATED"
          /\ Leave("create") /\ UNCHANGED <<run, row, Bounds>>
       \/ Leave("create") /\ Fault /\ UNCHANGED <<run, row>>
    /\ UNCHANGED <<raced, route, Daemon, Repository, Disk, Sessions>>

create_run_ready ==
    /\ at["create"] = "ready"
    /\ LET r == arg["create"] IN
       run' = IF run[r] = "PREPARING" THEN [run EXCEPT ![r] = "READY"] ELSE run
    /\ Leave("create")
    /\ UNCHANGED <<raced, route, row, Daemon, Repository, Disk, Sessions, Bounds>>

-----------------------------------------------------------------------------

\* tick and start_task: the run is read once, under the operation lock.
start_task_begin ==
    /\ \E r \in Runs : /\ run[r] = "READY" /\ row[<<r, "task">>] = None
                       /\ dir[<<r, "task">>] = None
                       /\ Enter("tick", r, "worktree")
    /\ UNCHANGED <<held, raced, Daemon, Repository, Books, Disk, Sessions, Bounds>>

start_task_worktree ==
    /\ at["tick"] = "worktree"
    /\ LET w == <<arg["tick"], "task">> IN
       \/ /\ GitFree
          /\ dir' = [dir EXCEPT ![w] = root]
          /\ Goto("tick", "row")
          /\ UNCHANGED Bounds
       \/ Leave("tick") /\ GitFails /\ UNCHANGED dir
    /\ UNCHANGED <<raced, gone, Daemon, Repository, Books, Sessions>>

\* The row refers to the run: it is refused once the run has been purged,
\* and then the directory is removed again.
start_task_row ==
    /\ at["tick"] = "row"
    /\ LET w == <<arg["tick"], "task">> IN
       IF run[arg["tick"]] # "DELETED"
       THEN /\ row' = [row EXCEPT ![w] = "ACTIVE"]
            /\ Goto("tick", "bind")
            /\ UNCHANGED dir
       ELSE /\ IF GitFree THEN Removed(w) ELSE UNCHANGED dir
            /\ Leave("tick")
            /\ UNCHANGED row
    /\ UNCHANGED <<raced, gone, run, route, Daemon, Repository, Sessions, Bounds>>

\* immutable_run_model_route: the receipt must name this daemon's provider.
RouteHeld(r) == route[r] = provider

\* Mutant: the receipt's provider is not compared.
continuation_unbound(r) == bound[r] # None

\* require_normal_agent_continuation_binding
continuation_bound(r) == bound[r] # None /\ bound[r] = route[r] /\ RouteHeld(r)

\* bind_agent_model_route before thread/start; the thread then runs on this
\* daemon's App Server.
start_agent ==
    /\ at["tick"] = "bind"
    /\ LET r == arg["tick"] IN
       IF run[r] # "DELETED" /\ RouteHeld(r)
       THEN /\ bound' = [bound EXCEPT ![r] = route[r]]
            /\ thread' = [thread EXCEPT ![r] = provider]
       ELSE UNCHANGED Sessions
    /\ Leave("tick")
    /\ UNCHANGED <<raced, Daemon, Repository, Books, Disk, Bounds>>

\* A persisted thread is continued after a restart.
resume_agent ==
    /\ \E r \in Active : /\ thread[r] = None
                         /\ continuation_bound(r)
                         /\ thread' = [thread EXCEPT ![r] = provider]
    /\ UNCHANGED <<bound, Flow, Daemon, Repository, Books, Disk, Bounds>>

-----------------------------------------------------------------------------

\* The run, if it is being created or launched right now.
Launching(r) == {q \in {r} : r \in {arg["tick"], arg["create"]}}

\* The operations that may stop a run, and where `op` and another stop of the
\* same run go when `op` has moved the run's version on.
Stoppers == {"archive", "delete"}
Overtaking(op, r) ==
    [q \in Ops |-> IF q = op THEN "cancel"
                   ELSE IF q \in Stoppers /\ arg[q] = r /\ at[q] = "cancel" THEN "stale"
                   ELSE at[q]]

\* stop_run(interrupt), first part: STOPPING and paused, before the approvals
\* are canceled and the turns interrupted.
stop_run(op, r) ==
    /\ at[op] = "idle" /\ run[r] \notin Terminal
    /\ run' = [run EXCEPT ![r] = "STOPPING"]
    /\ at' = Overtaking(op, r)
    /\ arg' = [arg EXCEPT ![op] = r]
    /\ raced' = raced \cup Launching(r)
    /\ UNCHANGED <<thread, held>>

\* The worktrees that release_run_worktrees lists.
Listed(r) == {w \in {r} \X Kinds : row[w] \notin {None, "REMOVED"}}

\* Where an operation goes on with a run that is terminal.
Terminated(op, r) ==
    /\ at' = [at EXCEPT ![op] = IF op = "delete" THEN "release" ELSE "move"]
    /\ arg' = [arg EXCEPT ![op] = r]
    /\ held' = [held EXCEPT ![op] = IF op = "delete" THEN Listed(r) ELSE {}]

\* stop_run, second part: its threads are interrupted and the run is CANCELED
\* at the version the pause left; the call fails when that has moved on.
stop_run_cancel(op) ==
    /\ LET r == arg[op] IN
       \/ /\ at[op] = "cancel"
          /\ run' = [run EXCEPT ![r] = "CANCELED"]
          /\ thread' = [thread EXCEPT ![r] = None]
          /\ raced' = raced \cup Launching(r)
          /\ Terminated(op, r)
       \/ at[op] = "stale" /\ Leave(op) /\ UNCHANGED <<run, thread, raced>>
    /\ UNCHANGED <<bound, Daemon, Repository, route, row, Disk, Bounds>>

\* archive_run and delete_run: a live run is stopped first.
archive_run ==
    /\ \E r \in Runs :
         \/ stop_run("archive", r)
         \/ /\ at["archive"] = "idle" /\ run[r] = "CANCELED"
            /\ Terminated("archive", r)
            /\ UNCHANGED <<run, thread, raced>>
    /\ UNCHANGED <<bound, Daemon, Repository, route, row, Disk, Bounds>>

\* The transition to ARCHIVED, at the version the run was left with.
archive_run_move ==
    /\ at["archive"] = "move"
    /\ LET r == arg["archive"] IN
       run' = IF run[r] = "CANCELED" THEN [run EXCEPT ![r] = "ARCHIVED"] ELSE run
    /\ Leave("archive")
    /\ UNCHANGED <<raced, Daemon, Repository, route, row, Disk, Sessions, Bounds>>

delete_run_begin ==
    /\ \E r \in Runs :
         \/ stop_run("delete", r)
         \/ /\ at["delete"] = "idle" /\ run[r] \in {"CANCELED", "ARCHIVED"}
            /\ Terminated("delete", r)
            /\ raced' = raced \cup Launching(r)
            /\ UNCHANGED <<run, thread>>
    /\ UNCHANGED <<bound, Daemon, Repository, route, row, Disk, Bounds>>

\* Mutant: a worktree git refuses to remove is left where it is.
fallback_removal_skipped(w) == UNCHANGED Disk

\* The fallback when git refuses: the managed directory is deleted and the
\* repository pruned, which forgets only worktrees it knew itself.
fallback_removal(w) ==
    /\ Removed(w)
    /\ gone' = [gone EXCEPT ![w] = IF dir[w] = root /\ GitFree THEN None ELSE dir[w]]

\* release_run_worktrees: remove one listed worktree by force.
release_run_worktree ==
    /\ at["delete"] = "release"
    /\ \E w \in held["delete"] :
         /\ \/ /\ GitFree /\ dir[w] \in {root, None}
               /\ Removed(w)
               /\ UNCHANGED <<gone, Bounds>>
            \/ /\ ~GitFree \/ dir[w] \notin {root, None}
               /\ fallback_removal(w)
               /\ UNCHANGED Bounds
            \/ /\ GitFree /\ dir[w] = root
               /\ Fault
               /\ fallback_removal(w)
         /\ row' = [row EXCEPT ![w] = "REMOVED"]
         /\ held' = [held EXCEPT !["delete"] = @ \ {w}]
    /\ UNCHANGED <<at, arg, raced, run, route, Daemon, Repository, Sessions>>

\* The purge: the run's row and everything that refers to it.
delete_run_rows ==
    /\ at["delete"] = "release"
    /\ held["delete"] = {}
    /\ LET r == arg["delete"] IN
       /\ run' = [run EXCEPT ![r] = "DELETED"]
       /\ row' = [w \in Worktrees |-> IF w[1] = r THEN None ELSE row[w]]
       /\ route' = [route EXCEPT ![r] = None]
       /\ bound' = [bound EXCEPT ![r] = None]
       /\ raced' = raced \cup Launching(r)
    /\ Leave("delete")
    /\ UNCHANGED <<thread, Daemon, Repository, Disk, Bounds>>

-----------------------------------------------------------------------------

\* Mutant: the checkout is replaced although runs are active.
MayReplaceCheckoutAlways == TRUE

\* The test of prepare_coordination_checkout.
MayReplaceCheckout == Active = {}

\* prepare_coordination_checkout: clone into a staging directory, inspect it
\* and move it to its place ...
prepare_checkout_begin ==
    /\ root = "source"
    /\ MayReplaceCheckout
    /\ Enter("prepare", None, "clone")
    /\ UNCHANGED <<held, raced, Daemon, Repository, Books, Disk, Sessions, Bounds>>

\* ... then replace_repository_checkout, guarded by the old root.
prepare_checkout ==
    /\ at["prepare"] = "clone"
    /\ \/ root' = "coordination" /\ UNCHANGED Bounds
       \/ UNCHANGED root /\ Fault
    /\ Leave("prepare")
    /\ UNCHANGED <<raced, clean, other, Daemon, Books, Disk, Sessions>>

\* begin_provider_switch: set the gate, and take it back unless every run is
\* terminal.
begin_provider_switch ==
    /\ ~pending
    /\ Active = {}
    /\ Enter("switch", None, "write")
    /\ pending' = TRUE
    /\ UNCHANGED <<held, raced, provider, config, Repository, Books, Disk,
                   Sessions, Bounds>>

\* write_atomically: a temporary file, its rename over the configuration, an
\* fsync of the directory.  An error says nothing about the rename.
write_atomically(p) ==
    {[file |-> p, ok |-> TRUE], [file |-> config, ok |-> FALSE], [file |-> p, ok |-> FALSE]}

\* The handler writes the selected provider and asks for a restart, outside
\* the operation lock; a failed write takes the gate back.
persist_provider ==
    /\ at["switch"] = "write"
    /\ \E p \in Providers \ {config} : \E w \in write_atomically(p) :
         /\ config' = w.file
         /\ pending' = w.ok
         /\ IF w.ok THEN UNCHANGED Bounds ELSE Fault
    /\ Leave("switch")
    /\ UNCHANGED <<raced, provider, Repository, Books, Disk, Sessions>>

\* The daemon stops, by request or by a crash, and starts with the provider
\* of the configuration file.  Its App Server and its threads end with it.
Restarted ==
    /\ provider' = config
    /\ pending' = FALSE
    /\ thread' = [r \in Runs |-> None]
    /\ at' = [op \in Ops |-> "idle"]
    /\ arg' = [op \in Ops |-> None]
    /\ held' = [op \in Ops |-> {}]
    /\ UNCHANGED <<config, Repository, Books, Disk, bound, raced>>

restart ==
    /\ pending
    /\ \A op \in Ops : at[op] = "idle"
    /\ Restarted
    /\ UNCHANGED Bounds

Crash == Restarted /\ Fault

\* External: the operator edits the primary checkout or cleans it.
edit_checkout ==
    /\ clean' = ~clean
    /\ UNCHANGED <<root, other, Daemon, Books, Disk, Sessions, Flow, Bounds>>

\* External: another process takes or releases the repository's lock file.
other_process ==
    /\ other' = ~other
    /\ ~other => busy < MaxBusy
    /\ busy' = IF other THEN busy ELSE busy + 1
    /\ UNCHANGED <<root, clean, faults, Daemon, Books, Disk, Sessions, Flow>>

\* ensure_controller_run of the evaluation command: a CREATED run without a
\* model route, written by the other process whatever this daemon is doing.
ensure_controller_run ==
    /\ busy < MaxBusy /\ busy' = busy + 1
    /\ \E r \in Runs : /\ run[r] = None /\ arg["create"] # r
                       /\ run' = [run EXCEPT ![r] = "CREATED"]
    /\ UNCHANGED <<route, row, faults, Daemon, Repository, Disk, Sessions, Flow>>

Next ==
    \/ create_run_begin \/ create_run_worktree \/ create_run_row
    \/ create_run_register \/ create_run_ready
    \/ start_task_begin \/ start_task_worktree \/ start_task_row \/ start_agent
    \/ resume_agent
    \/ archive_run \/ archive_run_move \/ delete_run_begin
    \/ \E op \in Stoppers : stop_run_cancel(op)
    \/ release_run_worktree \/ delete_run_rows
    \/ prepare_checkout_begin \/ prepare_checkout
    \/ begin_provider_switch \/ persist_provider \/ restart \/ Crash
    \/ edit_checkout \/ other_process \/ ensure_controller_run

Spec == Init /\ [][Next]_vars

-----------------------------------------------------------------------------

\* While a provider switch is pending no run with a model route is live and
\* none is being created, although the lock is free again: the test of
\* begin_provider_switch and the admission of create_run exclude each other.
\* A run of the evaluation command has no route and may appear meanwhile.
SwitchIsIdle ==
    pending => at["create"] = "idle" /\ \A r \in Active : route[r] = None

\* A session's thread only ever runs on the provider its run was admitted
\* with, across provider switches, failed switches and restarts.
ThreadsOnRunProvider ==
    \A r \in Runs : thread[r] # None /\ run[r] # "DELETED" => thread[r] = route[r]

\* A live run's worktrees are known to the repository's current checkout, so
\* that git can still compact and remove them.
LiveRunsOnCheckout ==
    \A r \in Active, k \in Kinds :
        row[<<r, k>>] \notin {None, "REMOVED"} /\ dir[<<r, k>>] # None =>
            dir[<<r, k>>] = root

\* Deleting a run leaves none of its directories, whatever git answers, unless
\* the run was stopped in the middle of its creation or of a launch, or a
\* crash or an error of the store cut an operation on it short.
PurgeLeavesNoDirectory ==
    \A r \in Runs \ raced : run[r] = "DELETED" =>
        \A k \in Kinds : dir[<<r, k>>] = None \/ faults > 0

AdmissionSound ==
    /\ SwitchIsIdle
    /\ ThreadsOnRunProvider
    /\ LiveRunsOnCheckout
    /\ PurgeLeavesNoDirectory

\* "so a purge cannot orphan a directory"
PurgeNeverOrphans ==
    faults = 0 /\ at["tick"] = "idle" =>
        \A r \in Runs : run[r] = "DELETED" => \A k \in Kinds : dir[<<r, k>>] = None

\* "no run can receive an old runtime after a new provider has been selected"
NoOldRuntimeAfterSelection ==
    \A r \in Active : config # provider => route[r] # provider

\* "a repository checkout can only be replaced before its first run"
ReplacedBeforeFirstRun ==
    root = "coordination" =>
        \A w \in Worktrees : dir[w] # "source"

=============================================================================
