--------------------------- MODULE TaskExecution ---------------------------
(***************************************************************************)
(* The execution phase of one run: the scheduler tick, the launch of a     *)
(* task, path leases, the review-ready gate, independent verification and  *)
(* the preparation of the integration candidate                            *)
(* (crates/harness-orchestrator/src/lib.rs: tick, start_task,              *)
(* handle_turn_completed, finalize_worker, launch_review_ready_verifier,   *)
(* apply_verifier_verdict, prepare_integration, stop_run,                  *)
(* reconcile_orphaned_sessions; crates/harness-store/src/queries.rs and    *)
(* the TaskState machine of crates/harness-domain/src/lib.rs).             *)
(*                                                                         *)
(* Three tasks of the daemon act on the same rows: the maintenance loop    *)
(* (tick, under operation_lock), the event pump (turn and verdict events,  *)
(* one at a time; a verdict may itself call tick) and the operators' API   *)
(* calls, each a task of its own: as many at once as there are Operators.  *)
(* Only tick takes the lock.  A statement whose result another             *)
(* task can change or observe is a step of its own; the rest of a handler  *)
(* belongs to the step before it.  start_agent is reduced to its outcome:  *)
(* TurnStart shows that an error means that no turn runs.                  *)
(*                                                                         *)
(* Tasks here have no authorized fresh attempt, so a task has at most one  *)
(* attempt, and are neither governed nor investigations.                   *)
(***************************************************************************)
EXTENDS Naturals, Sequences, FiniteSets

CONSTANTS
    Tasks,              \* the tasks of the approved plan
    Deps,               \* task_dependencies: the tasks each task depends on
    Contend,            \* pairs {t, u} whose lease prefixes overlap
    GithubTasks,        \* tasks that need the GitHub capability
    ReviewReady,        \* validation_policy.review_ready of the run's profile
    Operators,          \* the API calls that may be under way at once
    MaxMutable,         \* orchestration.max_mutable_tasks
    MaxVerifiers,       \* orchestration.max_independent_verifiers
    MaxTotal,           \* orchestration.max_total_agent_threads
    Nobody,             \* operation_lock is free
    MaxCrashes,         \* bound: daemon restarts
    MaxExits,           \* bound: App Server exits
    MaxCommands,        \* bound: operator commands
    Commands,           \* the operator commands considered
    GateOutlastsTtl,    \* a gate may run longer than lease_ttl_seconds
    LateVerifierFailure \* a verifier turn may fail after its verdict

ASSUME TaskExecutionAssumption ==
    /\ IsFiniteSet(Tasks)
    /\ Deps \in [Tasks -> SUBSET Tasks]
    /\ Contend \subseteq SUBSET Tasks /\ GithubTasks \subseteq Tasks
    /\ {MaxMutable, MaxVerifiers, MaxTotal} \subseteq Nat \ {0}
    /\ {MaxCrashes, MaxExits, MaxCommands} \subseteq Nat
    /\ Commands \subseteq {"review", "interrupt", "pause", "stop"}
    /\ {ReviewReady, GateOutlastsTtl, LateVerifierFailure} \subseteq BOOLEAN
    /\ IsFiniteSet(Operators) /\ {"maint", "pump"} \cap Operators = {}
    /\ Nobody \notin {"maint", "pump"} \cup Operators

VARIABLES
    \* ---- durable: the database
    run,            \* runs.state
    paused,         \* runs.scheduler_paused
    version,        \* runs.version
    integration,    \* the integration worktree
    task,           \* tasks.state
    attempt,        \* task_attempts.state of the current attempt
    lease,          \* the path leases of the current attempt
    gate,           \* review-ready-validation:<attempt>
    accepted,       \* verifier-verdict:<task> accepts the recorded head
    worker,         \* the session of the attempt's worker
    ver,            \* the verifier sessions of the task, oldest first
    \* ---- volatile: the tasks of the daemon
    lock,           \* Orchestrator::operation_lock
    pc,             \* where each task of the daemon is
    loc,            \* its local variables
    \* ---- bounds
    crashes, exits, commands

runVars   == <<run, paused, version, integration>>
taskVars  == <<task, attempt, lease, gate, accepted>>
agentVars == <<worker, ver>>
bounds    == <<crashes, exits, commands>>
vars      == <<runVars, taskVars, agentVars, lock, pc, loc, bounds>>

Procs == {"maint", "pump"} \cup Operators

-----------------------------------------------------------------------------
(* TaskState                                                                *)
Terminal  == {"CLOSED", "FAILED", "SUPERSEDED", "CANCELED"}
Suspended == {"WAITING_DEPENDENCY", "WAITING_RESOURCE", "WAITING_APPROVAL",
              "BLOCKED", "NEEDS_HELP", "STALLED", "INTERRUPTED", "FAILED",
              "CANCELED"}
Progress ==
    {<<"PROPOSED", "READY">>, <<"READY", "LEASED">>,
     <<"WAITING_DEPENDENCY", "LEASED">>, <<"WAITING_RESOURCE", "LEASED">>,
     <<"LEASED", "STARTING">>, <<"STARTING", "IMPLEMENTING">>,
     <<"IMPLEMENTING", "REVIEW_READY">>, <<"IMPLEMENTING", "CLOSED">>,
     <<"REVIEW_READY", "VERIFYING">>, <<"VERIFYING", "CHANGES_REQUESTED">>,
     <<"VERIFYING", "VERIFIED">>, <<"CHANGES_REQUESTED", "READY">>,
     <<"CHANGES_REQUESTED", "SUPERSEDED">>, <<"VERIFIED", "INTEGRATION_QUEUED">>,
     <<"INTEGRATION_QUEUED", "INTEGRATING">>, <<"INTEGRATING", "INTEGRATED">>,
     <<"CI_PROVEN", "LIVE_PROVEN">>, <<"CI_PROVEN", "CLOSED">>,
     <<"LIVE_PROVEN", "CLOSED">>}
    \cup {<<"INTEGRATED", n>> : n \in {"CHANGES_REQUESTED", "VERIFIED", "CI_PROVEN",
                                       "CLOSED"}}
    \cup {"BLOCKED", "NEEDS_HELP", "INTERRUPTED", "STALLED", "FAILED"}
         \X {"READY", "SUPERSEDED"}

TaskStates == Terminal \cup Suspended
              \cup {"PROPOSED", "READY", "LEASED", "STARTING", "IMPLEMENTING",
                    "REVIEW_READY", "VERIFYING", "CHANGES_REQUESTED", "VERIFIED",
                    "INTEGRATION_QUEUED", "INTEGRATING", "INTEGRATED", "CI_PROVEN",
                    "LIVE_PROVEN"}

can_transition_to(s, n) == \/ s = n
                           \/ n \in Suspended /\ s \notin Terminal
                           \/ <<s, n>> \in Progress

(* dependency states that mark_unblocked_tasks_ready accepts                *)
Delivered == {"VERIFIED", "INTEGRATION_QUEUED", "INTEGRATING", "INTEGRATED",
              "CI_PROVEN", "LIVE_PROVEN", "CLOSED"}

(* Mutant: the leases of working tasks are not renewed.                     *)
HeldButNotImplementing ==
    {"LEASED", "STARTING", "REVIEW_READY", "VERIFYING", "WAITING_APPROVAL"}

(* states whose leases heartbeat_run_path_leases renews                     *)
Held == {"LEASED", "STARTING", "IMPLEMENTING", "REVIEW_READY", "VERIFYING",
         "WAITING_APPROVAL"}

Unless(s, n) == IF can_transition_to(s, n) THEN n ELSE s    \* let _ = transition_task

mark_unblocked_tasks_ready(s) ==
    [t \in Tasks |-> IF /\ s[t] = "WAITING_DEPENDENCY"
                        /\ \A d \in Deps[t] : s[d] \in Delivered
                     THEN "READY" ELSE s[t]]

-----------------------------------------------------------------------------
(* Agent sessions                                                           *)
NoAgent == [state |-> "none", turn |-> "none"]
Session(s, u) == [state |-> s, turn |-> u]
Ended == {"COMPLETED", "TURN_COMPLETE", "FAILED", "INTERRUPTED", "CANCELED", "STALLED"}
AgentStates == Ended \cup {"none", "STARTING", "RUNNING"}

agent_state_consumes_capacity(a) == a.state \notin Ended \cup {"none"}

(* A turn is open; a verifier's is answered once its verdict was delivered. *)
(* After the loss of the App Server active_turn_id may remain ("stale"),    *)
(* but no event of that turn will come.                                     *)
TurnLive(a) == a.turn \in {"open", "answered"}
active_turn_id(a) == a.turn # "none"

verifier_active(t) == \E i \in DOMAIN ver[t] : agent_state_consumes_capacity(ver[t][i])

ActiveVerifiers ==
    UNION {{<<t, i>> : i \in {j \in DOMAIN ver[t] : agent_state_consumes_capacity(ver[t][j])}}
             : t \in Tasks}
ActiveWorkers == {t \in Tasks : agent_state_consumes_capacity(worker[t])}

SomeTurnActive == \E t \in Tasks : \/ active_turn_id(worker[t])
                                   \/ \E i \in DOMAIN ver[t] : active_turn_id(ver[t][i])

(* heartbeat_path_leases: an unreleased lease lives on, even an expired one *)
Renewed(l) == IF l = "expired" THEN "active" ELSE l
(* release_path_leases                                                      *)
Released(l) == IF l = "none" THEN l ELSE "released"

-----------------------------------------------------------------------------
Locals == [cur : Tasks \cup {Nobody}, todo : SUBSET Tasks, waiting : SUBSET Tasks,
           total : Nat, mutable : Nat, verifiers : Nat, vid : Nat, seen : Nat]
NoLocals == [cur |-> Nobody, todo |-> {}, waiting |-> {}, total |-> 0,
             mutable |-> 0, verifiers |-> 0, vid |-> 0, seen |-> 0]

Init ==
    /\ run = "EXECUTING" /\ paused = FALSE /\ version = 1 /\ integration = "none"
    /\ task = [t \in Tasks |-> IF Deps[t] = {} THEN "READY" ELSE "WAITING_DEPENDENCY"]
    /\ attempt = [t \in Tasks |-> "none"] /\ lease = [t \in Tasks |-> "none"]
    /\ gate = [t \in Tasks |-> "none"] /\ accepted = [t \in Tasks |-> FALSE]
    /\ worker = [t \in Tasks |-> NoAgent] /\ ver = [t \in Tasks |-> <<>>]
    /\ lock = Nobody
    /\ pc = [p \in Procs |-> "idle"] /\ loc = [p \in Procs |-> NoLocals]
    /\ crashes = 0 /\ exits = 0 /\ commands = 0

(* transition_run writes the row, and every write raises its version.       *)
SetRun(s) == run' = s /\ version' = version + 1
SameRun == UNCHANGED <<run, version>>

Goto(p, l) == pc' = [pc EXCEPT ![p] = l]
Stay(p, l) == Goto(p, l) /\ UNCHANGED <<loc, lock>>

(* The function returns to its event loop; tick drops its guard.            *)
Finish(p) == /\ Goto(p, "idle")
             /\ loc' = [loc EXCEPT ![p] = NoLocals]
             /\ lock' = IF lock = p THEN Nobody ELSE lock

-----------------------------------------------------------------------------
(* tick                                                                     *)
MaintenanceTick ==
    /\ pc["maint"] = "idle"
    /\ run = "EXECUTING" /\ ~paused
    /\ Stay("maint", "tk_lock")
    /\ UNCHANGED <<runVars, taskVars, agentVars, bounds>>

TickBegin(p) ==
    /\ pc[p] = "tk_lock" /\ lock = Nobody
    /\ IF run = "EXECUTING" /\ ~paused
       THEN lock' = p /\ Goto(p, "tk_count") /\ UNCHANGED loc
       ELSE Finish(p)
    /\ UNCHANGED <<runVars, taskVars, agentVars, bounds>>

(* mark_unblocked_tasks_ready, active_agent_counts, list_tasks; an error of *)
(* require_runtime_ready or of an account call ends the tick.               *)
TickCount(p) ==
    /\ pc[p] = "tk_count"
    /\ \/ Finish(p) /\ UNCHANGED task
       \/ /\ task' = mark_unblocked_tasks_ready(task)
          /\ loc' = [loc EXCEPT ![p] =
                [NoLocals EXCEPT
                    !.todo = {t \in Tasks : task'[t] = "REVIEW_READY"},
                    !.mutable = Cardinality(ActiveWorkers),
                    !.verifiers = Cardinality(ActiveVerifiers),
                    !.total = Cardinality(ActiveWorkers) + Cardinality(ActiveVerifiers)]]
          /\ Goto(p, "tk_review") /\ UNCHANGED lock
    /\ UNCHANGED <<runVars, attempt, lease, gate, accepted, agentVars, bounds>>


TickReviewNext(p) ==
    /\ pc[p] = "tk_review"
    /\ \/ \E t \in loc[p].todo :
            /\ loc[p].total < MaxTotal /\ loc[p].verifiers < MaxVerifiers
            /\ loc' = [loc EXCEPT ![p].todo = @ \ {t}, ![p].cur = t]
            /\ Goto(p, "rv_check")
       \/ /\ \/ loc[p].todo = {}
             \/ loc[p].total >= MaxTotal \/ loc[p].verifiers >= MaxVerifiers
          /\ loc' = [loc EXCEPT
                ![p].todo = {t \in Tasks : task[t] \in {"READY", "WAITING_RESOURCE"}},
                ![p].waiting = {t \in Tasks : task[t] = "WAITING_RESOURCE"},
                ![p].cur = Nobody]
          /\ Goto(p, "tk_start")
    /\ UNCHANGED <<runVars, taskVars, agentVars, lock, bounds>>

(* Mutant: the last slot for a worker is never used.                        *)
TickStartOffByOne(p) ==
    /\ pc[p] = "tk_start"
    /\ \/ /\ \/ loc[p].todo = {}
             \/ loc[p].mutable + 1 >= MaxMutable \/ loc[p].total >= MaxTotal
          /\ Finish(p)
       \/ /\ loc[p].mutable + 1 < MaxMutable /\ loc[p].total < MaxTotal
          /\ \E t \in loc[p].todo :
               /\ loc' = [loc EXCEPT ![p].todo = @ \ {t}, ![p].cur = t]
               /\ Goto(p, IF t \in GithubTasks THEN "tk_github" ELSE "st_deps")
          /\ UNCHANGED lock
    /\ UNCHANGED <<runVars, taskVars, agentVars, bounds>>

TickStartNext(p) ==
    /\ pc[p] = "tk_start"
    /\ \/ /\ \/ loc[p].todo = {}
             \/ loc[p].mutable >= MaxMutable \/ loc[p].total >= MaxTotal
          /\ Finish(p)
       \/ /\ loc[p].mutable < MaxMutable /\ loc[p].total < MaxTotal
          /\ \E t \in loc[p].todo :
               /\ loc' = [loc EXCEPT ![p].todo = @ \ {t}, ![p].cur = t]
               /\ Goto(p, IF t \in GithubTasks THEN "tk_github" ELSE "st_deps")
          /\ UNCHANGED lock
    /\ UNCHANGED <<runVars, taskVars, agentVars, bounds>>

(* A task that needs GitHub waits for the capability.  Its transitions are  *)
(* propagated with `?`: an illegal one ends the tick.                       *)
github_capability(p, ready) ==
    LET t == loc[p].cur
        next == IF ready THEN "READY" ELSE "WAITING_RESOURCE"
        moves == (t \in loc[p].waiting) = ready IN
    /\ pc[p] = "tk_github"
    /\ \/ /\ moves /\ ~can_transition_to(task[t], next)
          /\ Finish(p) /\ UNCHANGED task
       \/ /\ moves => can_transition_to(task[t], next)
          /\ task' = IF moves THEN [task EXCEPT ![t] = next] ELSE task
          /\ Stay(p, IF ready THEN "st_deps" ELSE "tk_start")
    /\ UNCHANGED <<runVars, attempt, lease, gate, accepted, agentVars, bounds>>

TickGithub(p) == \E ready \in BOOLEAN : github_capability(p, ready)

-----------------------------------------------------------------------------
(* start_task                                                               *)

(* dependency_task_commits: every dependency has its verified commit; the   *)
(* plan and packet checks may also refuse.                                  *)
StartCheck(p) ==
    LET t == loc[p].cur IN
    /\ pc[p] = "st_deps"
    /\ \/ (\A d \in Deps[t] : task[d] = "VERIFIED") /\ Stay(p, "st_create")
       \/ Stay(p, "st_err")
    /\ UNCHANGED <<runVars, taskVars, agentVars, bounds>>

(* Store::create_task_attempt sets LEASED whatever the state of the task.   *)
create_task_attempt(p) ==
    LET t == loc[p].cur IN
    /\ pc[p] = "st_create"
    /\ task' = [task EXCEPT ![t] = "LEASED"]
    /\ attempt' = [attempt EXCEPT ![t] = "LEASED"]
    /\ Stay(p, "st_lease")
    /\ UNCHANGED <<runVars, lease, gate, accepted, agentVars, bounds>>

(* create_worktree, or the cherry-pick of the dependencies' commits, fails. *)
StartWorktreeFails(p) ==
    LET t == loc[p].cur IN
    /\ pc[p] = "st_lease"
    /\ attempt' = [attempt EXCEPT ![t] = "FAILED"]
    /\ Stay(p, "st_err")
    /\ UNCHANGED <<runVars, task, lease, gate, accepted, agentVars, bounds>>

(* Mutant: only the very same prefix conflicts.                             *)
LeaseConflictExact(t) == lease[t] = "active"

LeaseConflict(t) == \E u \in Tasks \ {t} : {t, u} \in Contend /\ lease[u] = "active"

(* Store::acquire_path_leases, one transaction; REFUSED is the FAILED       *)
(* attempt whose terminal_class is policy_blocked by a held lease.          *)
acquire_path_leases(p) ==
    LET t == loc[p].cur IN
    /\ pc[p] = "st_lease"
    /\ \/ /\ LeaseConflict(t)
          /\ attempt' = [attempt EXCEPT ![t] = "REFUSED"]
          /\ Stay(p, "st_err") /\ UNCHANGED lease
       \/ /\ ~LeaseConflict(t)
          /\ lease' = [lease EXCEPT ![t] = "active"]
          /\ Stay(p, "st_session") /\ UNCHANGED attempt
    /\ UNCHANGED <<runVars, task, gate, accepted, agentVars, bounds>>

(* Context compilation and the prompt checks may fail; then the session and *)
(* the transitions to STARTING and IMPLEMENTING, without an await between.  *)
StartSession(p) ==
    LET t == loc[p].cur IN
    /\ pc[p] = "st_session"
    /\ \/ /\ worker' = [worker EXCEPT ![t] = Session("STARTING", "none")]
          /\ \/ /\ can_transition_to(task[t], "STARTING")
                /\ task' = [task EXCEPT ![t] = "IMPLEMENTING"]
                /\ Stay(p, "st_agent")
             \/ /\ ~can_transition_to(task[t], "STARTING")
                /\ Stay(p, "st_undo") /\ UNCHANGED task
       \/ Stay(p, "st_undo") /\ UNCHANGED <<worker, task>>
    /\ UNCHANGED <<runVars, attempt, lease, gate, accepted, ver, bounds>>

(* Mutant: tick does not count the worker it just started.                  *)
StartAgentUncounted(p) ==
    LET t == loc[p].cur IN
    /\ pc[p] = "st_agent"
    /\ \/ /\ worker' = [worker EXCEPT ![t] = Session("RUNNING", "open")]
          /\ Stay(p, "tk_start")
       \/ /\ worker' = [worker EXCEPT ![t] = Session("FAILED", "none")]
          /\ Stay(p, "st_undo")
    /\ UNCHANGED <<runVars, taskVars, ver, bounds>>

StartAgent(p) ==
    LET t == loc[p].cur IN
    /\ pc[p] = "st_agent"
    /\ \/ /\ worker' = [worker EXCEPT ![t] = Session("RUNNING", "open")]
          /\ loc' = [loc EXCEPT ![p].mutable = @ + 1, ![p].total = @ + 1]
          /\ Goto(p, "tk_start") /\ UNCHANGED lock
       \/ /\ worker' = [worker EXCEPT ![t] = Session("FAILED", "none")]
          /\ Stay(p, "st_undo")
    /\ UNCHANGED <<runVars, taskVars, ver, bounds>>

(* The launch failed: the leases first, the task when tick sees the error.  *)
StartFailed(p) ==
    LET t == loc[p].cur IN
    /\ \/ /\ pc[p] = "st_undo"
          /\ lease' = [lease EXCEPT ![t] = Released(@)]
          /\ attempt' = [attempt EXCEPT ![t] = "FAILED"]
          /\ Stay(p, "st_err") /\ UNCHANGED task
       \/ /\ pc[p] = "st_err"
          /\ task' = [task EXCEPT ![t] = Unless(@, "NEEDS_HELP")]
          /\ Stay(p, "tk_start") /\ UNCHANGED <<lease, attempt>>
    /\ UNCHANGED <<runVars, gate, accepted, agentVars, bounds>>

-----------------------------------------------------------------------------
(* launch_review_ready_verifier, called by tick (with a snapshot of the     *)
(* task), by finalize_worker and by request_task_review.                    *)
ReviewReturn(p, started) ==
    IF lock = p
    THEN /\ loc' = [loc EXCEPT ![p].total = @ + started, ![p].verifiers = @ + started,
                               ![p].vid = 0]
         /\ Goto(p, "tk_review") /\ UNCHANGED lock
    ELSE Finish(p)

ReviewCheck(p) ==
    LET t == loc[p].cur IN
    /\ pc[p] = "rv_check"
    /\ IF \/ verifier_active(t)
          \/ lock # p /\ task[t] # "REVIEW_READY"
       THEN ReviewReturn(p, 0)
       ELSE Stay(p, "rv_gate")
    /\ UNCHANGED <<runVars, taskVars, agentVars, bounds>>

(* Mutant: the verifier is launched without the gate of the profile.        *)
GateSkipped(p) ==
    /\ pc[p] = "rv_gate"
    /\ Stay(p, "rv_capacity")
    /\ UNCHANGED <<runVars, taskVars, agentVars, bounds>>

(* run_review_ready_validation_gate: without the profile's review_ready     *)
(* (its default) there is no gate; what already passed on this head is not  *)
(* run again; an error (a dirty checkout, Git) ends the caller.             *)
GateBegins(p) ==
    /\ pc[p] = "rv_gate"
    /\ \/ Finish(p)
       \/ /\ ReviewReady /\ gate[loc[p].cur] # "pass"
          /\ Stay(p, "rv_validate")
       \/ /\ ReviewReady => gate[loc[p].cur] = "pass"
          /\ Stay(p, "rv_capacity")
    /\ UNCHANGED <<runVars, taskVars, agentVars, bounds>>

(* The validators run: they pass, one fails, or they cannot be executed.    *)
run_review_ready_validation_gate(p) ==
    LET t == loc[p].cur IN
    /\ pc[p] = "rv_validate"
    /\ \/ gate' = [gate EXCEPT ![t] = "pass"] /\ Stay(p, "rv_capacity")
       \/ gate' = [gate EXCEPT ![t] = "fail"] /\ Stay(p, "rv_reject")
       \/ Finish(p) /\ UNCHANGED gate
    /\ UNCHANGED <<runVars, task, attempt, lease, accepted, agentVars, bounds>>

(* A failed gate: VERIFYING, then apply_task_review_rejection.              *)
ReviewGateRejects(p) ==
    LET t == loc[p].cur IN
    /\ \/ /\ pc[p] = "rv_reject"
          /\ \/ /\ can_transition_to(task[t], "VERIFYING")
                /\ task' = [task EXCEPT ![t] = "VERIFYING"]
                /\ Stay(p, "rv_changes")
             \/ /\ ~can_transition_to(task[t], "VERIFYING")
                /\ Finish(p) /\ UNCHANGED task
          /\ UNCHANGED <<attempt, lease>>
       \/ /\ pc[p] = "rv_changes"
          /\ \/ /\ can_transition_to(task[t], "CHANGES_REQUESTED")
                /\ task' = [task EXCEPT ![t] = "CHANGES_REQUESTED"]
                /\ attempt' = [attempt EXCEPT ![t] = "CHANGES_REQUESTED"]
                /\ lease' = [lease EXCEPT ![t] = Released(@)]
                /\ ReviewReturn(p, 0)
             \/ /\ ~can_transition_to(task[t], "CHANGES_REQUESTED")
                /\ Finish(p) /\ UNCHANGED <<task, attempt, lease>>
    /\ UNCHANGED <<runVars, gate, accepted, agentVars, bounds>>

(* launch_verifier: the capacity is counted again, then the transition.     *)
ReviewCapacity(p) ==
    LET t == loc[p].cur IN
    /\ pc[p] = "rv_capacity"
    /\ IF \/ Cardinality(ActiveVerifiers) >= MaxVerifiers
          \/ Cardinality(ActiveVerifiers) + Cardinality(ActiveWorkers) >= MaxTotal
       THEN lease' = [lease EXCEPT ![t] = Renewed(@)] /\ ReviewReturn(p, 0)
       ELSE UNCHANGED lease /\ Stay(p, "rv_session")
    /\ UNCHANGED <<runVars, task, attempt, gate, accepted, agentVars, bounds>>

ReviewSession(p) ==
    LET t == loc[p].cur IN
    /\ pc[p] = "rv_session"
    /\ \/ /\ can_transition_to(task[t], "VERIFYING")
          /\ task' = [task EXCEPT ![t] = "VERIFYING"]
          /\ ver' = [ver EXCEPT ![t] = Append(@, Session("STARTING", "none"))]
          /\ loc' = [loc EXCEPT ![p].vid = Len(ver[t]) + 1]
          /\ Goto(p, "rv_agent") /\ UNCHANGED lock
       \/ /\ ~can_transition_to(task[t], "VERIFYING")
          /\ Finish(p) /\ UNCHANGED <<task, ver>>
    /\ UNCHANGED <<runVars, attempt, lease, gate, accepted, worker, bounds>>

(* start_agent for the verifier; its failure fails the whole attempt.       *)
ReviewAgent(p) ==
    LET t == loc[p].cur
        i == loc[p].vid IN
    /\ pc[p] = "rv_agent"
    /\ \/ /\ ver' = [ver EXCEPT ![t][i] = Session("RUNNING", "open")]
          /\ ReviewReturn(p, 1) /\ UNCHANGED <<task, attempt, lease>>
       \/ /\ ver' = [ver EXCEPT ![t][i] = Session("FAILED", "none")]
          /\ task' = [task EXCEPT ![t] = Unless(@, "NEEDS_HELP")]
          /\ IF can_transition_to(task[t], "NEEDS_HELP")
             THEN /\ lease' = [lease EXCEPT ![t] = Released(@)]
                  /\ attempt' = [attempt EXCEPT ![t] = "FAILED"]
             ELSE UNCHANGED <<lease, attempt>>
          /\ Finish(p)
    /\ UNCHANGED <<runVars, gate, accepted, worker, bounds>>

-----------------------------------------------------------------------------
(* The event pump: ingest_codex_event.  Every inbound event of an agent     *)
(* renews the leases of its attempt before it is projected.                 *)
SetAgent(t, i, a) ==
    IF i = 0 THEN worker' = [worker EXCEPT ![t] = a] /\ UNCHANGED ver
             ELSE ver' = [ver EXCEPT ![t][i] = a] /\ UNCHANGED worker

Agent(t, i) == IF i = 0 THEN worker[t] ELSE ver[t][i]

PumpProgress ==
    /\ pc["pump"] = "idle"
    /\ \E t \in Tasks : \E i \in 0..Len(ver[t]) :
         /\ TurnLive(Agent(t, i))
         /\ lease[t] = "expired"
         /\ lease' = [lease EXCEPT ![t] = Renewed(@)]
    /\ UNCHANGED <<runVars, task, attempt, gate, accepted, agentVars, lock, pc, loc,
                   bounds>>

(* Mutant: the wire status is stored as the state of the agent.             *)
PumpTurnCompletedVerbatim ==
    /\ pc["pump"] = "idle"
    /\ \E t \in Tasks, completed \in BOOLEAN : \E i \in 0..Len(ver[t]) :
         /\ TurnLive(Agent(t, i))
         /\ Agent(t, i).turn = "answered" => completed \/ LateVerifierFailure
         /\ SetAgent(t, i, Session(IF completed THEN "completed" ELSE "failed", "none"))
         /\ lease' = [lease EXCEPT ![t] = Renewed(@)]
         /\ loc' = [loc EXCEPT !["pump"].cur = t, !["pump"].vid = i]
         /\ Goto("pump", IF completed THEN "ev_done" ELSE "ev_failed")
    /\ UNCHANGED <<runVars, task, attempt, gate, accepted, lock, bounds>>

(* turn/completed: project_turn_completed, then handle_turn_completed.      *)
PumpTurnCompleted ==
    /\ pc["pump"] = "idle"
    /\ \E t \in Tasks, completed \in BOOLEAN : \E i \in 0..Len(ver[t]) :
         /\ TurnLive(Agent(t, i))
         /\ Agent(t, i).turn = "answered" => completed \/ LateVerifierFailure
         /\ SetAgent(t, i, Session(IF completed THEN "TURN_COMPLETE" ELSE "FAILED", "none"))
         /\ lease' = [lease EXCEPT ![t] = Renewed(@)]
         /\ loc' = [loc EXCEPT !["pump"].cur = t, !["pump"].vid = i]
         /\ Goto("pump", IF completed THEN "ev_done" ELSE "ev_failed")
    /\ UNCHANGED <<runVars, task, attempt, gate, accepted, lock, bounds>>

(* Mutant: the last turn of a stopping run does not end the run.            *)
TurnEndsInStoppingRunOnly ==
    LET t == loc["pump"].cur IN
    /\ pc["pump"] \in {"ev_done", "ev_failed"} /\ run = "STOPPING"
    /\ SetAgent(t, loc["pump"].vid, Session("CANCELED", "none"))
    /\ task' = [task EXCEPT ![t] = Unless(@, "CANCELED")]
    /\ lease' = [lease EXCEPT ![t] = Released(@)]
    /\ attempt' = [attempt EXCEPT ![t] = "CANCELED"]
    /\ Finish("pump")
    /\ UNCHANGED <<runVars, gate, accepted, bounds>>

(* In a stopping run the task is canceled and the run ends with its last    *)
(* active turn (finish_stopping_run_if_idle).                               *)
TurnEndsInStoppingRun ==
    LET t == loc["pump"].cur IN
    /\ pc["pump"] \in {"ev_done", "ev_failed"} /\ run = "STOPPING"
    /\ SetAgent(t, loc["pump"].vid, Session("CANCELED", "none"))
    /\ IF SomeTurnActive
       THEN /\ task' = [task EXCEPT ![t] = Unless(@, "CANCELED")]
            /\ lease' = [lease EXCEPT ![t] = Released(@)]
            /\ SameRun
       ELSE /\ task' = [u \in Tasks |-> Unless(task[u], "CANCELED")]
            /\ lease' = [u \in Tasks |-> Released(lease[u])]
            /\ SetRun("CANCELED")
    /\ attempt' = [attempt EXCEPT ![t] = "CANCELED"]
    /\ Finish("pump")
    /\ UNCHANGED <<paused, integration, gate, accepted, bounds>>

(* Any other status fails the attempt, whichever agent of it failed.        *)
TurnFailed ==
    LET t == loc["pump"].cur IN
    /\ pc["pump"] = "ev_failed" /\ run # "STOPPING"
    /\ SetAgent(t, loc["pump"].vid, Session("FAILED", "none"))
    /\ task' = [task EXCEPT ![t] = Unless(@, "NEEDS_HELP")]
    /\ lease' = [lease EXCEPT ![t] = Released(@)]
    /\ attempt' = [attempt EXCEPT ![t] = "FAILED"]
    /\ Finish("pump")
    /\ UNCHANGED <<runVars, gate, accepted, bounds>>

(* Mutant: a verifier turn that ended well is taken for an acceptance.      *)
VerifierTurnTrusted ==
    LET t == loc["pump"].cur IN
    /\ pc["pump"] = "ev_done" /\ run # "STOPPING" /\ loc["pump"].vid # 0
    /\ IF task[t] = "VERIFYING"
       THEN /\ task' = [task EXCEPT ![t] = "VERIFIED"]
            /\ lease' = [lease EXCEPT ![t] = Released(@)]
            /\ attempt' = [attempt EXCEPT ![t] = "FAILED"]
            /\ SetAgent(t, loc["pump"].vid, Session("FAILED", "none"))
       ELSE UNCHANGED <<task, lease, attempt, agentVars>>
    /\ Finish("pump")
    /\ UNCHANGED <<runVars, gate, accepted, bounds>>

(* A verifier that ended without a verdict fails a task still VERIFYING.    *)
VerifierTurnDone ==
    LET t == loc["pump"].cur IN
    /\ pc["pump"] = "ev_done" /\ run # "STOPPING" /\ loc["pump"].vid # 0
    /\ IF task[t] = "VERIFYING"
       THEN /\ task' = [task EXCEPT ![t] = "NEEDS_HELP"]
            /\ lease' = [lease EXCEPT ![t] = Released(@)]
            /\ attempt' = [attempt EXCEPT ![t] = "FAILED"]
            /\ SetAgent(t, loc["pump"].vid, Session("FAILED", "none"))
       ELSE UNCHANGED <<task, lease, attempt, agentVars>>
    /\ Finish("pump")
    /\ UNCHANGED <<runVars, gate, accepted, bounds>>

(* finalize_worker: the custody checks and the commit run in Git; the task  *)
(* is looked at before them only.                                           *)
FinalizeWorkerCheck ==
    /\ pc["pump"] = "ev_done" /\ run # "STOPPING" /\ loc["pump"].vid = 0
    /\ IF task[loc["pump"].cur] = "IMPLEMENTING" THEN Stay("pump", "fw_git")
                                                 ELSE Finish("pump")
    /\ UNCHANGED <<runVars, taskVars, agentVars, bounds>>

FinalizeWorker ==
    LET t == loc["pump"].cur IN
    /\ pc["pump"] = "fw_git"
    /\ \/ /\ task' = [task EXCEPT ![t] = Unless(@, "NEEDS_HELP")]    \* diff refused
          /\ IF can_transition_to(task[t], "NEEDS_HELP")
             THEN /\ lease' = [lease EXCEPT ![t] = Released(@)]
                  /\ attempt' = [attempt EXCEPT ![t] = "FAILED"]
                  /\ worker' = [worker EXCEPT ![t] = Session("FAILED", "none")]
             ELSE UNCHANGED <<lease, attempt, worker>>
          /\ Finish("pump")
       \/ /\ attempt' = [attempt EXCEPT ![t] = "REVIEW_READY"]       \* committed
          /\ UNCHANGED lease
          /\ \/ /\ can_transition_to(task[t], "REVIEW_READY")
                /\ task' = [task EXCEPT ![t] = "REVIEW_READY"]
                /\ worker' = [worker EXCEPT ![t] = Session("COMPLETED", "none")]
                /\ Stay("pump", "rv_check")
             \/ /\ ~can_transition_to(task[t], "REVIEW_READY")
                /\ UNCHANGED <<task, worker>>
                /\ Finish("pump")
    /\ UNCHANGED <<runVars, gate, accepted, ver, bounds>>

(* item/completed with a schema-valid verdict: apply_verifier_verdict       *)
PumpVerdict ==
    /\ pc["pump"] = "idle"
    /\ \E t \in Tasks : \E i \in DOMAIN ver[t] :
         /\ ver[t][i].turn = "open"
         /\ ver' = [ver EXCEPT ![t][i].turn = "answered"]
         /\ lease' = [lease EXCEPT ![t] = Renewed(@)]
         /\ IF task[t] = "VERIFYING"
            THEN /\ loc' = [loc EXCEPT !["pump"].cur = t, !["pump"].vid = i]
                 /\ pc' \in {[pc EXCEPT !["pump"] = l] : l \in {"vd_accept", "vd_reject"}}
            ELSE UNCHANGED <<pc, loc>>
    /\ UNCHANGED <<runVars, task, attempt, gate, accepted, worker, lock, bounds>>

VerdictRejects ==
    LET t == loc["pump"].cur IN
    /\ pc["pump"] = "vd_reject"
    /\ IF can_transition_to(task[t], "CHANGES_REQUESTED")
       THEN /\ task' = [task EXCEPT ![t] = "CHANGES_REQUESTED"]
            /\ attempt' = [attempt EXCEPT ![t] = "CHANGES_REQUESTED"]
            /\ lease' = [lease EXCEPT ![t] = Released(@)]
            /\ ver' = [ver EXCEPT ![t][loc["pump"].vid].state = "COMPLETED"]
       ELSE UNCHANGED <<task, attempt, lease, ver>>
    /\ Finish("pump")
    /\ UNCHANGED <<runVars, gate, accepted, worker, bounds>>

VerdictAccepts ==
    LET t == loc["pump"].cur IN
    /\ pc["pump"] = "vd_accept"
    /\ accepted' = [accepted EXCEPT ![t] = TRUE]
    /\ attempt' = [attempt EXCEPT ![t] = "COMPLETED"]
    /\ \/ /\ can_transition_to(task[t], "VERIFIED")
          /\ task' = [task EXCEPT ![t] = "VERIFIED"]
          /\ lease' = [lease EXCEPT ![t] = Released(@)]
          /\ ver' = [ver EXCEPT ![t][loc["pump"].vid].state = "COMPLETED"]
          /\ Stay("pump", "vd_next")
       \/ /\ ~can_transition_to(task[t], "VERIFIED")
          /\ UNCHANGED <<task, lease, ver>> /\ Finish("pump")
    /\ UNCHANGED <<runVars, gate, worker, bounds>>

AllVerified == \A t \in Tasks : task[t] = "VERIFIED"

(* Mutant: every verdict is followed by a tick, the last one too.           *)
VerdictOnlyTicks ==
    /\ pc["pump"] = "vd_next"
    /\ task' = mark_unblocked_tasks_ready(task)
    /\ loc' = [loc EXCEPT !["pump"] = NoLocals] /\ Goto("pump", "tk_lock")
    /\ UNCHANGED <<runVars, attempt, lease, gate, accepted, agentVars, lock, bounds>>

(* After the last verdict the run moves on; after any other, tick.          *)
VerdictMovesOn ==
    /\ \/ /\ pc["pump"] = "vd_next"
          /\ task' = mark_unblocked_tasks_ready(task)
          /\ IF AllVerified
             THEN IF run = "EXECUTING"
                  THEN SetRun("TASK_VERIFICATION") /\ Stay("pump", "vd_ready")
                  ELSE SameRun /\ Finish("pump")
             ELSE /\ loc' = [loc EXCEPT !["pump"] = NoLocals]
                  /\ Goto("pump", "tk_lock") /\ SameRun /\ UNCHANGED lock
       \/ /\ pc["pump"] = "vd_ready"
          /\ IF run = "TASK_VERIFICATION"
             THEN SetRun("INTEGRATION_READY") /\ Stay("pump", "ig_begin")
             ELSE SameRun /\ Finish("pump")
          /\ UNCHANGED task
    /\ UNCHANGED <<paused, integration, attempt, lease, gate, accepted, agentVars, bounds>>

(* prepare_integration: a worktree, the queue, the cherry-picks.            *)
prepare_integration ==
    /\ \/ /\ pc["pump"] = "ig_begin"
          /\ \/ /\ run = "INTEGRATION_READY" /\ AllVerified
                /\ integration' = "integrating" /\ Stay("pump", "ig_queue")
             \/ Finish("pump") /\ UNCHANGED integration
          /\ SameRun /\ UNCHANGED task
       \/ /\ pc["pump"] = "ig_queue"
          /\ \/ /\ AllVerified
                /\ task' = [t \in Tasks |-> "INTEGRATING"] /\ Stay("pump", "ig_pick")
             \/ /\ ~AllVerified
                /\ \E S \in SUBSET {t \in Tasks : task[t] = "VERIFIED"} :
                      task' = [t \in Tasks |-> IF t \in S THEN "INTEGRATING" ELSE task[t]]
                /\ Finish("pump")
          /\ SameRun /\ UNCHANGED integration
       \/ /\ pc["pump"] = "ig_pick"
          /\ \/ /\ integration' = "conflicted"
                /\ IF run = "CANCELED" THEN SameRun ELSE SetRun("BLOCKED")
                /\ UNCHANGED task
             \/ /\ \A t \in Tasks : task[t] = "INTEGRATING"
                /\ task' = [t \in Tasks |-> "INTEGRATED"]
                /\ integration' = "ready" /\ SetRun(run)     \* set_run_integration
             \/ /\ \E t \in Tasks : task[t] # "INTEGRATING"
                /\ \E S \in SUBSET {t \in Tasks : task[t] = "INTEGRATING"} :
                      task' = [t \in Tasks |-> IF t \in S THEN "INTEGRATED" ELSE task[t]]
                /\ SameRun /\ UNCHANGED integration
          /\ Finish("pump")
    /\ UNCHANGED <<paused, attempt, lease, gate, accepted, agentVars, bounds>>

-----------------------------------------------------------------------------
(* The operators' API calls: none of them takes operation_lock              *)
CommandIssued(o, c) == /\ c \in Commands /\ pc[o] = "idle"
                       /\ commands < MaxCommands /\ commands' = commands + 1

request_task_review(o) ==
    /\ CommandIssued(o, "review")
    /\ \E t \in Tasks :
         /\ task[t] = "REVIEW_READY" /\ ~verifier_active(t)
         /\ loc' = [loc EXCEPT ![o].cur = t]
    /\ Goto(o, "rv_check")
    /\ UNCHANGED <<runVars, taskVars, agentVars, lock, crashes, exits>>

(* interrupt_agent, after the App Server has accepted turn/interrupt        *)
Interrupted(S) ==      \* S: the <<task, index>> pairs of the interrupted agents
    LET hit(t) == \E a \in S : a[1] = t IN
    /\ worker' = [t \in Tasks |-> IF <<t, 0>> \in S
                    THEN [worker[t] EXCEPT !.state = "INTERRUPTED"] ELSE worker[t]]
    /\ ver' = [t \in Tasks |-> [i \in DOMAIN ver[t] |->
                 IF <<t, i>> \in S THEN [ver[t][i] EXCEPT !.state = "INTERRUPTED"]
                                   ELSE ver[t][i]]]
    /\ task' = [t \in Tasks |-> IF hit(t) THEN Unless(task[t], "INTERRUPTED") ELSE task[t]]
    /\ attempt' = [t \in Tasks |-> IF hit(t) THEN "INTERRUPTED" ELSE attempt[t]]

WithTurn == UNION {{<<t, i>> : i \in {j \in 0..Len(ver[t]) : TurnLive(Agent(t, j))}}
                     : t \in Tasks}

interrupt_agent(o) ==
    /\ CommandIssued(o, "interrupt")
    /\ \E a \in WithTurn : Interrupted({a})
    /\ UNCHANGED <<runVars, lease, gate, accepted, lock, pc, loc, crashes, exits>>

set_scheduler_paused(o) ==
    /\ CommandIssued(o, "pause")
    /\ paused' = ~paused /\ SetRun(run)
    /\ UNCHANGED <<integration, taskVars, agentVars, lock, pc, loc, crashes, exits>>

stop_run(o) ==
    /\ CommandIssued(o, "stop")
    /\ run # "CANCELED"
    /\ run' = "STOPPING" /\ paused' = TRUE /\ version' = version + 2
    /\ \E interrupt_turns \in BOOLEAN :
          Goto(o, IF interrupt_turns THEN "sr_interrupt" ELSE "sr_drain")
    /\ loc' = [loc EXCEPT ![o].seen = version']
    /\ UNCHANGED <<integration, taskVars, agentVars, lock, crashes, exits>>

(* An interrupt that fails is logged; agents in an ended state are skipped. *)
StopInterrupts(o) ==
    /\ pc[o] = "sr_interrupt"
    /\ \E S \in SUBSET {a \in WithTurn : Agent(a[1], a[2]).state
                           \notin {"COMPLETED", "FAILED", "INTERRUPTED", "CANCELED"}} :
          Interrupted(S)
    /\ Stay(o, "sr_tasks")
    /\ UNCHANGED <<runVars, lease, gate, accepted, bounds>>

(* finish_stopping_run_if_idle, which reads the run again, then             *)
(* cancel_run_work, which cancels the tasks and releases every lease; the   *)
(* run ends only if its row is still the one that was read.                 *)
StopCancels(o) ==
    /\ \/ /\ pc[o] = "sr_drain"
          /\ \/ /\ run = "STOPPING" /\ ~SomeTurnActive
                /\ loc' = [loc EXCEPT ![o].seen = version]
                /\ Goto(o, "sr_tasks") /\ UNCHANGED lock
             \/ /\ run # "STOPPING" \/ SomeTurnActive
                /\ Finish(o)
          /\ SameRun /\ UNCHANGED <<task, lease>>
       \/ /\ pc[o] = "sr_tasks"
          /\ task' = [t \in Tasks |-> Unless(task[t], "CANCELED")]
          /\ Stay(o, "sr_leases")
          /\ SameRun /\ UNCHANGED lease
       \/ /\ pc[o] = "sr_leases"
          /\ lease' = [t \in Tasks |-> Released(lease[t])]
          /\ IF loc[o].seen = version THEN SetRun("CANCELED") ELSE SameRun
          /\ Finish(o) /\ UNCHANGED task
    /\ UNCHANGED <<paused, integration, attempt, gate, accepted, agentVars, bounds>>

-----------------------------------------------------------------------------
(* Time and failures                                                        *)

(* A lease runs out lease_ttl_seconds after its last renewal.  Maintenance  *)
(* renews those of Held tasks at the start of every pass, so they run out   *)
(* only while a pass, or the holder of the lock it waits for, sits in a     *)
(* gate longer than that.                                                   *)
LeaseExpires ==
    /\ \E t \in Tasks :
         /\ lease[t] = "active"
         /\ \/ task[t] \notin Held
            \/ /\ GateOutlastsTtl
               /\ \/ pc["maint"] = "rv_validate"
                  \/ pc["maint"] = "tk_lock" /\ lock # Nobody /\ pc[lock] = "rv_validate"
         /\ lease' = [lease EXCEPT ![t] = "expired"]
    /\ UNCHANGED <<runVars, task, attempt, gate, accepted, agentVars, lock, pc, loc, bounds>>

Orphan(a) == [a EXCEPT !.turn = IF active_turn_id(a) THEN "stale" ELSE "none"]
Lost(a) == IF agent_state_consumes_capacity(a) THEN Session("STALLED", "none")
           ELSE Orphan(a)

(* reconcile_orphaned_sessions: live sessions and the tasks that need one   *)
(* are STALLED, leases are kept; a terminal run is not visited.             *)
reconcile_orphaned_sessions ==
    LET live(t) == agent_state_consumes_capacity(worker[t]) \/ verifier_active(t)
        stalls(t) == \/ task[t] \in Held
                     \/ live(t) /\ task[t] \in {"WAITING_RESOURCE", "BLOCKED", "NEEDS_HELP"}
    IN
    IF run = "CANCELED"
    THEN /\ worker' = [t \in Tasks |-> Orphan(worker[t])]
         /\ ver' = [t \in Tasks |-> [i \in DOMAIN ver[t] |-> Orphan(ver[t][i])]]
         /\ UNCHANGED <<task, attempt>>
    ELSE /\ worker' = [t \in Tasks |-> Lost(worker[t])]
         /\ ver' = [t \in Tasks |-> [i \in DOMAIN ver[t] |-> Lost(ver[t][i])]]
         /\ task' = [t \in Tasks |-> IF stalls(t) THEN "STALLED" ELSE task[t]]
         /\ attempt' = [t \in Tasks |-> IF stalls(t) \/ task[t] = "STALLED"
                                        THEN "STALLED" ELSE attempt[t]]

(* The exit of the App Server is the last event the pump takes from it.     *)
PumpProcessExit ==
    /\ pc["pump"] = "idle" /\ exits < MaxExits
    /\ exits' = exits + 1
    /\ reconcile_orphaned_sessions
    /\ UNCHANGED <<runVars, lease, gate, accepted, lock, pc, loc, crashes, commands>>

CrashRestart ==
    /\ crashes < MaxCrashes
    /\ crashes' = crashes + 1
    /\ pc' = [p \in Procs |-> "idle"] /\ loc' = [p \in Procs |-> NoLocals]
    /\ lock' = Nobody
    /\ reconcile_orphaned_sessions
    /\ UNCHANGED <<runVars, lease, gate, accepted, exits, commands>>

-----------------------------------------------------------------------------
Tick(p) == TickBegin(p) \/ TickCount(p) \/ TickReviewNext(p) \/ TickStartNext(p)
           \/ TickGithub(p)

Start(p) == StartCheck(p) \/ create_task_attempt(p) \/ StartWorktreeFails(p)
            \/ acquire_path_leases(p) \/ StartSession(p) \/ StartAgent(p) \/ StartFailed(p)

Review(p) == ReviewCheck(p) \/ GateBegins(p) \/ run_review_ready_validation_gate(p)
             \/ ReviewGateRejects(p) \/ ReviewCapacity(p) \/ ReviewSession(p)
             \/ ReviewAgent(p)

Pump == PumpProgress \/ PumpTurnCompleted \/ TurnEndsInStoppingRun \/ TurnFailed
        \/ VerifierTurnDone \/ FinalizeWorkerCheck \/ FinalizeWorker \/ PumpVerdict
        \/ VerdictRejects \/ VerdictAccepts \/ VerdictMovesOn \/ prepare_integration

Operator(o) == request_task_review(o) \/ interrupt_agent(o) \/ set_scheduler_paused(o)
               \/ stop_run(o) \/ StopInterrupts(o) \/ StopCancels(o)

Environment == LeaseExpires \/ PumpProcessExit \/ CrashRestart

Next == \/ MaintenanceTick
        \/ \E p \in {"maint", "pump"} : Tick(p) \/ Start(p)
        \/ \E p \in Procs : Review(p)
        \/ \E o \in Operators : Operator(o)
        \/ Pump \/ Environment

Spec == Init /\ [][Next]_vars

(* Fairness.  Every task of the daemon goes on: the maintenance interval    *)
(* fires again and again, the App Server ends every turn, and tokio's mutex *)
(* is first in, first out.  Neither the runtime check of maintenance's tick *)
(* nor the start of its gate nor the GitHub probe fails for ever.           *)
Maintenance == MaintenanceTick \/ Tick("maint") \/ Start("maint") \/ Review("maint")

PumpGoesOn ==
    \/ PumpTurnCompleted \/ (pc["pump"] # "idle" /\ Pump)
    \/ Tick("pump") \/ Start("pump") \/ Review("pump")
OperatorGoesOn(o) == Review(o) \/ StopInterrupts(o) \/ StopCancels(o)
Fairness ==
    /\ WF_vars(Maintenance)
    /\ SF_vars(TickCount("maint") /\ pc'["maint"] = "tk_review")
    /\ SF_vars(GateBegins("maint") /\ pc'["maint"] # "idle")
    /\ SF_vars(run_review_ready_validation_gate("maint") /\ pc'["maint"] # "idle")
    /\ SF_vars(github_capability("maint", TRUE))
    /\ WF_vars(PumpGoesOn)
    /\ SF_vars(TickBegin("pump"))
    /\ \A o \in Operators : WF_vars(OperatorGoesOn(o))

FairSpec == Spec /\ Fairness

-----------------------------------------------------------------------------
RunStates == {"EXECUTING", "TASK_VERIFICATION", "INTEGRATION_READY", "BLOCKED",
              "STOPPING", "CANCELED"}

Labels ==
    {"idle", "tk_lock", "tk_count", "tk_review", "tk_start", "tk_github", "st_deps",
     "st_create", "st_lease", "st_session", "st_agent", "st_undo", "st_err", "rv_check",
     "rv_gate", "rv_validate", "rv_reject", "rv_changes", "rv_capacity", "rv_session",
     "rv_agent", "ev_done", "ev_failed", "fw_git", "vd_accept", "vd_reject", "vd_next",
     "vd_ready", "ig_begin", "ig_queue", "ig_pick", "sr_interrupt", "sr_drain",
     "sr_tasks", "sr_leases"}
AttemptStates == {"none", "LEASED", "REVIEW_READY", "COMPLETED", "CHANGES_REQUESTED",
                  "FAILED", "REFUSED", "INTERRUPTED", "STALLED", "CANCELED"}
LeaseStates == {"none", "active", "expired", "released"}
Workers == [state : AgentStates, turn : {"none", "open", "stale"}]
Verifiers == [state : AgentStates, turn : {"none", "open", "answered", "stale"}]

RunTypes == /\ run \in RunStates /\ paused \in BOOLEAN /\ version \in Nat
            /\ integration \in {"none", "integrating", "conflicted", "ready"}
            /\ {crashes, exits, commands} \subseteq Nat
TaskTypes == /\ task \in [Tasks -> TaskStates] /\ attempt \in [Tasks -> AttemptStates]
             /\ lease \in [Tasks -> LeaseStates]
             /\ gate \in [Tasks -> {"none", "pass", "fail"}]
             /\ accepted \in [Tasks -> BOOLEAN]
AgentTypes == worker \in [Tasks -> Workers] /\ ver \in [Tasks -> Seq(Verifiers)]
CallTypes == /\ lock \in Procs \cup {Nobody}
             /\ pc \in [Procs -> Labels] /\ loc \in [Procs -> Locals]

(* Every row and local variable keeps its type; and sessions hold states of *)
(* the controller, never the status string the protocol reported.           *)
TypeOK == RunTypes /\ TaskTypes /\ AgentTypes /\ CallTypes

(* The check for an active verifier and the launch are several awaits apart *)
(* and nothing is locked, so a task may get more than one verifier; but     *)
(* never more than one for each caller: maintenance, the pump and the API   *)
(* calls under way at once.                                                 *)
OneVerifierPerCaller == \A t \in Tasks : Len(ver[t]) <= Cardinality(Procs)

Writer(t) == task[t] = "IMPLEMENTING" /\ TurnLive(worker[t])

(* Two tasks whose lease prefixes overlap never have workers in their       *)
(* worktrees at the same time, whatever fails or is interrupted.            *)
ExclusiveWriters ==
    \A t, u \in Tasks : t # u /\ {t, u} \in Contend => ~(Writer(t) /\ Writer(u))

(* A worker that implements its task holds its write leases, through        *)
(* concurrent verdicts, failed launches and interrupts.                     *)
WriterHoldsLease == \A t \in Tasks : Writer(t) => lease[t] = "active"

(* Two tasks whose lease prefixes overlap never have workers in their      *)
(* worktrees at the same time, and a worker that implements its task holds *)
(* its leases: through concurrent ticks, verdicts, requested reviews,      *)
(* failed launches and interrupts, and through a crash or an exit.         *)
WritersExclude == ExclusiveWriters /\ WriterHoldsLease

(* An attempt is created only on the work of dependencies that an           *)
(* independent verifier has accepted.                                       *)
DependenciesAccepted ==
    \A t \in Tasks : attempt[t] # "none" => \A d \in Deps[t] : accepted[d]

(* Every task in a prepared integration candidate was accepted by an        *)
(* independent verifier, although verdict, stop and the cherry-picks are    *)
(* several awaits apart; and where the profile asks for the review-ready    *)
(* gate, it had run on the task before that verifier was launched.          *)
CandidateVerified ==
    integration = "ready" =>
        \A t \in Tasks : task[t] = "INTEGRATED" =>
            accepted[t] /\ (ReviewReady => gate[t] # "none")

(* tick never runs more mutable workers than max_mutable_tasks, although it *)
(* counts them once per pass and not again before each launch.              *)
MutableLimit == Cardinality(ActiveWorkers) <= MaxMutable

(* A task whose work awaits review gets a verdict, is rejected or is        *)
(* escalated, although gates may fail to run and verifier slots are scarce. *)
ReviewReadyServed ==
    \A t \in Tasks : task[t] = "REVIEW_READY" ~> task[t] # "REVIEW_READY"

(* A task whose dependencies are met is launched, although one worker slot  *)
(* is shared and launches may fail.                                         *)
ReadyTaskLaunched ==
    \A t \in Tasks : task[t] = "READY" ~> (task[t] # "READY" \/ paused \/ run # "EXECUTING")

(* A run stopped before its candidate is prepared ends in CANCELED, with or *)
(* without interrupts, whatever tick and the pump were doing: a turn is     *)
(* either seen by stop_run or ends the run itself.                          *)
StopCompletes == (run = "STOPPING" /\ integration = "none") ~> run = "CANCELED"

(* A run does not stay in EXECUTING with every task VERIFIED: the pump      *)
(* moves it to integration.                                                 *)
VerifiedRunAdvances == []<>~(AllVerified /\ run = "EXECUTING")

(* Refuted when stop_run overtakes a launch: no worker implements a task of *)
(* a CANCELED run.                                                          *)
CanceledRunIsIdle == run = "CANCELED" => \A t \in Tasks : ~Writer(t)
=============================================================================
