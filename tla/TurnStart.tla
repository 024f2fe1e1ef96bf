----------------------------- MODULE TurnStart -----------------------------
(***************************************************************************)
(* The write-ahead protocol that starts one Codex turn for one agent       *)
(* session (crates/harness-orchestrator/src/lib.rs, start_agent and the    *)
(* *_pending_turn_start_* functions; the transactions they use are in      *)
(* crates/harness-store/src/queries.rs).                                   *)
(*                                                                         *)
(* A `turn/start` RPC whose answer is lost may nevertheless have started a *)
(* turn that edits files.  The controller therefore writes a receipt       *)
(* before it sends the RPC and deletes it only when either the             *)
(* authoritative `turn/started` notification has been matched against it   *)
(* ("acknowledged") or the whole thread has been deleted ("contained").    *)
(*                                                                         *)
(* Four tasks of the daemon run concurrently and share only the database:  *)
(* the launcher (start_task -> start_agent), the event pump                *)
(* (ingest_codex_event), the maintenance loop                              *)
(* (reconcile_pending_turn_starts) and the operator (stop_run).  Each      *)
(* database transaction is one step; every RPC is sent and answered in     *)
(* different steps; the daemon and the App Server may die at any point.    *)
(***************************************************************************)
EXTENDS Naturals, Sequences

CONSTANTS
    Turns,          \* turn ids the App Server may use
    NoTurn,         \* SQL NULL in agent_runtime_details.active_turn_id
    MaxPolls,       \* TURN_START_ACK_RECONCILIATION_ATTEMPTS
    MaxCrashes,     \* bound: daemon restarts in one behaviour
    MaxExits,       \* bound: App Server exits in one behaviour
    StopAllowed,    \* whether the operator may stop the run
    AnswerNamesTurn \* whether an answer names the turn the notification names

ASSUME TurnStartAssumption ==
    /\ Turns \cap {NoTurn, "none", "noid"} = {}
    /\ MaxPolls \in Nat \ {0}
    /\ MaxCrashes \in Nat
    /\ MaxExits \in Nat
    /\ StopAllowed \in BOOLEAN
    /\ AnswerNamesTurn \in BOOLEAN

VARIABLES
    \* ---- durable: the database
    receipt,        \* runtime_metadata pending-turn-start:<agent> exists
    marker,         \* runtime_metadata pending-turn-start-containment:<agent> exists
    initiated,      \* a agent.turn_start.containment_initiated event exists
    acks,           \* agent.turn_start.resolved events, outcome "acknowledged"
    dels,           \* agent.turn_start.resolved events, outcome "thread_deleted"
    state,          \* agent_sessions.state
    activeTurn,     \* agent_runtime_details.active_turn_id
    raw,            \* turns with an inbound raw `turn/started` event
    turnRoute,      \* codex_turns.requested_model/effort compared with the receipt's
    lease,          \* the attempt holds its path leases
    task,           \* tasks.state
    run,            \* runs.state
    \* ---- volatile: the tasks of the daemon
    pc,             \* where each task of the daemon is
    snap,           \* the turn id each task has read
    stage,          \* which call of a reconciliation a task is in
    polls,          \* reconciliation attempts the launcher has made
    aged,           \* the receipt is older than the containment grace period
    \* ---- the App Server and the pipe to it
    thread,         \* the Codex thread of this agent
    rpc,            \* the turn/start request
    reply,          \* its answer, until the launcher takes it
    srvTurn,        \* the turn the App Server created
    srvRoute,       \* the route its notification carries
    turnLive,       \* that turn may still execute commands and edit files
    chan,           \* inbound notifications not yet taken by the pump
    crashes,        \* daemon restarts so far
    exits           \* App Server exits so far

store  == <<receipt, marker, initiated, acks, dels, state, activeTurn, raw,
            turnRoute, lease, task, run>>
procs  == <<pc, snap, stage, polls, aged>>
server == <<thread, rpc, reply, srvTurn, srvRoute, turnLive, chan>>
bounds == <<crashes, exits>>
vars   == <<store, procs, server, bounds>>

Procs == {"launcher", "pump", "maint", "operator"}

\* requested_model/requested_reasoning_effort of a turn, as a reader that
\* holds the receipt sees them: no row, a row with NULL fields, fields equal
\* to the receipt's, fields that differ from it.
Routes == {"norow", "null", "match", "conflict"}

AgentTerminal == {"COMPLETED", "TURN_COMPLETE", "FAILED", "INTERRUPTED", "CANCELED"}
AgentStates   == AgentTerminal \cup {"STARTING", "RUNNING", "STALLED"}
TaskStates    == {"IMPLEMENTING", "REVIEW_READY", "NEEDS_HELP", "INTERRUPTED",
                  "STALLED", "CANCELED"}
RunStates     == {"EXECUTING", "STOPPING", "CANCELED"}

ReconcileLocs == {"rc_receipt", "rc_marker", "rc_agent", "rc_accept"}
ContainLocs   == {"ct_begin", "ct_delete"}
FinalizeLocs  == {"fz_clear", "fz_failed", "fz_lease", "fz_task", "fz_resolve"}
LaunchLocs    == {"l_thread", "l_goal", "l_record", "l_call", "l_wait",
                  "rs_receipt", "rs_marker", "rs_agent", "rs_record",
                  "l_err", "l_err_task", "l_done"}
Locs == ReconcileLocs \cup ContainLocs \cup FinalizeLocs \cup LaunchLocs
        \cup {"idle", "p_project", "p_complete", "st_interrupt", "st_drain",
              "st_cancel"}

Notifications ==
    [kind : {"started"}, turn : Turns, route : {"null", "match", "conflict"}]
    \cup [kind : {"completed"}, status : {"completed", "interrupted", "failed"}]
    \cup [kind : {"exit"}]

(* pending_turn_route_matches: absent fields match, present ones must equal *)
pending_turn_route_matches(r) == r \in {"null", "match"}

-----------------------------------------------------------------------------
(* Initial state: start_task has created the agent session (STARTING), the  *)
(* path leases and the attempt, moved the task to IMPLEMENTING and calls    *)
(* start_agent.                                                             *)
Init ==
    /\ receipt = FALSE /\ marker = FALSE /\ initiated = FALSE
    /\ acks = 0 /\ dels = 0
    /\ state = "STARTING" /\ activeTurn = NoTurn /\ raw = {}
    /\ turnRoute = [t \in Turns |-> "norow"]
    /\ lease = TRUE /\ task = "IMPLEMENTING" /\ run = "EXECUTING"
    /\ pc = [p \in Procs |-> IF p = "launcher" THEN "l_thread" ELSE "idle"]
    /\ snap = [p \in Procs |-> NoTurn]
    /\ stage = [p \in Procs |-> "first"]
    /\ polls = 0 /\ aged = FALSE
    /\ thread = "none" /\ rpc = "none" /\ reply = "none"
    /\ srvTurn = NoTurn /\ srvRoute = "null" /\ turnLive = FALSE
    /\ chan = <<>>
    /\ crashes = 0 /\ exits = 0

Goto(p, loc) == pc' = [pc EXCEPT ![p] = loc]

(***************************************************************************)
(* What a caller does with a PendingTurnStartReconciliation.  The launcher *)
(* polls while the answer is AwaitingNotification and then contains; a     *)
(* reconciliation it runs outside that loop (stage "final") ends           *)
(* start_agent.  Maintenance contains an aged receipt after one            *)
(* reconciliation.  The pump ignores the outcome.                          *)
(***************************************************************************)
Leave(p, loc) ==            \* the function returns: its locals are gone
    /\ Goto(p, loc)
    /\ stage' = [stage EXCEPT ![p] = "first"]
    /\ snap'  = [snap EXCEPT ![p] = NoTurn]
    /\ polls' = IF p = "launcher" THEN 0 ELSE polls

Again(p, loc, st, n) ==
    /\ Goto(p, loc)
    /\ stage' = [stage EXCEPT ![p] = st]
    /\ snap'  = [snap EXCEPT ![p] = NoTurn]
    /\ polls' = n

(* Mutant: a containment that is still pending is reported as a failure.    *)
ReturnPendingAsError(p, outcome) ==
    LET awaiting == outcome = "AwaitingNotification" /\ stage[p] = "first" IN
    \/ /\ p = "launcher" /\ awaiting
       /\ IF polls + 1 < MaxPolls THEN Again(p, "rc_receipt", "first", polls + 1)
                                  ELSE Again(p, "ct_begin", "final", polls)
    \/ /\ p = "launcher" /\ ~awaiting
       /\ Leave(p, IF outcome \in {"Contained", "Error", "AwaitingNotification",
                                   "ContainmentPending"}
                   THEN "l_err" ELSE "l_done")
    \/ /\ p = "maint" /\ awaiting /\ aged
       /\ Again(p, "ct_begin", "final", polls)
    \/ /\ p = "pump" \/ (p = "maint" /\ ~(awaiting /\ aged))
       /\ Leave(p, "idle")

Return(p, outcome) ==
    LET awaiting == outcome = "AwaitingNotification" /\ stage[p] = "first" IN
    \/ /\ p = "launcher" /\ awaiting
       /\ IF polls + 1 < MaxPolls THEN Again(p, "rc_receipt", "first", polls + 1)
                                  ELSE Again(p, "ct_begin", "final", polls)
    \/ /\ p = "launcher" /\ ~awaiting
       /\ Leave(p, IF outcome \in {"Contained", "Error", "AwaitingNotification"}
                   THEN "l_err" ELSE "l_done")
    \/ /\ p = "maint" /\ awaiting /\ aged
       /\ Again(p, "ct_begin", "final", polls)
    \/ /\ p = "pump" \/ (p = "maint" /\ ~(awaiting /\ aged))
       /\ Leave(p, "idle")

\* The thread/turn/route the controller may treat as the resolved start.
ExactTurn(t) == /\ t # NoTurn
                /\ t \in raw
                /\ turnRoute[t] # "norow"
                /\ pending_turn_route_matches(turnRoute[t])

-----------------------------------------------------------------------------
(* start_agent: thread/start, attach_codex_thread, thread/goal/set.         *)
LauncherStartThread ==
    /\ pc["launcher"] = "l_thread"
    /\ \/ /\ thread' = "live" /\ Goto("launcher", "l_goal") /\ UNCHANGED state
       \/ /\ state' = "FAILED" /\ Goto("launcher", "l_err") /\ UNCHANGED thread
    /\ UNCHANGED <<receipt, marker, initiated, acks, dels, activeTurn, raw,
                   turnRoute, lease, task, run, snap, stage, polls, aged, rpc,
                   reply, srvTurn, srvRoute, turnLive, chan, bounds>>

LauncherSetGoal ==
    /\ pc["launcher"] = "l_goal"
    /\ \/ Goto("launcher", "l_record") /\ UNCHANGED state
       \/ state' = "FAILED" /\ Goto("launcher", "l_err")
    /\ UNCHANGED <<receipt, marker, initiated, acks, dels, activeTurn, raw,
                   turnRoute, lease, task, run, snap, stage, polls, aged,
                   server, bounds>>

(* Mutant: the request is sent without its write-ahead receipt.             *)
record_pending_turn_start_skipped ==
    /\ pc["launcher"] = "l_record"
    /\ Goto("launcher", "l_call")
    /\ UNCHANGED <<store, snap, stage, polls, aged, server, bounds>>

(* Store::record_pending_turn_start, in one transaction, before the RPC.    *)
record_pending_turn_start ==
    /\ pc["launcher"] = "l_record"
    /\ receipt' = TRUE
    /\ Goto("launcher", "l_call")
    /\ UNCHANGED <<marker, initiated, acks, dels, state, activeTurn, raw,
                   turnRoute, lease, task, run, snap, stage, polls, aged,
                   server, bounds>>

LauncherSendTurnStart ==
    /\ pc["launcher"] = "l_call"
    /\ rpc' = "sent"
    /\ Goto("launcher", "l_wait")
    /\ UNCHANGED <<store, snap, stage, polls, aged, thread, reply, srvTurn,
                   srvRoute, turnLive, chan, bounds>>

(* The answer, or a transport error / response timeout without one: then    *)
(* the App Server may still act on the request.                             *)
LauncherTakeAnswer ==
    /\ pc["launcher"] = "l_wait"
    /\ \/ /\ reply = "noid"
          /\ stage' = [stage EXCEPT !["launcher"] = "final"]
          /\ Goto("launcher", "ct_begin") /\ UNCHANGED snap
       \/ /\ reply \in Turns
          /\ stage' = [stage EXCEPT !["launcher"] = "final"]
          /\ snap' = [snap EXCEPT !["launcher"] = reply]
          /\ Goto("launcher", "rs_receipt")
       \/ Goto("launcher", "rc_receipt") /\ UNCHANGED <<stage, snap>>
    /\ reply' = "none"
    /\ UNCHANGED <<store, polls, aged, thread, rpc, srvTurn, srvRoute,
                   turnLive, chan, bounds>>

(* accept_pending_turn_start_response: the receipt, then the marker, then   *)
(* the agent row are read in separate statements.                           *)
ResponseReadReceipt ==
    /\ pc["launcher"] = "rs_receipt"
    /\ \/ receipt /\ Goto("launcher", "rs_marker") /\ UNCHANGED <<snap, stage, polls>>
       \/ /\ ~receipt
          /\ Return("launcher",
                IF state = "FAILED" THEN "Contained"
                ELSE IF activeTurn = snap["launcher"] /\ ExactTurn(activeTurn)
                     THEN "Reconciled"
                     ELSE "AwaitingNotification")
    /\ UNCHANGED <<store, aged, server, bounds>>

ResponseReadMarker ==
    /\ pc["launcher"] = "rs_marker"
    /\ Goto("launcher", IF marker THEN "ct_begin" ELSE "rs_agent")
    /\ UNCHANGED <<store, snap, stage, polls, aged, server, bounds>>

ResponseReadAgent ==
    LET t == snap["launcher"] IN
    /\ pc["launcher"] = "rs_agent"
    /\ Goto("launcher",
            IF \/ activeTurn \notin {NoTurn, t}
               \/ turnRoute[t] = "conflict"
            THEN "ct_begin" ELSE "rs_record")
    /\ UNCHANGED <<store, snap, stage, polls, aged, server, bounds>>

(* Store::record_pending_turn_start_response: compare-and-set on the        *)
(* receipt; keeps it, and leaves the route fields NULL.                     *)
record_pending_turn_start_response ==
    LET t == snap["launcher"] IN
    /\ pc["launcher"] = "rs_record"
    /\ \/ /\ ~receipt
          /\ Goto("launcher", "rc_receipt")
          /\ UNCHANGED <<turnRoute, activeTurn, state, snap, stage, polls>>
       \/ /\ receipt /\ marker
          /\ Goto("launcher", "ct_begin")
          /\ UNCHANGED <<turnRoute, activeTurn, state, snap, stage, polls>>
       \/ /\ receipt /\ ~marker
          /\ turnRoute' = [turnRoute EXCEPT ![t] = IF @ = "norow" THEN "null" ELSE @]
          /\ activeTurn' = IF activeTurn = NoTurn THEN t ELSE activeTurn
          /\ state' = "STARTING"
          /\ Return("launcher", "ResponseAcknowledged")
    /\ UNCHANGED <<receipt, marker, initiated, acks, dels, raw, lease, task, run,
                   aged, server, bounds>>

(* start_agent failed: start_task releases the leases and fails the         *)
(* attempt, then tick marks a non-terminal task NEEDS_HELP.                 *)
LauncherFailed ==
    /\ \/ /\ pc["launcher"] = "l_err"
          /\ lease' = FALSE /\ Goto("launcher", "l_err_task") /\ UNCHANGED task
       \/ /\ pc["launcher"] = "l_err_task"
          /\ task' = IF task = "CANCELED" THEN task ELSE "NEEDS_HELP"
          /\ Goto("launcher", "l_done") /\ UNCHANGED lease
    /\ UNCHANGED <<receipt, marker, initiated, acks, dels, state, activeTurn, raw,
                   turnRoute, run, snap, stage, polls, aged, server, bounds>>

-----------------------------------------------------------------------------
(* reconcile_pending_turn_start_notification, called by the launcher, the   *)
(* pump and maintenance.                                                    *)
ReconcileReadReceipt(p) ==
    /\ pc[p] = "rc_receipt"
    /\ \/ receipt /\ Goto(p, "rc_marker") /\ UNCHANGED <<snap, stage, polls>>
       \/ /\ ~receipt
          /\ Return(p, IF state = "FAILED" THEN "Contained"
                       ELSE IF ExactTurn(activeTurn) THEN "Reconciled"
                       ELSE "AwaitingNotification")
    /\ UNCHANGED <<store, aged, server, bounds>>

ReconcileReadMarker(p) ==
    /\ pc[p] = "rc_marker"
    /\ Goto(p, IF marker THEN "ct_begin" ELSE "rc_agent")
    /\ UNCHANGED <<store, snap, stage, polls, aged, server, bounds>>

(* Mutant: the RPC answer's turn is accepted without its notification.      *)
ReconcileReadAgentUnobserved(p) ==
    /\ pc[p] = "rc_agent"
    /\ \/ /\ activeTurn = NoTurn
          /\ Return(p, "AwaitingNotification")
       \/ /\ activeTurn # NoTurn
          /\ snap' = [snap EXCEPT ![p] = activeTurn]
          /\ Goto(p, IF pending_turn_route_matches(turnRoute[activeTurn])
                     THEN "rc_accept" ELSE "ct_begin")
          /\ UNCHANGED <<stage, polls>>
    /\ UNCHANGED <<store, aged, server, bounds>>

ReconcileReadAgent(p) ==
    /\ pc[p] = "rc_agent"
    /\ \/ /\ activeTurn = NoTurn \/ activeTurn \notin raw
          /\ Return(p, "AwaitingNotification")
       \/ /\ activeTurn # NoTurn /\ activeTurn \in raw
          /\ snap' = [snap EXCEPT ![p] = activeTurn]
          /\ Goto(p, IF ExactTurn(activeTurn) THEN "rc_accept" ELSE "ct_begin")
          /\ UNCHANGED <<stage, polls>>
    /\ UNCHANGED <<store, aged, server, bounds>>

(* Mutant: the transaction does not look at the containment marker.         *)
accept_ignoring_containment(p) ==
    /\ pc[p] = "rc_accept"
    /\ \/ /\ ~receipt
          /\ Return(p, "Error")
          /\ UNCHANGED store
       \/ /\ receipt
          /\ receipt' = FALSE
          /\ acks' = acks + 1
          /\ activeTurn' = snap[p]
          /\ turnRoute' = [turnRoute EXCEPT ![snap[p]] = "match"]
          /\ state' = "RUNNING"
          /\ Return(p, "Reconciled")
          /\ UNCHANGED <<marker, initiated, dels, raw, lease, task, run>>
    /\ UNCHANGED <<aged, server, bounds>>

(* accept_pending_turn_start over                                           *)
(* Store::accept_pending_turn_start_notification: one transaction that      *)
(* checks receipt, marker and route, promotes the agent and resolves the    *)
(* receipt; a route projected since the caller's read conflicts, and keeps  *)
(* the receipt.                                                             *)
accept_pending_turn_start_notification(p) ==
    LET t == snap[p] IN
    /\ pc[p] = "rc_accept"
    /\ \/ /\ ~receipt
          /\ Return(p, IF activeTurn = t /\ ExactTurn(t) THEN "Reconciled" ELSE "Error")
          /\ UNCHANGED store
       \/ /\ receipt /\ marker
          /\ Goto(p, "ct_begin")
          /\ UNCHANGED <<store, snap, stage, polls>>
       \/ /\ receipt /\ ~marker /\ ~pending_turn_route_matches(turnRoute[t])
          /\ Return(p, "Error")
          /\ UNCHANGED store
       \/ /\ receipt /\ ~marker /\ pending_turn_route_matches(turnRoute[t])
          /\ receipt' = FALSE
          /\ acks' = acks + 1
          /\ activeTurn' = t
          /\ turnRoute' = [turnRoute EXCEPT ![t] = "match"]
          /\ state' = "RUNNING"
          /\ Return(p, "Reconciled")
          /\ UNCHANGED <<marker, initiated, dels, raw, lease, task, run>>
    /\ UNCHANGED <<aged, server, bounds>>

(* Mutant: the leases are released when containment is decided.             *)
begin_containment_releasing(p) ==
    /\ pc[p] = "ct_begin"
    /\ \/ /\ receipt
          /\ marker' = TRUE /\ initiated' = TRUE /\ lease' = FALSE
          /\ Goto(p, "ct_delete")
       \/ /\ ~receipt
          /\ Goto(p, "rc_receipt")
          /\ UNCHANGED <<marker, initiated, lease>>
    /\ UNCHANGED <<receipt, acks, dels, state, activeTurn, raw, turnRoute,
                   task, run, snap, stage, polls, aged, server, bounds>>

(* contain_pending_turn_start: the durable decision first ...               *)
begin_pending_turn_start_containment(p) ==
    /\ pc[p] = "ct_begin"
    /\ \/ /\ receipt
          /\ marker' = TRUE /\ initiated' = TRUE
          /\ Goto(p, "ct_delete")
       \/ /\ ~receipt
          /\ Goto(p, "rc_receipt")
          /\ UNCHANGED <<marker, initiated>>
    /\ UNCHANGED <<receipt, acks, dels, state, activeTurn, raw, turnRoute, lease,
                   task, run, snap, stage, polls, aged, server, bounds>>

(* Mutant: every thread/delete error is taken to confirm absence.           *)
ContainDeleteAnyError(p) ==
    /\ pc[p] = "ct_delete"
    /\ \/ thread' = "deleted" /\ turnLive' = FALSE
       \/ UNCHANGED <<thread, turnLive>>
    /\ Goto(p, "fz_clear")
    /\ UNCHANGED <<store, snap, stage, polls, aged, rpc, reply, srvTurn, srvRoute,
                   chan, bounds>>

(* Mutant: a failed thread/delete takes the containment decision back.      *)
ContainDeleteRollsBack(p) ==
    /\ pc[p] = "ct_delete"
    /\ \/ /\ thread' = "deleted" /\ turnLive' = FALSE
          /\ Goto(p, "fz_clear")
          /\ UNCHANGED <<marker, state, snap, stage, polls>>
       \/ /\ marker' = FALSE /\ state' = "STARTING"
          /\ UNCHANGED <<thread, turnLive>>
          /\ Return(p, "ContainmentPending")
    /\ UNCHANGED <<receipt, initiated, acks, dels, activeTurn, raw, turnRoute, lease,
                   task, run, aged, rpc, reply, srvTurn, srvRoute, chan, bounds>>

(* ... then thread/delete.  Success, or an error that confirms absence,     *)
(* finalizes; any other error retains receipt and marker and puts the agent *)
(* back to STARTING (retain_pending_turn_start_containment), whether or not *)
(* the App Server did delete the thread.  Deleting ends a running turn.     *)
ContainDeleteThread(p) ==
    /\ pc[p] = "ct_delete"
    /\ \/ /\ thread' = "deleted" /\ turnLive' = FALSE
          /\ Goto(p, "fz_clear")
          /\ UNCHANGED <<state, snap, stage, polls>>
       \/ /\ \/ thread' = "deleted" /\ turnLive' = FALSE
             \/ UNCHANGED <<thread, turnLive>>
          /\ state' = "STARTING"
          /\ Return(p, "ContainmentPending")
    /\ \/ UNCHANGED chan
       \/ /\ turnLive /\ ~turnLive'
          /\ chan' = Append(chan, [kind |-> "completed", status |-> "interrupted"])
    /\ UNCHANGED <<receipt, marker, initiated, acks, dels, activeTurn, raw,
                   turnRoute, lease, task, run, aged, rpc, reply, srvTurn,
                   srvRoute, bounds>>

(* finalize_contained_pending_turn_start and fail_contained_turn_start_task *)
(* are separate statements, so a crash can separate any two of them.        *)
FinalizeContained(p) ==
    /\ \/ /\ pc[p] = "fz_clear"
          /\ activeTurn' = NoTurn /\ Goto(p, "fz_failed")
          /\ UNCHANGED <<state, lease, task>>
       \/ /\ pc[p] = "fz_failed"
          /\ state' = "FAILED" /\ Goto(p, "fz_lease")
          /\ UNCHANGED <<activeTurn, lease, task>>
       \/ /\ pc[p] = "fz_lease"
          /\ lease' = FALSE /\ Goto(p, "fz_task")
          /\ UNCHANGED <<activeTurn, state, task>>
       \/ /\ pc[p] = "fz_task"
          /\ task' = IF task = "CANCELED" THEN task ELSE "NEEDS_HELP"
          /\ Goto(p, "fz_resolve")
          /\ UNCHANGED <<activeTurn, state, lease>>
    /\ UNCHANGED <<receipt, marker, initiated, acks, dels, raw, turnRoute, run,
                   snap, stage, polls, aged, server, bounds>>

(* Mutant: the receipt is not required to be there.                         *)
resolve_pending_turn_start_unchecked(p) ==
    /\ pc[p] = "fz_resolve"
    /\ receipt' = FALSE /\ marker' = FALSE
    /\ dels' = dels + 1
    /\ Return(p, "Contained")
    /\ UNCHANGED <<initiated, acks, state, activeTurn, raw, turnRoute, lease, task,
                   run, aged, server, bounds>>

(* Store::resolve_pending_turn_start: NotFound when another task resolved.  *)
resolve_pending_turn_start(p) ==
    /\ pc[p] = "fz_resolve"
    /\ \/ /\ receipt
          /\ receipt' = FALSE /\ marker' = FALSE
          /\ dels' = dels + 1
          /\ Return(p, "Contained")
       \/ /\ ~receipt
          /\ UNCHANGED <<receipt, marker, dels>>
          /\ Return(p, "Error")
    /\ UNCHANGED <<initiated, acks, state, activeTurn, raw, turnRoute, lease, task,
                   run, aged, server, bounds>>

-----------------------------------------------------------------------------
(* Mutant: a receipt under containment is left to whoever began it.         *)
MaintenanceSkipsContained ==
    /\ pc["maint"] = "idle"
    /\ run # "CANCELED"
    /\ receipt /\ ~marker
    /\ stage' = [stage EXCEPT !["maint"] = "first"]
    /\ Goto("maint", "rc_receipt")
    /\ UNCHANGED <<store, snap, polls, aged, server, bounds>>

(* Maintenance: reconcile_pending_turn_starts for a run that list_runs      *)
(* returns (a terminal run is filtered out).                                *)
MaintenanceReconcile ==
    /\ pc["maint"] = "idle"
    /\ run # "CANCELED"
    /\ receipt
    /\ stage' = [stage EXCEPT !["maint"] = "first"]
    /\ Goto("maint", "rc_receipt")
    /\ UNCHANGED <<store, snap, polls, aged, server, bounds>>

(* The clock passes created_at_ms + PENDING_TURN_START_CONTAINMENT_GRACE_MS *)
GraceExpires ==
    /\ receipt /\ ~aged
    /\ aged' = TRUE
    /\ UNCHANGED <<store, pc, snap, stage, polls, server, bounds>>

-----------------------------------------------------------------------------
(* The event pump: one notification at a time, ingest_codex_event.          *)

(* turn/started: append_raw_event commits before the projection.            *)
PumpTurnStarted ==
    /\ pc["pump"] = "idle"
    /\ chan # <<>> /\ Head(chan).kind = "started"
    /\ raw' = raw \cup {Head(chan).turn}
    /\ Goto("pump", "p_project")
    /\ UNCHANGED <<receipt, marker, initiated, acks, dels, state, activeTurn,
                   turnRoute, lease, task, run, snap, stage, polls, aged, server,
                   bounds>>

(* project_turn_started -> attach_codex_turn(authoritative): RUNNING and    *)
(* the active turn, whatever the state of the agent; then                   *)
(* reconcile_pending_turn_start_from_notification.                          *)
project_turn_started ==
    LET n == Head(chan) IN
    /\ pc["pump"] = "p_project"
    /\ turnRoute' = [turnRoute EXCEPT ![n.turn] =
                        IF @ \in {"norow", "null"} THEN n.route ELSE @]
    /\ activeTurn' = n.turn
    /\ state' = "RUNNING"
    /\ chan' = Tail(chan)
    /\ Goto("pump", "rc_receipt")
    /\ UNCHANGED <<receipt, marker, initiated, acks, dels, raw, lease, task, run,
                   snap, stage, polls, aged, thread, rpc, reply, srvTurn, srvRoute,
                   turnLive, bounds>>

(* Mutant: the protocol's status is stored as it came.                      *)
project_turn_completed_verbatim ==
    /\ pc["pump"] = "idle"
    /\ chan # <<>> /\ Head(chan).kind = "completed"
    /\ activeTurn' = NoTurn
    /\ state' = Head(chan).status
    /\ Goto("pump", "p_complete")
    /\ UNCHANGED <<receipt, marker, initiated, acks, dels, raw, turnRoute, lease,
                   task, run, snap, stage, polls, aged, server, bounds>>

(* turn/completed: project_turn_completed ...                               *)
project_turn_completed ==
    /\ pc["pump"] = "idle"
    /\ chan # <<>> /\ Head(chan).kind = "completed"
    /\ activeTurn' = NoTurn
    /\ state' = CASE Head(chan).status = "completed"   -> "TURN_COMPLETE"
                  [] Head(chan).status = "interrupted" -> "INTERRUPTED"
                  [] OTHER                             -> "FAILED"
    /\ Goto("pump", "p_complete")
    /\ UNCHANGED <<receipt, marker, initiated, acks, dels, raw, turnRoute, lease,
                   task, run, snap, stage, polls, aged, server, bounds>>

\* finish_stopping_run_if_idle: with no active turn, cancel_run_work and CANCELED.
FinishStopping ==
    /\ run' = "CANCELED" /\ lease' = FALSE /\ task' = "CANCELED"

(* ... then handle_turn_completed for a mutable worker.  A stopping run     *)
(* cancels the attempt; a completed turn goes through finalize_worker,      *)
(* whose custody checks accept or reject the diff; any other status fails   *)
(* the attempt and releases its leases.                                     *)
handle_turn_completed ==
    /\ pc["pump"] = "p_complete"
    /\ \/ /\ run = "STOPPING"
          /\ state' = "CANCELED"
          /\ \/ activeTurn = NoTurn /\ FinishStopping
             \/ /\ activeTurn # NoTurn
                /\ task' = "CANCELED" /\ lease' = FALSE /\ UNCHANGED run
       \/ /\ run # "STOPPING" /\ Head(chan).status = "completed"
          /\ task # "IMPLEMENTING"
          /\ UNCHANGED <<state, task, lease, run>>
       \/ /\ run # "STOPPING" /\ Head(chan).status = "completed"
          /\ task = "IMPLEMENTING"
          /\ \/ state' = "COMPLETED" /\ task' = "REVIEW_READY" /\ UNCHANGED lease
             \/ state' = "FAILED" /\ task' = "NEEDS_HELP" /\ lease' = FALSE
          /\ UNCHANGED run
       \/ /\ run # "STOPPING" /\ Head(chan).status # "completed"
          /\ state' = "FAILED" /\ lease' = FALSE
          /\ task' = IF task = "CANCELED" THEN task ELSE "NEEDS_HELP"
          /\ UNCHANGED run
    /\ chan' = Tail(chan)
    /\ Goto("pump", "idle")
    /\ UNCHANGED <<receipt, marker, initiated, acks, dels, activeTurn, raw, turnRoute,
                   snap, stage, polls, aged, thread, rpc, reply, srvTurn, srvRoute,
                   turnLive, bounds>>

\* reconcile_orphaned_sessions: a live session is lost, never failed, and its
\* leases are kept; only runs that list_runs returns are visited.
reconcile_orphaned_sessions ==
    IF run = "CANCELED" THEN UNCHANGED <<state, activeTurn, task>>
    ELSE /\ IF state \in AgentTerminal \cup {"STALLED"}
            THEN UNCHANGED <<state, activeTurn>>
            ELSE state' = "STALLED" /\ activeTurn' = NoTurn
         /\ task' = IF \/ task \in {"IMPLEMENTING", "REVIEW_READY"}
                       \/ task = "NEEDS_HELP" /\ state \notin AgentTerminal
                    THEN "STALLED" ELSE task

PumpProcessExit ==
    /\ pc["pump"] = "idle"
    /\ chan # <<>> /\ Head(chan).kind = "exit"
    /\ reconcile_orphaned_sessions
    /\ chan' = Tail(chan)
    /\ UNCHANGED <<receipt, marker, initiated, acks, dels, raw, turnRoute, lease,
                   run, procs, thread, rpc, reply, srvTurn, srvRoute, turnLive,
                   bounds>>

-----------------------------------------------------------------------------
(* The operator: stop_run(interrupt_turns).  It takes no lock that          *)
(* start_agent holds.  Without interrupt_turns it finishes at once when no  *)
(* agent of the run has an active turn (finish_stopping_run_if_idle).       *)
StopRun ==
    /\ StopAllowed
    /\ pc["operator"] = "idle" /\ run = "EXECUTING"
    /\ run' = "STOPPING"
    /\ \E interrupt_turns \in BOOLEAN :
          Goto("operator", IF interrupt_turns THEN "st_interrupt" ELSE "st_drain")
    /\ UNCHANGED <<receipt, marker, initiated, acks, dels, state, activeTurn, raw,
                   turnRoute, lease, task, snap, stage, polls, aged, server, bounds>>

(* interrupt_agent for an agent with an active turn; an error is logged.    *)
StopInterrupt ==
    /\ pc["operator"] = "st_interrupt"
    /\ Goto("operator", "st_cancel")
    /\ \/ /\ UNCHANGED <<state, task, turnLive, chan>>
       \/ /\ activeTurn # NoTurn
          /\ state \notin {"COMPLETED", "FAILED", "INTERRUPTED", "CANCELED"}
          /\ state' = "INTERRUPTED"
          /\ task' = IF task = "CANCELED" THEN task ELSE "INTERRUPTED"
          /\ turnLive' = FALSE
          /\ chan' = IF turnLive
                     THEN Append(chan, [kind |-> "completed", status |-> "interrupted"])
                     ELSE chan
    /\ UNCHANGED <<receipt, marker, initiated, acks, dels, activeTurn, raw, turnRoute,
                   lease, run, snap, stage, polls, aged, thread, rpc, reply, srvTurn,
                   srvRoute, bounds>>

(* cancel_run_work releases every lease of the run; then CANCELED.          *)
StopFinish ==
    /\ \/ pc["operator"] = "st_cancel" /\ FinishStopping
       \/ /\ pc["operator"] = "st_drain"
          /\ \/ run = "STOPPING" /\ activeTurn = NoTurn /\ FinishStopping
             \/ /\ ~(run = "STOPPING" /\ activeTurn = NoTurn)
                /\ UNCHANGED <<run, lease, task>>
    /\ Goto("operator", "idle")
    /\ UNCHANGED <<receipt, marker, initiated, acks, dels, state, activeTurn, raw,
                   turnRoute, snap, stage, polls, aged, server, bounds>>

-----------------------------------------------------------------------------
(* The App Server (external).  It may act on a request whose caller has     *)
(* given up, name a turn that is not the one it started, leave the route    *)
(* out of the notification or report another one, and answer with an error  *)
(* after the turn has begun.                                                *)
ServerStartTurn ==
    /\ rpc = "sent" /\ thread = "live"
    /\ \E t \in Turns, r \in {"null", "match", "conflict"} :
          /\ srvTurn' = t /\ srvRoute' = r
          /\ chan' = Append(chan, [kind |-> "started", turn |-> t, route |-> r])
    /\ turnLive' = TRUE
    /\ rpc' = "handled"
    /\ UNCHANGED <<store, procs, thread, reply, bounds>>

ServerAnswer ==
    /\ rpc = "handled" /\ reply = "none" /\ pc["launcher"] = "l_wait"
    /\ reply' \in Turns \cup {"noid"}
    /\ AnswerNamesTurn => reply' \in {srvTurn, "noid"}
    /\ UNCHANGED <<store, procs, thread, rpc, srvTurn, srvRoute, turnLive, chan, bounds>>

ServerTurnEnds ==
    /\ turnLive
    /\ turnLive' = FALSE
    /\ \E s \in {"completed", "failed"} :
          chan' = Append(chan, [kind |-> "completed", status |-> s])
    /\ UNCHANGED <<store, procs, thread, rpc, reply, srvTurn, srvRoute, bounds>>

(* The process dies: its turns die with it, an unanswered request fails     *)
(* (child_watcher drains the pending map) and the exit is queued.           *)
ServerExit ==
    /\ exits < MaxExits
    /\ exits' = exits + 1
    /\ turnLive' = FALSE
    /\ rpc' = IF rpc = "sent" THEN "handled" ELSE rpc
    /\ reply' = "none"
    /\ chan' = Append(chan, [kind |-> "exit"])
    /\ UNCHANGED <<store, procs, thread, srvTurn, srvRoute, crashes>>

(* The daemon dies (its App Server is a child with kill_on_drop) and        *)
(* restarts: Orchestrator::new ends in reconcile_orphaned_sessions.         *)
CrashRestart ==
    /\ crashes < MaxCrashes
    /\ crashes' = crashes + 1
    /\ pc' = [p \in Procs |-> IF p = "launcher" THEN "l_done" ELSE "idle"]
    /\ stage' = [p \in Procs |-> "first"]
    /\ snap' = [p \in Procs |-> NoTurn]
    /\ polls' = 0
    /\ turnLive' = FALSE
    /\ rpc' = IF rpc = "sent" THEN "handled" ELSE rpc
    /\ reply' = "none"
    /\ chan' = <<>>
    /\ reconcile_orphaned_sessions
    /\ UNCHANGED <<receipt, marker, initiated, acks, dels, raw, turnRoute, lease, run,
                   aged, thread, srvTurn, srvRoute, exits>>

-----------------------------------------------------------------------------
Launcher ==
    \/ LauncherStartThread \/ LauncherSetGoal \/ record_pending_turn_start
    \/ LauncherSendTurnStart \/ LauncherTakeAnswer
    \/ ResponseReadReceipt \/ ResponseReadMarker \/ ResponseReadAgent
    \/ record_pending_turn_start_response \/ LauncherFailed

Resolve(p) ==
    \/ ReconcileReadReceipt(p) \/ ReconcileReadMarker(p) \/ ReconcileReadAgent(p)
    \/ accept_pending_turn_start_notification(p)
    \/ begin_pending_turn_start_containment(p) \/ ContainDeleteThread(p)
    \/ FinalizeContained(p) \/ resolve_pending_turn_start(p)

Pump == PumpTurnStarted \/ project_turn_started \/ project_turn_completed
        \/ handle_turn_completed \/ PumpProcessExit

Operator == StopRun \/ StopInterrupt \/ StopFinish

Environment == \/ GraceExpires \/ ServerStartTurn \/ ServerAnswer \/ ServerTurnEnds
               \/ ServerExit \/ CrashRestart

Next ==
    \/ Launcher
    \/ \E p \in {"launcher", "pump", "maint"} : Resolve(p)
    \/ MaintenanceReconcile
    \/ Pump
    \/ Operator
    \/ Environment

Spec == Init /\ [][Next]_vars

(* The maintenance ticker fires forever, time passes, and a thread/delete   *)
(* that is retried forever succeeds once.  Nothing is assumed of the        *)
(* launcher, the pump, the operator, the App Server or of failures.         *)
DeleteSucceeds(p) == ContainDeleteThread(p) /\ pc'[p] = "fz_clear"

MaintenanceFairness ==
    /\ WF_vars(MaintenanceReconcile)
    /\ WF_vars(GraceExpires)
    /\ WF_vars(Resolve("maint"))
    /\ SF_vars(DeleteSucceeds("maint"))

MaintenanceFairSpec == Spec /\ MaintenanceFairness

(* In addition every other task of the daemon is scheduled (tokio).         *)
FairSpec ==
    /\ MaintenanceFairSpec
    /\ WF_vars(Launcher) /\ WF_vars(Pump)
    /\ \A p \in {"launcher", "pump"} :
          WF_vars(Resolve(p)) /\ SF_vars(DeleteSucceeds(p))

-----------------------------------------------------------------------------
\* Types of the rows, of the tasks' locals, and of the App Server and its pipe.
StoreTypes ==
    /\ receipt \in BOOLEAN /\ marker \in BOOLEAN /\ initiated \in BOOLEAN
    /\ acks \in Nat /\ dels \in Nat
    /\ state \in AgentStates /\ activeTurn \in Turns \cup {NoTurn}
    /\ raw \subseteq Turns /\ turnRoute \in [Turns -> Routes]
    /\ lease \in BOOLEAN /\ task \in TaskStates /\ run \in RunStates
ProcTypes ==
    /\ pc \in [Procs -> Locs]
    /\ snap \in [Procs -> Turns \cup {NoTurn}]
    /\ stage \in [Procs -> {"first", "final"}]
    /\ polls \in Nat /\ aged \in BOOLEAN
ServerTypes ==
    /\ thread \in {"none", "live", "deleted"}
    /\ rpc \in {"none", "sent", "handled"}
    /\ reply \in Turns \cup {"none", "noid"}
    /\ srvTurn \in Turns \cup {NoTurn} /\ srvRoute \in {"null", "match", "conflict"}
    /\ turnLive \in BOOLEAN /\ chan \in Seq(Notifications)
    /\ crashes \in Nat /\ exits \in Nat

(* Every row and every local variable of the tasks keeps its type; the      *)
(* session state is always a state of the controller, never the status      *)
(* string the protocol reported.                                            *)
TypeOK == StoreTypes /\ ProcTypes /\ ServerTypes

(* A turn start is resolved at most once, whichever of the three tasks gets *)
(* there first: exactly one agent.turn_start.resolved event.                *)
ResolvedOnce == acks + dels <= 1

(* Once begin_pending_turn_start_containment has committed, no notification *)
(* and no response, however late, makes the start acknowledged.             *)
ContainmentIrreversible == initiated => acks = 0

(* A turn that may be editing files is always accounted for: its receipt is *)
(* still there to be recovered, or it has been acknowledged.  In particular *)
(* a start is never reported contained while its turn runs.                 *)
NoUntrackedTurn == turnLive => receipt \/ acks = 1

(* A start is acknowledged only when the raw `turn/started` notification of *)
(* the turn is on record: an RPC answer alone never resolves the receipt.   *)
AcknowledgedTurnObserved == acks = 1 => srvTurn \in raw

(* The write leases of the attempt are held as long as its turn may run,    *)
(* unless the operator has stopped the run.                                 *)
LeaseCoversTurn == turnLive /\ run = "EXECUTING" => lease

(* start_agent reports failure, upon which start_task releases the leases,  *)
(* only when no turn of the session can be running.                         *)
FailureMeansNoTurn == pc["launcher"] \in {"l_err", "l_err_task"} => ~turnLive

(* What the launch reports is so: an acknowledged turn was observed, and    *)
(* after a failure none runs.                                               *)
ReportsTruthful == AcknowledgedTurnObserved /\ FailureMeansNoTurn

(* Every receipt is eventually resolved, as long as the run is not canceled *)
(* under it: by its notification, or by containment.  Maintenance alone     *)
(* guarantees it, even if launcher and pump hang.                           *)
ReceiptResolved == receipt ~> (~receipt \/ run = "CANCELED")

(* The custody phase the database records.                                  *)
custodyPhase == IF dels = 1 THEN "contained"
                ELSE IF acks = 1 THEN "acknowledged"
                ELSE IF marker THEN "containing"
                ELSE IF receipt THEN "pending" ELSE "unsent"

Custody == INSTANCE LaunchCustody WITH phase <- custodyPhase, live <- turnLive

(* Every interleaving of launcher, pump, maintenance, operator, crashes and *)
(* App Server behaviour is a behaviour of the custody specification: the    *)
(* phases are passed in order, none is revisited, and a turn begins only    *)
(* while its launch is open.                                                *)
ImplementsCustody == Custody!CustodySpec

(* Refuted: "until the raw `turn/started` packet proves the exact actual    *)
(* route", a start is acknowledged only if the notification's route does    *)
(* not differ from the receipt's.                                           *)
AcknowledgedRouteProven == acks = 1 => srvRoute # "conflict"

(* "cannot be reversed by a delayed notification": an agent whose start was *)
(* contained stays FAILED.                                                  *)
ContainedStaysFailed == [][dels = 1 /\ state = "FAILED" => state' = "FAILED"]_vars
=============================================================================
