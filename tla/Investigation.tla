--------------------------- MODULE Investigation ---------------------------
(***************************************************************************)
(* One read-only investigation task: its launch by tick, the answers and   *)
(* the end of its turn as the pump handles them, the durable deadline that *)
(* tick and maintenance enforce, the immutable artifact and the lifecycle  *)
(* rows that follow it, a stop or an interrupt by the operator, the loss   *)
(* of the App Server and of the daemon.                                    *)
(*                                                                         *)
(* operation_lock serialises intake, turn completion and enforcement; the  *)
(* operator's commands and the reconciliation of lost sessions take no     *)
(* lock.  The other tasks of the run are left out.                         *)
(***************************************************************************)
EXTENDS Naturals, Sequences

CONSTANTS
    Answers,     \* responses that satisfy schema and evidence
    MaxAnswers,  \* bound on answers of the turn
    MaxFaults,   \* bound on failed writes, worktree edits, exits and crashes
    MaxCommands  \* bound on the operator's commands

VARIABLES
    run,       \* state of the run
    task,      \* state of the task
    attempt,   \* state of its attempt
    agent,     \* state of the investigator's session
    turn,      \* the App Server runs the turn; the session has an active turn
    wire,      \* notifications the pump has not handled
    worktree,  \* state of the worktree, and whether it was changed
    deadline,  \* runtime_metadata investigation-deadline: present, passed
    artifact,  \* the investigation_artifacts row: its answer, admitted to an open session
    receipts,  \* both completion receipts exist
    overruled, \* a deadline failed an attempt whose artifact was recorded
    lock,      \* operation_lock: its holder
    pc,        \* programs in progress
    spent      \* bounds consumed

rows == <<run, task, attempt, agent, worktree, deadline, artifact, receipts>>
investigationVars == <<rows, turn, wire, overruled, lock, pc, spent>>

Enforcers == {"tick", "maintenance"}
Idle == [at |-> "idle", about |-> "none"]
NoArtifact == [answer |-> "none", open |-> TRUE]
Malformed == "malformed"

TaskTerminal == task \in {"CLOSED", "CANCELED"}
Terminal == agent \in {"COMPLETED", "FAILED"}
agent_state_consumes_capacity == agent \in {"STARTING", "RUNNING"}
At(p, s) == pc[p].at = s
Goes(p, s, about) == pc' = [pc EXCEPT ![p] = [at |-> s, about |-> about]]
Unlock(p) == lock' = "none" /\ Goes(p, "idle", "none")
Fault == spent.faults < MaxFaults /\ spent' = [spent EXCEPT !.faults = @ + 1]
Legal(next) == IF TaskTerminal THEN task ELSE next

-----------------------------------------------------------------------------
(* tick launches the task under operation_lock.                            *)
create_task_attempt ==
    /\ run = "EXECUTING" /\ task = "READY" /\ lock = "none" /\ At("tick", "idle")
    /\ task' = "LEASED" /\ attempt' = "LEASED" /\ lock' = "tick"
    /\ Goes("tick", "worktree", "none")
    /\ UNCHANGED <<run, agent, worktree, deadline, artifact, receipts, turn, wire, overruled, spent>>

start_investigation_task ==
    /\ At("tick", "worktree")
    /\ \/ /\ worktree' = [worktree EXCEPT !.state = "ACTIVE"] /\ agent' = "STARTING"
          /\ deadline' = [deadline EXCEPT !.present = TRUE] /\ task' = Legal("IMPLEMENTING")
          /\ Goes("tick", "start", "none")
          /\ UNCHANGED <<run, attempt, artifact, receipts, turn, wire, overruled, lock, spent>>
       \/ /\ Fault /\ attempt' = "FAILED" /\ task' = Legal("NEEDS_HELP") /\ Unlock("tick")
          /\ UNCHANGED <<run, agent, worktree, deadline, artifact, receipts, turn, wire, overruled>>

(* The context, the readable scope or the runtime refuses the launch.      *)
LaunchRefused == Fault
start_agent ==
    /\ At("tick", "start")
    /\ \/ /\ agent' = "RUNNING" /\ turn' = [live |-> TRUE, active |-> TRUE] /\ Unlock("tick")
          /\ UNCHANGED <<run, task, attempt, worktree, deadline, artifact, receipts, wire, overruled, spent>>
       \/ /\ LaunchRefused /\ agent' = "FAILED" /\ worktree' = [worktree EXCEPT !.state = "PRESERVED"]
          /\ attempt' = "FAILED" /\ task' = Legal("NEEDS_HELP")
          /\ deadline' = [deadline EXCEPT !.present = FALSE] /\ Unlock("tick")
          /\ UNCHANGED <<run, artifact, receipts, turn, wire, overruled>>

-----------------------------------------------------------------------------
(* What the App Server does with the turn.                                 *)
TurnAnswers(r) ==
    /\ turn.live /\ spent.answers < MaxAnswers
    /\ wire' = Append(wire, <<"answer", r>>) /\ spent' = [spent EXCEPT !.answers = @ + 1]
    /\ UNCHANGED <<rows, turn, overruled, lock, pc>>
TurnEnds(status) ==
    /\ turn.live /\ wire' = Append(wire, <<"done", status>>)
    /\ turn' = [turn EXCEPT !.live = FALSE]
    /\ UNCHANGED <<rows, overruled, lock, pc, spent>>
WorktreeEdited ==
    /\ turn.live /\ ~worktree.dirty /\ Fault /\ worktree' = [worktree EXCEPT !.dirty = TRUE]
    /\ UNCHANGED <<run, task, attempt, agent, deadline, artifact, receipts, turn, wire, overruled, lock, pc>>
DeadlinePasses ==
    /\ deadline.present /\ ~deadline.passed /\ deadline' = [deadline EXCEPT !.passed = TRUE]
    /\ UNCHANGED <<run, task, attempt, agent, worktree, artifact, receipts, turn, wire, overruled, lock, pc, spent>>

-----------------------------------------------------------------------------
(* fail_investigation_response clears the session first; the task, the     *)
(* worktree and the attempt follow, unless the task's transition has       *)
(* become illegal.  best_effort_interrupt_investigation comes after the    *)
(* lock and may not arrive.                                                *)
Failing(interrupts) == [help |-> ~TaskTerminal, interrupts |-> interrupts /\ turn.active]
FailSession(p, interrupts) ==
    /\ agent' = "FAILED" /\ deadline' = [deadline EXCEPT !.present = FALSE]
    /\ turn' = [turn EXCEPT !.active = FALSE]
    /\ lock' = p /\ Goes(p, "fail", Failing(interrupts))
best_effort_interrupt(interrupts) ==
    \/ /\ interrupts /\ turn.live /\ turn' = [turn EXCEPT !.live = FALSE]
       /\ wire' = Append(wire, <<"done", "interrupted">>)
    \/ UNCHANGED <<turn, wire>>
fail_investigation_response(p) ==
    /\ At(p, "fail") /\ Unlock(p) /\ best_effort_interrupt(pc[p].about.interrupts)
    /\ IF pc[p].about.help /\ TaskTerminal
         THEN UNCHANGED <<task, worktree, attempt>>
         ELSE /\ task' = IF pc[p].about.help THEN "NEEDS_HELP" ELSE task
              /\ worktree' = [worktree EXCEPT !.state = "PRESERVED"]
              /\ attempt' = "FAILED"
    /\ UNCHANGED <<run, agent, deadline, artifact, receipts, overruled, spent>>

(* Store::finalize_investigation_artifact_lifecycle: one transaction.      *)
Bound == /\ task \in {"LEASED", "IMPLEMENTING", "NEEDS_HELP", "STALLED", "INTERRUPTED", "CLOSED"}
         /\ attempt \in {"LEASED", "FAILED", "COMPLETED"}
         /\ agent \in {"STARTING", "RUNNING", "FAILED", "COMPLETED"}
LifecycleCompleted == task = "CLOSED" /\ attempt = "COMPLETED" /\ agent = "COMPLETED"
                      /\ worktree.state = "PRESERVED"
record_investigation_completion_event == receipts' = TRUE
LifecycleClosedFirst ==
    /\ task' = "CLOSED" /\ record_investigation_completion_event
    /\ UNCHANGED <<attempt, agent, worktree, turn, deadline>>
Converge ==
    /\ worktree' = [worktree EXCEPT !.state = "PRESERVED"]
    /\ attempt' = "COMPLETED" /\ task' = "CLOSED" /\ agent' = "COMPLETED"
    /\ record_investigation_completion_event
    /\ turn' = [turn EXCEPT !.active = FALSE]
    /\ deadline' = [deadline EXCEPT !.present = FALSE]
finalize_lifecycle ==
    IF Bound /\ ~LifecycleCompleted
      THEN Converge /\ UNCHANGED <<run, artifact>>
      ELSE UNCHANGED <<rows, turn>>

-----------------------------------------------------------------------------
(* The pump: item/completed.                                               *)
Message == Head(wire)
TakeMessage == wire' = Tail(wire)

Replays(r) == artifact.answer = r
Refused(r) == r = Malformed \/ (artifact.answer # "none" /\ ~Replays(r))
InTime == deadline.present /\ ~deadline.passed
accept_investigation_response ==
    /\ wire # <<>> /\ Message[1] = "answer" /\ At("pump", "idle") /\ lock = "none"
    /\ LET r == Message[2] IN
       \/ /\ Terminal /\ (Refused(r) \/ artifact.answer = "none") /\ TakeMessage
          /\ UNCHANGED <<rows, turn, overruled, lock, pc, spent>>
       \/ /\ ~Refused(r) /\ Replays(r) /\ TakeMessage
          /\ lock' = "pump" /\ Goes("pump", "finalize", "none")
          /\ UNCHANGED <<rows, turn, overruled, spent>>
       \/ /\ ~Terminal /\ ~Refused(r) /\ artifact.answer = "none"
          /\ InTime /\ TakeMessage
          /\ lock' = "pump" /\ Goes("pump", "inspect", r)
          /\ UNCHANGED <<rows, turn, overruled, spent>>
       \/ /\ ~Terminal /\ Refused(r) /\ TakeMessage /\ FailSession("pump", FALSE)
          /\ UNCHANGED <<run, task, attempt, worktree, artifact, receipts, overruled, spent>>
       \/ /\ ~Terminal /\ ~Refused(r) /\ artifact.answer = "none"
          /\ ~InTime /\ TakeMessage /\ FailSession("pump", TRUE)
          /\ UNCHANGED <<run, task, attempt, worktree, artifact, receipts, overruled, spent>>

(* reconcile_investigation_worktree inspects the worktree; the artifact is *)
(* recorded after it.                                                      *)
reconcile_investigation_worktree ==
    /\ At("pump", "inspect") /\ worktree.dirty /\ FailSession("pump", TRUE)
    /\ UNCHANGED <<run, task, attempt, worktree, artifact, receipts, wire, overruled, spent>>
Artifact(r) == [answer |-> r, open |-> agent # "FAILED"]
record_investigation_artifact ==
    /\ At("pump", "inspect") /\ ~worktree.dirty
    /\ artifact' = Artifact(pc["pump"].about)
    /\ Goes("pump", "finalize", "none")
    /\ UNCHANGED <<run, task, attempt, agent, worktree, deadline, receipts, turn, wire, overruled, lock, spent>>
finalize_investigation_artifact_lifecycle ==
    /\ At("pump", "finalize") /\ Unlock("pump")
    /\ \/ finalize_lifecycle /\ UNCHANGED <<wire, overruled, spent>>
       \/ Fault /\ UNCHANGED <<rows, turn, wire, overruled>>

-----------------------------------------------------------------------------
(* The pump: turn/completed.  The projection writes the session's state    *)
(* before the handler reads it.                                            *)
project_turn_completed ==
    /\ wire # <<>> /\ Message[1] = "done" /\ At("pump", "idle")
    /\ turn' = [turn EXCEPT !.active = FALSE] /\ wire' = Tail(wire)
    /\ agent' = CASE Message[2] = "completed"   -> "TURN_COMPLETE"
                  [] Message[2] = "interrupted" -> "INTERRUPTED"
                  [] OTHER                      -> "FAILED"
    /\ Goes("pump", "completed", Message[2])
    /\ UNCHANGED <<run, task, attempt, worktree, deadline, artifact, receipts, overruled, lock, spent>>

Cancel == /\ task' = Legal("CANCELED") /\ run' = "CANCELED"
          /\ worktree' = [worktree EXCEPT !.state = IF @ = "none" THEN @ ELSE "PRESERVED"]
turn_completed_read ==
    /\ At("pump", "completed")
    /\ \/ /\ Terminal /\ Goes("pump", "terminal", pc["pump"].about)
          /\ UNCHANGED <<rows, turn>>
       \/ /\ ~Terminal /\ run = "STOPPING" /\ Cancel
          /\ attempt' = "CANCELED" /\ agent' = "CANCELED" /\ Goes("pump", "idle", "none")
          /\ UNCHANGED <<deadline, artifact, receipts, turn>>
       \/ /\ ~Terminal /\ run # "STOPPING" /\ Goes("pump", "ending", pc["pump"].about)
          /\ UNCHANGED <<rows, turn>>
    /\ UNCHANGED <<wire, overruled, lock, spent>>

ValidCallback == artifact.answer # "none" /\ ~(agent = "COMPLETED" /\ pc["pump"].about # "completed")
validate_terminal_investigation_callback ==
    /\ \/ At("pump", "terminal")
       \/ At("pump", "ending") /\ Terminal
    /\ lock = "none" /\ Goes("pump", "idle", "none")
    /\ IF ValidCallback THEN finalize_lifecycle ELSE UNCHANGED <<rows, turn>>
    /\ UNCHANGED <<wire, overruled, lock, spent>>
handle_turn_completed ==
    /\ At("pump", "ending") /\ ~Terminal /\ lock = "none" /\ FailSession("pump", FALSE)
    /\ UNCHANGED <<run, task, attempt, worktree, artifact, receipts, wire, overruled, spent>>

-----------------------------------------------------------------------------
(* enforce_investigation_deadlines, called by tick and by maintenance.     *)
Expired == agent_state_consumes_capacity /\ (~deadline.present \/ deadline.passed)
RecoverableActive == artifact.answer # "none" /\ agent_state_consumes_capacity
Recoverable == artifact.answer # "none" /\ (agent_state_consumes_capacity \/ agent = "FAILED")
EnforceableUnread == Expired /\ lock = "none"
EnforceableUnlocked == Expired /\ ~Recoverable
Enforceable == Expired /\ ~Recoverable /\ lock = "none"
enforce_deadline(p) ==
    /\ run # "CANCELED" /\ At(p, "idle") /\ Enforceable /\ FailSession(p, TRUE)
    /\ overruled' = (overruled \/ artifact.answer # "none")
    /\ UNCHANGED <<run, task, attempt, worktree, artifact, receipts, wire, spent>>
recover_artifact(p) ==
    /\ run # "CANCELED" /\ lock = "none" /\ At(p, "idle") /\ Recoverable
    /\ ~LifecycleCompleted /\ Bound
    /\ finalize_lifecycle /\ UNCHANGED <<wire, overruled, lock, pc, spent>>

-----------------------------------------------------------------------------
(* The operator, without a lock.                                           *)
Command == spent.commands < MaxCommands /\ spent' = [spent EXCEPT !.commands = @ + 1]
stop_run(mode) ==
    /\ Command /\ run = "EXECUTING" /\ run' = "STOPPING" /\ Goes("operator", mode, "none")
    /\ UNCHANGED <<task, attempt, agent, worktree, deadline, artifact, receipts, turn, wire, overruled, lock>>
Interrupted ==
    /\ turn.active /\ turn.live /\ turn' = [turn EXCEPT !.live = FALSE]
    /\ wire' = Append(wire, <<"done", "interrupted">>)
    /\ agent' = "INTERRUPTED" /\ task' = Legal("INTERRUPTED") /\ attempt' = "INTERRUPTED"
interrupt_agent ==
    /\ Command /\ Interrupted
    /\ UNCHANGED <<run, worktree, deadline, artifact, receipts, overruled, lock, pc>>
stop_interrupts ==
    /\ At("operator", "interrupt") /\ Goes("operator", "cancel", "none")
    /\ \/ /\ ~Terminal /\ agent # "CANCELED" /\ Interrupted
          /\ UNCHANGED <<run, worktree, deadline, artifact, receipts>>
       \/ UNCHANGED <<rows, turn, wire>>
    /\ UNCHANGED <<overruled, lock, spent>>
cancel_run_work ==
    /\ At("operator", "cancel") /\ Cancel /\ Goes("operator", "idle", "none")
    /\ UNCHANGED <<attempt, agent, deadline, artifact, receipts, turn, wire, overruled, lock, spent>>
finish_stopping_run_if_idle ==
    /\ At("operator", "drain") /\ Goes("operator", "idle", "none")
    /\ IF run = "STOPPING" /\ ~turn.active THEN Cancel ELSE UNCHANGED <<run, task, worktree>>
    /\ UNCHANGED <<attempt, agent, deadline, artifact, receipts, turn, wire, overruled, lock, spent>>

-----------------------------------------------------------------------------
(* reconcile_orphaned_sessions, after an exit and after a restart.         *)
Lost == agent \in {"STARTING", "RUNNING", "STALLED"}
TaskActive == task \in {"LEASED", "IMPLEMENTING", "STALLED"}
Stalls == TaskActive \/ (Lost /\ task = "NEEDS_HELP")
reconcile_orphaned_sessions ==
    IF run = "CANCELED" THEN UNCHANGED rows
    ELSE /\ agent' = IF Lost THEN "STALLED" ELSE agent
         /\ task' = IF Stalls THEN "STALLED" ELSE task
         /\ attempt' = IF Stalls THEN "STALLED" ELSE attempt
         /\ worktree' = [worktree EXCEPT !.state = IF Stalls /\ @ # "none" THEN "PRESERVED" ELSE @]
         /\ UNCHANGED <<run, deadline, artifact, receipts>>
AppServerExits ==
    /\ turn.live /\ Fault /\ turn' = [turn EXCEPT !.live = FALSE]
    /\ wire' = Append(wire, <<"exit", "none">>) /\ UNCHANGED <<rows, overruled, lock, pc>>
ProcessExit ==
    /\ wire # <<>> /\ Message[1] = "exit" /\ At("pump", "idle") /\ wire' = Tail(wire)
    /\ reconcile_orphaned_sessions
    /\ turn' = [turn EXCEPT !.active = IF Lost THEN FALSE ELSE @]
    /\ UNCHANGED <<overruled, lock, pc, spent>>
Crash ==
    /\ Fault /\ reconcile_orphaned_sessions
    /\ wire' = <<>> /\ turn' = [live |-> FALSE, active |-> turn.active /\ ~Lost]
    /\ lock' = "none" /\ pc' = [p \in DOMAIN pc |-> Idle] /\ UNCHANGED overruled

-----------------------------------------------------------------------------
Init ==
    /\ run = "EXECUTING" /\ task = "READY" /\ attempt = "none" /\ agent = "none"
    /\ turn = [live |-> FALSE, active |-> FALSE] /\ wire = <<>>
    /\ worktree = [state |-> "none", dirty |-> FALSE]
    /\ deadline = [present |-> FALSE, passed |-> FALSE]
    /\ artifact = NoArtifact /\ receipts = FALSE /\ overruled = FALSE /\ lock = "none"
    /\ pc = [p \in Enforcers \cup {"pump", "operator"} |-> Idle]
    /\ spent = [answers |-> 0, faults |-> 0, commands |-> 0]

Launch == create_task_attempt \/ start_investigation_task \/ start_agent
Pump ==
    \/ accept_investigation_response \/ reconcile_investigation_worktree
    \/ record_investigation_artifact \/ finalize_investigation_artifact_lifecycle
    \/ project_turn_completed \/ turn_completed_read \/ ProcessExit
    \/ validate_terminal_investigation_callback \/ handle_turn_completed
    \/ fail_investigation_response("pump")
Enforce(p) == enforce_deadline(p) \/ recover_artifact(p) \/ fail_investigation_response(p)
AppServer ==
    \/ \E r \in Answers \cup {Malformed} : TurnAnswers(r)
    \/ \E s \in {"completed", "failed"} : TurnEnds(s)
    \/ WorktreeEdited \/ AppServerExits
Operator ==
    \/ \E m \in {"interrupt", "drain"} : stop_run(m)
    \/ interrupt_agent \/ stop_interrupts \/ cancel_run_work \/ finish_stopping_run_if_idle
Next ==
    \/ Launch \/ Pump \/ AppServer \/ Operator \/ DeadlinePasses \/ Crash
    \/ \E p \in Enforcers : Enforce(p)
Spec == Init /\ [][Next]_investigationVars

(* The event pump drains its channel and the maintenance loop runs every   *)
(* few seconds, whatever the App Server does.                              *)
Fairness == WF_investigationVars(Pump) /\ WF_investigationVars(Enforce("maintenance"))
FairSpec == Spec /\ Fairness

-----------------------------------------------------------------------------
(* A task is closed exactly when an artifact proves it: its completion     *)
(* receipts exist, the deadline is gone, and it happened in one step.      *)
ClosedMeansProven ==
    /\ receipts = (task = "CLOSED")
    /\ task = "CLOSED" => artifact.answer # "none" /\ ~deadline.present

(* The deadline and the response race for the same session and one of them *)
(* wins: an artifact is recorded only for a session that has not failed,   *)
(* and a deadline fails only an attempt without an artifact.               *)
DeadlineOrArtifact == ~overruled /\ artifact.open

(* Safety of the investigation lifecycle.                                  *)
InvestigationCustody == ClosedMeansProven /\ DeadlineOrArtifact

(* Without a fault or a command, an artifact once recorded ends with every *)
(* lifecycle row completed, whatever answers follow and however the turn   *)
(* ends.                                                                   *)
Undisturbed == spent.faults = 0 /\ spent.commands = 0
Unconverged == artifact.answer # "none" /\ ~LifecycleCompleted /\ Undisturbed
ArtifactConverges == Unconverged ~> ~Unconverged

(* "turn/completed ... must not convert that accepted artifact into a      *)
(* failed attempt": an attempt with completion receipts is never failed.   *)
AcceptedStaysAccepted == receipts => attempt # "FAILED"

(* "It is safe to call after restart": an artifact without its lifecycle   *)
(* rows waits in states the recovery accepts.                              *)
ArtifactRecoverable ==
    (artifact.answer # "none" /\ task # "CLOSED" /\ spent.commands = 0 /\ lock = "none")
        => Recoverable /\ Bound
=============================================================================
