------------------------- MODULE TaskExecutionMoves -------------------------
(***************************************************************************)
(* How a step of TaskExecution moves the calls of the daemon, the rows of  *)
(* a task and its sessions.  The invariants are proved in                  *)
(* TaskExecutionProofs from these facts, not from the forty actions.       *)
(***************************************************************************)
EXTENDS TaskExecution, FiniteSetTheorems, TLAPS

Ticking   == {"tk_count", "tk_review", "tk_start", "tk_github", "st_deps", "st_create",
              "st_lease", "st_session", "st_agent", "st_undo", "st_err"}
Launching == {"st_lease", "st_session", "st_agent", "st_undo", "st_err"}
Choosing  == {"tk_start", "tk_github", "st_deps", "st_create"} \cup Launching
Reviewing == {"rv_check", "rv_gate", "rv_validate", "rv_reject", "rv_changes",
              "rv_capacity", "rv_session", "rv_agent"}
Gated     == {"rv_reject", "rv_changes", "rv_capacity", "rv_session", "rv_agent"}
Judging   == {"vd_accept", "vd_reject", "vd_next"}
Handling  == Reviewing \cup Judging \cup {"ev_done", "ev_failed", "fw_git"}
StopCalls == {"sr_interrupt", "sr_drain", "sr_tasks", "sr_leases"}

Unstarted == {"WAITING_DEPENDENCY", "READY", "WAITING_RESOURCE"}
Early     == {"LEASED", "STARTING", "IMPLEMENTING"}

(* The run has been stopped.                                                *)
GivenUp == run \in {"STOPPING", "CANCELED"}

(* A call that does not step keeps its place.                               *)
Same(q) == pc'[q] = pc[q] /\ loc'[q] = loc[q]

(* What a step of one call may do to another's: nothing, or, when the       *)
(* daemon restarts, end it.                                                 *)
Reset(q) == pc'[q] = "idle" /\ loc'[q] = NoLocals

-----------------------------------------------------------------------------
(* TaskState::can_transition_to, as far as the handlers use it.             *)
LEMMA Transitions ==
    ASSUME NEW s \in TaskStates
    PROVE  /\ can_transition_to(s, "STARTING") => s \in {"LEASED", "STARTING"}
           /\ can_transition_to(s, "REVIEW_READY") => s \in {"IMPLEMENTING", "REVIEW_READY"}
           /\ can_transition_to(s, "VERIFYING") => s \in {"REVIEW_READY", "VERIFYING"}
           /\ s \in Early => \A n \in Suspended : Unless(s, n) = n
           /\ \A n \in TaskStates : Unless(s, n) \in {s, n}
  BY DEF can_transition_to, Progress, Unless, Early, Terminal, Suspended

(* Every call but the one that steps keeps its place.                       *)
LEMMA CallMoves ==
    ASSUME CallTypes, Next, NEW q \in Procs
    PROVE  \/ Same(q)
           \/ q \in {"maint", "pump"} /\ (Tick(q) \/ Start(q))
           \/ Review(q)
           \/ q = "maint" /\ MaintenanceTick
           \/ q = "pump" /\ Pump
           \/ q \in Operators /\ Operator(q)
           \/ CrashRestart /\ Reset(q)
  <1>a. pc \in [Procs -> Labels] /\ loc \in [Procs -> Locals] /\ q \in Procs
    BY DEF CallTypes
  <1>1. ASSUME NEW p \in Procs \ {q}, Finish(p) \/ (\E l : Stay(p, l) \/ (Goto(p, l) /\ UNCHANGED loc))
        PROVE  Same(q)
    BY <1>a, <1>1 DEF Same, Finish, Stay, Goto
  <1>2. ASSUME NEW p \in Procs \ {q}, NEW l, Goto(p, l), NEW r, loc' = [loc EXCEPT ![p] = r]
        PROVE  Same(q)
    BY <1>a, <1>2 DEF Same, Goto
  <1>3. ASSUME NEW p \in Procs \ {q}, Tick(p) PROVE Same(q)
    <2>1. CASE TickBegin(p) \/ TickGithub(p)
      BY <1>1, <2>1 DEF TickBegin, TickGithub, github_capability
    <2>2. CASE TickCount(p)
      BY <1>1, <1>2, <2>2 DEF TickCount
    <2>3. CASE TickReviewNext(p)
      BY <1>a, <2>3 DEF TickReviewNext, Same, Goto
    <2>4. CASE TickStartNext(p)
      BY <1>a, <1>1, <2>4 DEF TickStartNext, Same, Goto
    <2> QED BY <1>3, <2>1, <2>2, <2>3, <2>4 DEF Tick
  <1>4. ASSUME NEW p \in Procs \ {q}, Start(p) PROVE Same(q)
    <2>1. CASE StartAgent(p)
      BY <1>a, <1>1, <2>1 DEF StartAgent, Same, Goto
    <2> QED BY <1>1, <1>4, <2>1 DEF Start, StartCheck, create_task_attempt, StartWorktreeFails,
              acquire_path_leases, StartSession, StartFailed
  <1>5. ASSUME NEW p \in Procs \ {q}, NEW n, ReviewReturn(p, n) PROVE Same(q)
    BY <1>a, <1>1, <1>5 DEF ReviewReturn, Same, Goto
  <1>6. ASSUME NEW p \in Procs \ {q}, Review(p) PROVE Same(q)
    <2>1. CASE ReviewSession(p)
      BY <1>a, <1>1, <2>1 DEF ReviewSession, Same, Goto
    <2> QED BY <1>1, <1>5, <1>6, <2>1 DEF Review, ReviewCheck, GateBegins,
              run_review_ready_validation_gate, ReviewGateRejects, ReviewCapacity, ReviewAgent
  <1>7. ASSUME Pump, q # "pump" PROVE Same(q)
    <2>a. "pump" \in Procs \ {q}
      BY <1>7 DEF Procs
    <2>1. CASE PumpProgress
      BY <2>1 DEF PumpProgress, Same
    <2>2. CASE PumpTurnCompleted \/ PumpVerdict
      BY <1>a, <2>a, <2>2 DEF PumpTurnCompleted, PumpVerdict, Same, Goto
    <2>3. CASE VerdictMovesOn
      BY <1>1, <1>2, <2>a, <2>3 DEF VerdictMovesOn
    <2> QED BY <1>1, <1>7, <2>a, <2>1, <2>2, <2>3 DEF Pump, TurnEndsInStoppingRun, TurnFailed,
              VerifierTurnDone, FinalizeWorkerCheck, FinalizeWorker, VerdictRejects,
              VerdictAccepts, prepare_integration
  <1>8. ASSUME NEW o \in Operators, Operator(o), q # o PROVE Same(q)
    <2>a. o \in Procs \ {q}
      BY <1>8 DEF Procs
    <2>1. CASE request_task_review(o) \/ stop_run(o)
      BY <1>a, <2>a, <2>1 DEF request_task_review, stop_run, Same, Goto
    <2>2. CASE interrupt_agent(o) \/ set_scheduler_paused(o)
      BY <2>2 DEF interrupt_agent, set_scheduler_paused, Same
    <2>3. CASE StopInterrupts(o)
      BY <1>1, <2>a, <2>3 DEF StopInterrupts
    <2>4. CASE StopCancels(o)
      BY <1>a, <1>1, <2>a, <2>4 DEF StopCancels, Same, Goto
    <2> QED BY <1>8, <2>1, <2>2, <2>3, <2>4 DEF Operator
  <1>9. ASSUME MaintenanceTick, q # "maint" PROVE Same(q)
    BY <1>1, <1>9 DEF MaintenanceTick, Procs
  <1>10. CASE Environment
    BY <1>10 DEF Environment, LeaseExpires, PumpProcessExit, CrashRestart, Same, Reset, Procs
  <1>11. {"maint", "pump"} \subseteq Procs
    BY DEF Procs
  <1> QED BY <1>3, <1>4, <1>6, <1>7, <1>8, <1>9, <1>10, <1>11 DEF Next

(* How a call gets where it is.                                             *)
LEMMA Entered ==
    ASSUME CallTypes, Next, NEW q \in Procs
    PROVE  /\ pc'[q] = "idle" => Same(q) \/ Reset(q)
           /\ pc'[q] = "tk_count" => Same(q) \/ TickBegin(q)
           /\ pc'[q] = "tk_review" =>
                \/ Same(q) \/ TickCount(q)
                \/ /\ pc[q] \in Reviewing /\ lock = q /\ lock' = q
                   /\ loc'[q].todo = loc[q].todo /\ loc'[q].cur = loc[q].cur
           /\ pc'[q] = "tk_start" =>
                \/ Same(q) \/ TickReviewNext(q)
                \/ /\ TickGithub(q) \/ StartAgent(q) \/ StartFailed(q)
                   /\ loc'[q].todo = loc[q].todo
           /\ pc'[q] = "tk_github" => Same(q) \/ TickStartNext(q)
           /\ pc'[q] = "st_deps" =>
                Same(q) \/ TickStartNext(q) \/ (TickGithub(q) /\ loc'[q] = loc[q])
           /\ pc'[q] = "st_create" => Same(q) \/ (StartCheck(q) /\ loc'[q] = loc[q])
           /\ pc'[q] \in Launching => \/ Same(q)
                                      \/ /\ StartCheck(q) /\ pc'[q] = "st_err"
                                         /\ loc'[q] = loc[q] /\ UNCHANGED lock
                                      \/ /\ create_task_attempt(q) /\ pc'[q] = "st_lease"
                                         /\ loc'[q] = loc[q] /\ UNCHANGED lock
                                      \/ /\ pc[q] \in Launching
                                         /\ loc'[q] = loc[q] /\ UNCHANGED lock
           /\ pc'[q] = "st_lease" => Same(q) \/ create_task_attempt(q)
           /\ pc'[q] = "st_session" => Same(q) \/ acquire_path_leases(q)
           /\ pc'[q] = "st_agent" => Same(q) \/ StartSession(q)
           /\ pc'[q] = "st_undo" => Same(q) \/ pc[q] \in {"st_session", "st_agent"}
           /\ pc'[q] = "rv_check" => \/ Same(q) \/ TickReviewNext(q)
                                     \/ q \in Operators /\ request_task_review(q)
                                     \/ q = "pump" /\ FinalizeWorker /\ loc'[q] = loc[q]
           /\ pc'[q] \in Reviewing \ {"rv_check"} =>
                \/ Same(q)
                \/ pc[q] \in Reviewing /\ loc'[q].cur = loc[q].cur /\ loc'[q].todo = loc[q].todo
                   /\ UNCHANGED lock
           /\ pc'[q] = "rv_agent" => Same(q) \/ ReviewSession(q)
           /\ pc'[q] \in {"rv_gate", "rv_validate", "rv_capacity", "rv_session"} =>
                Same(q) \/ pc[q] \in {"rv_check", "rv_gate", "rv_validate", "rv_capacity"}
           /\ pc'[q] \in Gated => \/ Same(q) \/ run_review_ready_validation_gate(q)
                                  \/ GateBegins(q) /\ (ReviewReady => gate[loc[q].cur] = "pass")
                                  \/ pc[q] \in Gated
           /\ pc'[q] \in {"ev_done", "ev_failed"} =>
                Same(q) \/ (q = "pump" /\ PumpTurnCompleted)
           /\ pc'[q] = "fw_git" => Same(q) \/ (pc[q] = "ev_done" /\ loc'[q] = loc[q])
           /\ pc'[q] \in {"vd_accept", "vd_reject"} => Same(q) \/ (q = "pump" /\ PumpVerdict)
           /\ pc'[q] = "vd_next" => Same(q) \/ (pc[q] = "vd_accept" /\ loc'[q] = loc[q])
           /\ pc'[q] = "ig_pick" =>
                \/ Same(q)
                \/ pc[q] = "ig_queue" /\ AllVerified /\ task' = [t \in Tasks |-> "INTEGRATING"]
                   /\ UNCHANGED <<agentVars, attempt>>
           /\ pc'[q] \in StopCalls =>
                \/ Same(q) \/ pc[q] \in StopCalls
                \/ q \in Operators /\ stop_run(q)
  <1> USE DEF Launching, Reviewing, Gated, StopCalls
  <1>a. /\ pc \in [Procs -> Labels] /\ loc \in [Procs -> Locals] /\ q \in Procs
        /\ pc[q] \in Labels /\ loc[q] \in Locals
    BY DEF CallTypes
  <1>b. ASSUME Finish(q) PROVE pc'[q] = "idle" /\ Reset(q)
    BY <1>a, <1>b DEF Finish, Goto, Reset
  <1>c. ASSUME NEW l, Stay(q, l) PROVE pc'[q] = l /\ loc'[q] = loc[q] /\ UNCHANGED lock
    BY <1>a, <1>c DEF Stay, Goto
  <1>d. ASSUME NEW l, Goto(q, l) PROVE pc'[q] = l
    BY <1>a, <1>d DEF Goto
  <1>e. ASSUME NEW n, ReviewReturn(q, n)
        PROVE  \/ pc'[q] = "idle" /\ Reset(q)
               \/ /\ pc'[q] = "tk_review" /\ lock = q /\ lock' = q
                  /\ loc'[q].todo = loc[q].todo /\ loc'[q].cur = loc[q].cur
    BY <1>a, <1>b, <1>d, <1>e DEF ReviewReturn, Locals
  <1>1. CASE Same(q)
    <2>1. pc'[q] = pc[q] /\ loc'[q] = loc[q]
      BY <1>1 DEF Same
    <2> QED BY <1>1, <2>1
  <1>2. CASE Tick(q)
    <2>1. CASE TickBegin(q) \/ TickCount(q)
      BY <1>b, <1>d, <2>1 DEF TickBegin, TickCount
    <2>2. CASE TickReviewNext(q)
      BY <1>d, <2>2 DEF TickReviewNext
    <2>3. CASE TickStartNext(q)
      BY <1>b, <1>d, <2>3 DEF TickStartNext
    <2>4. CASE TickGithub(q)
      BY <1>b, <1>c, <2>4 DEF TickGithub, github_capability
    <2> QED BY <1>2, <2>1, <2>2, <2>3, <2>4 DEF Tick
  <1>3. CASE Start(q)
    <2>1. CASE StartCheck(q)
      BY <1>c, <2>1 DEF StartCheck
    <2>2. CASE create_task_attempt(q)
      BY <1>c, <2>2 DEF create_task_attempt
    <2>3. CASE StartWorktreeFails(q) \/ acquire_path_leases(q)
      BY <1>c, <2>3 DEF StartWorktreeFails, acquire_path_leases
    <2>4. CASE StartSession(q)
      BY <1>c, <2>4 DEF StartSession
    <2>5. CASE StartAgent(q)
      BY <1>a, <1>c, <1>d, <2>5 DEF StartAgent, Locals
    <2>6. CASE StartFailed(q)
      BY <1>c, <2>6 DEF StartFailed
    <2> QED BY <1>3, <2>1, <2>2, <2>3, <2>4, <2>5, <2>6 DEF Start
  <1>4. CASE Review(q)
    <2>1. CASE ReviewCheck(q)
      BY <1>c, <1>e, <2>1 DEF ReviewCheck
    <2>2. CASE GateBegins(q)
      BY <1>b, <1>c, <2>2 DEF GateBegins
    <2>3. CASE run_review_ready_validation_gate(q)
      BY <1>b, <1>c, <2>3 DEF run_review_ready_validation_gate
    <2>4. CASE ReviewGateRejects(q)
      BY <1>b, <1>c, <1>e, <2>4 DEF ReviewGateRejects
    <2>5. CASE ReviewCapacity(q)
      BY <1>c, <1>e, <2>5 DEF ReviewCapacity
    <2>6. CASE ReviewSession(q)
      BY <1>a, <1>b, <1>d, <2>6 DEF ReviewSession, Locals
    <2>7. CASE ReviewAgent(q)
      BY <1>b, <1>e, <2>7 DEF ReviewAgent
    <2> QED BY <1>4, <2>1, <2>2, <2>3, <2>4, <2>5, <2>6, <2>7 DEF Review
  <1>5. CASE q = "pump" /\ Pump
    <2>1. CASE PumpProgress
      BY <1>5, <2>1 DEF PumpProgress, Same
    <2>2. CASE PumpTurnCompleted
      BY <1>5, <1>d, <2>2 DEF PumpTurnCompleted
    <2>3. CASE PumpVerdict
      BY <1>5, <1>a, <2>3 DEF PumpVerdict, Same
    <2>4. CASE TurnEndsInStoppingRun \/ TurnFailed \/ VerifierTurnDone \/ VerdictRejects
      BY <1>5, <1>b, <2>4 DEF TurnEndsInStoppingRun, TurnFailed, VerifierTurnDone,
           VerdictRejects
    <2>5. CASE FinalizeWorkerCheck \/ FinalizeWorker
      BY <1>5, <1>b, <1>c, <2>5 DEF FinalizeWorkerCheck, FinalizeWorker
    <2>6. CASE VerdictAccepts \/ VerdictMovesOn
      BY <1>5, <1>b, <1>c, <1>d, <2>6 DEF VerdictAccepts, VerdictMovesOn
    <2>7. CASE prepare_integration
      BY <1>5, <1>b, <1>c, <2>7 DEF prepare_integration
    <2> QED BY <1>5, <2>1, <2>2, <2>3, <2>4, <2>5, <2>6, <2>7 DEF Pump
  <1>6. CASE q \in Operators /\ Operator(q)
    <2>1. CASE interrupt_agent(q) \/ set_scheduler_paused(q)
      BY <2>1 DEF interrupt_agent, set_scheduler_paused, Same
    <2>2. CASE request_task_review(q) \/ stop_run(q)
      BY <1>6, <1>d, <2>2 DEF request_task_review, stop_run
    <2>3. CASE StopInterrupts(q) \/ StopCancels(q)
      BY <1>6, <1>b, <1>c, <1>d, <2>3 DEF StopInterrupts, StopCancels
    <2> QED BY <1>1, <1>6, <2>1, <2>2, <2>3 DEF Operator
  <1>7. CASE q = "maint" /\ MaintenanceTick
    BY <1>7, <1>c DEF MaintenanceTick
  <1>8. CASE CrashRestart /\ Reset(q)
    BY <1>8 DEF Reset
  <1> QED BY <1>1, <1>2, <1>3, <1>4, <1>5, <1>6, <1>7, <1>8, CallMoves

(* operation_lock is taken by tick and dropped when its call ends.          *)
LEMMA LockMoves ==
    ASSUME CallTypes, Next
    PROVE  \/ UNCHANGED lock
           \/ \E p \in Procs : TickBegin(p) /\ lock = Nobody /\ lock' = p /\ pc'[p] = "tk_count"
           \/ \E p \in Procs : lock = p /\ lock' = Nobody /\ pc'[p] = "idle"
           \/ CrashRestart
  <1> DEFINE Kept == UNCHANGED lock
             Dropped == \E p \in Procs : lock = p /\ lock' = Nobody /\ pc'[p] = "idle"
  <1>a. pc \in [Procs -> Labels]
    BY DEF CallTypes
  <1>b. ASSUME NEW p \in Procs, Finish(p) PROVE Kept \/ Dropped
    BY <1>a, <1>b DEF Finish, Goto
  <1>c. ASSUME NEW p \in Procs, NEW l, Stay(p, l) PROVE Kept
    BY <1>c DEF Stay
  <1>d. ASSUME NEW p \in Procs, NEW n, ReviewReturn(p, n) PROVE Kept \/ Dropped
    BY <1>b, <1>d DEF ReviewReturn
  <1> HIDE DEF Dropped
  <1>1. ASSUME NEW p \in Procs, Tick(p)
        PROVE  Kept \/ Dropped \/ (TickBegin(p) /\ lock = Nobody /\ lock' = p /\ pc'[p] = "tk_count")
    <2>1. CASE TickBegin(p)
      BY <1>a, <1>b, <2>1 DEF TickBegin, Goto
    <2> QED BY <1>1, <1>b, <1>c, <2>1 DEF Tick, TickCount, TickReviewNext, TickStartNext,
              TickGithub, github_capability
  <1>2. ASSUME NEW p \in Procs, Start(p) PROVE Kept
    BY <1>2, <1>c DEF Start, StartCheck, create_task_attempt, StartWorktreeFails,
         acquire_path_leases, StartSession, StartAgent, StartFailed
  <1>3. ASSUME NEW p \in Procs, Review(p) PROVE Kept \/ Dropped
    BY <1>3, <1>b, <1>c, <1>d DEF Review, ReviewCheck, GateBegins,
         run_review_ready_validation_gate, ReviewGateRejects, ReviewCapacity, ReviewSession,
         ReviewAgent
  <1>4. ASSUME Pump PROVE Kept \/ Dropped
    <2>a. "pump" \in Procs
      BY DEF Procs
    <2> QED BY <1>4, <1>b, <1>c, <2>a DEF Pump, PumpProgress, PumpTurnCompleted,
              TurnEndsInStoppingRun, TurnFailed, VerifierTurnDone, FinalizeWorkerCheck,
              FinalizeWorker, PumpVerdict, VerdictRejects, VerdictAccepts, VerdictMovesOn,
              prepare_integration
  <1>5. ASSUME NEW o \in Operators, Operator(o) PROVE Kept \/ Dropped
    <2>a. o \in Procs
      BY DEF Procs
    <2> QED BY <1>5, <1>b, <1>c, <2>a DEF Operator, request_task_review, interrupt_agent,
              set_scheduler_paused, stop_run, StopInterrupts, StopCancels
  <1>6. CASE MaintenanceTick \/ LeaseExpires \/ PumpProcessExit
    BY <1>6, <1>c DEF MaintenanceTick, LeaseExpires, PumpProcessExit, Procs
  <1>7. {"maint", "pump"} \subseteq Procs
    BY DEF Procs
  <1> QED BY <1>1, <1>2, <1>3, <1>4, <1>5, <1>6, <1>7 DEF Next, Environment, Dropped

-----------------------------------------------------------------------------
(* Who writes which row.                                                    *)
Recovers == PumpProcessExit \/ CrashRestart
Interrupts == \E o \in Operators : interrupt_agent(o) \/ StopInterrupts(o)
Stops == \E o \in Operators : stop_run(o)
Cancels == \E o \in Operators : StopCancels(o)
TurnEnds == TurnEndsInStoppingRun \/ TurnFailed \/ VerifierTurnDone
Verdicts == VerdictRejects \/ VerdictAccepts

LEMMA Writers ==
    ASSUME Next
    PROVE  /\ \/ UNCHANGED attempt
              \/ Recovers \/ Interrupts \/ TurnEnds \/ FinalizeWorker \/ Verdicts
              \/ \E p \in Procs : \/ create_task_attempt(p) \/ StartWorktreeFails(p)
                                  \/ acquire_path_leases(p) \/ StartFailed(p)
                                  \/ ReviewGateRejects(p) \/ ReviewAgent(p)
           /\ \/ UNCHANGED task
              \/ Recovers \/ Interrupts \/ TurnEnds \/ FinalizeWorker \/ Verdicts
              \/ VerdictMovesOn \/ prepare_integration \/ Cancels
              \/ \E p \in Procs : \/ TickCount(p) \/ TickGithub(p) \/ create_task_attempt(p)
                                  \/ StartSession(p) \/ StartFailed(p)
                                  \/ ReviewGateRejects(p) \/ ReviewSession(p) \/ ReviewAgent(p)
           /\ \/ UNCHANGED worker
              \/ Recovers \/ Interrupts \/ TurnEnds \/ FinalizeWorker \/ PumpTurnCompleted
              \/ \E p \in Procs : StartSession(p) \/ StartAgent(p)
           /\ \/ UNCHANGED ver
              \/ Recovers \/ Interrupts \/ TurnEnds \/ Verdicts
              \/ PumpTurnCompleted \/ PumpVerdict
              \/ \E p \in Procs : ReviewSession(p) \/ ReviewAgent(p)
           /\ UNCHANGED gate \/ \E p \in Procs : run_review_ready_validation_gate(p)
           /\ UNCHANGED accepted \/ VerdictAccepts
           /\ \/ UNCHANGED lease
              \/ TurnEnds \/ FinalizeWorker \/ Verdicts \/ Cancels \/ LeaseExpires
              \/ PumpProgress \/ PumpTurnCompleted \/ PumpVerdict
              \/ \E p \in Procs : \/ acquire_path_leases(p) \/ StartFailed(p)
                                  \/ ReviewGateRejects(p) \/ ReviewCapacity(p) \/ ReviewAgent(p)
           /\ \/ UNCHANGED run
              \/ TurnEndsInStoppingRun \/ VerdictMovesOn \/ prepare_integration \/ Stops
              \/ Cancels
  <1> USE DEF runVars, taskVars, agentVars, SameRun
  <1>a. {"maint", "pump"} \subseteq Procs
    BY DEF Procs
  <1>1. ASSUME NEW p \in Procs, Tick(p)
        PROVE  /\ UNCHANGED <<attempt, lease, gate, accepted, worker, ver, run>>
               /\ UNCHANGED task \/ TickCount(p) \/ TickGithub(p)
    BY <1>1 DEF Tick, TickBegin, TickCount, TickReviewNext, TickStartNext, TickGithub,
         github_capability
  <1>2. ASSUME NEW p \in Procs, Start(p)
        PROVE  /\ UNCHANGED <<gate, accepted, ver, run>>
               /\ UNCHANGED attempt \/ create_task_attempt(p) \/ StartWorktreeFails(p)
                  \/ acquire_path_leases(p) \/ StartFailed(p)
               /\ UNCHANGED task \/ create_task_attempt(p) \/ StartSession(p) \/ StartFailed(p)
               /\ UNCHANGED worker \/ StartSession(p) \/ StartAgent(p)
               /\ UNCHANGED lease \/ acquire_path_leases(p) \/ StartFailed(p)
    BY <1>2 DEF Start, StartCheck, create_task_attempt, StartWorktreeFails,
         acquire_path_leases, StartSession, StartAgent, StartFailed
  <1>3. ASSUME NEW p \in Procs, Review(p)
        PROVE  /\ UNCHANGED <<accepted, worker, run>>
               /\ UNCHANGED attempt \/ ReviewGateRejects(p) \/ ReviewAgent(p)
               /\ UNCHANGED task \/ ReviewGateRejects(p) \/ ReviewSession(p) \/ ReviewAgent(p)
               /\ UNCHANGED ver \/ ReviewSession(p) \/ ReviewAgent(p)
               /\ UNCHANGED gate \/ run_review_ready_validation_gate(p)
               /\ UNCHANGED lease \/ ReviewGateRejects(p) \/ ReviewCapacity(p) \/ ReviewAgent(p)
    BY <1>3 DEF Review, ReviewCheck, GateBegins, run_review_ready_validation_gate,
         ReviewGateRejects, ReviewCapacity, ReviewSession, ReviewAgent
  <1>4. ASSUME PumpProgress \/ PumpTurnCompleted \/ FinalizeWorkerCheck \/ PumpVerdict
        PROVE  /\ UNCHANGED <<attempt, task, gate, accepted, run>>
               /\ UNCHANGED worker \/ PumpTurnCompleted
               /\ UNCHANGED ver \/ PumpTurnCompleted \/ PumpVerdict
               /\ UNCHANGED lease \/ PumpProgress \/ PumpTurnCompleted \/ PumpVerdict
    BY <1>4 DEF PumpProgress, PumpTurnCompleted, FinalizeWorkerCheck, PumpVerdict
  <1>5. ASSUME TurnEnds
        PROVE  UNCHANGED <<gate, accepted>> /\ (UNCHANGED run \/ TurnEndsInStoppingRun)
    BY <1>5 DEF TurnEnds, TurnEndsInStoppingRun, TurnFailed, VerifierTurnDone
  <1>6. ASSUME FinalizeWorker \/ Verdicts
        PROVE  /\ UNCHANGED <<gate, run>>
               /\ UNCHANGED accepted \/ VerdictAccepts
               /\ UNCHANGED worker \/ FinalizeWorker
               /\ UNCHANGED ver \/ Verdicts
    BY <1>6 DEF FinalizeWorker, Verdicts, VerdictRejects, VerdictAccepts
  <1>7. ASSUME VerdictMovesOn \/ prepare_integration
        PROVE  UNCHANGED <<attempt, lease, gate, accepted, worker, ver>>
    BY <1>7 DEF VerdictMovesOn, prepare_integration
  <1>8. ASSUME NEW o \in Operators, Operator(o)
        PROVE  /\ UNCHANGED <<gate, accepted>>
               /\ UNCHANGED <<attempt, worker, ver>> \/ Interrupts
               /\ UNCHANGED task \/ Interrupts \/ Cancels
               /\ UNCHANGED lease \/ Cancels
               /\ UNCHANGED run \/ Stops \/ Cancels
    <2>1. CASE request_task_review(o) \/ set_scheduler_paused(o)
      BY <2>1 DEF request_task_review, set_scheduler_paused, SetRun
    <2>2. CASE interrupt_agent(o) \/ StopInterrupts(o)
      BY <2>2 DEF interrupt_agent, StopInterrupts, Interrupts
    <2>3. CASE stop_run(o) \/ StopCancels(o)
      BY <2>3 DEF stop_run, StopCancels, Stops, Cancels
    <2> QED BY <1>8, <2>1, <2>2, <2>3 DEF Operator
  <1>9. ASSUME Environment
        PROVE  /\ UNCHANGED <<gate, accepted, run>>
               /\ UNCHANGED <<attempt, worker, ver, task>> \/ Recovers
               /\ UNCHANGED lease \/ LeaseExpires
    BY <1>9 DEF Environment, LeaseExpires, PumpProcessExit, CrashRestart, Recovers
  <1>10. ASSUME MaintenanceTick
         PROVE  UNCHANGED <<attempt, task, worker, ver, gate, accepted, lease, run>>
    BY <1>10 DEF MaintenanceTick
  <1>11. CASE MaintenanceTick
    BY <1>10, <1>11
  <1>12. ASSUME NEW p \in Procs, Tick(p) \/ Start(p) \/ Review(p)
         PROVE  /\ UNCHANGED <<accepted, run>>
                /\ \/ UNCHANGED attempt
                   \/ create_task_attempt(p) \/ StartWorktreeFails(p) \/ acquire_path_leases(p)
                   \/ StartFailed(p) \/ ReviewGateRejects(p) \/ ReviewAgent(p)
                /\ \/ UNCHANGED task
                   \/ TickCount(p) \/ TickGithub(p) \/ create_task_attempt(p)
                   \/ StartSession(p) \/ StartFailed(p)
                   \/ ReviewGateRejects(p) \/ ReviewSession(p) \/ ReviewAgent(p)
                /\ UNCHANGED worker \/ StartSession(p) \/ StartAgent(p)
                /\ UNCHANGED ver \/ ReviewSession(p) \/ ReviewAgent(p)
                /\ UNCHANGED gate \/ run_review_ready_validation_gate(p)
                /\ \/ UNCHANGED lease
                   \/ acquire_path_leases(p) \/ StartFailed(p)
                   \/ ReviewGateRejects(p) \/ ReviewCapacity(p) \/ ReviewAgent(p)
    BY <1>1, <1>2, <1>3, <1>12
  <1>13. CASE \E p \in Procs : Tick(p) \/ Start(p) \/ Review(p)
    BY <1>12, <1>13
  <1>14. CASE Pump
    BY <1>4, <1>5, <1>6, <1>7, <1>14 DEF Pump, TurnEnds, Verdicts
  <1>15. CASE (\E o \in Operators : Operator(o)) \/ Environment
    BY <1>8, <1>9, <1>15
  <1> QED BY <1>a, <1>11, <1>13, <1>14, <1>15 DEF Next

(* Who may be interrupted has a turn.                                       *)
LEMMA TurnFound ==
    ASSUME AgentTypes, NEW t \in Tasks, NEW a \in WithTurn, a[1] = t
    PROVE  TurnLive(worker[t]) \/ DOMAIN ver[t] # {}
  <1>1. ver[t] \in Seq(Verifiers)
    BY DEF AgentTypes
  <1>2. PICK u \in Tasks : a \in {<<u, i>> : i \in {j \in 0..Len(ver[u]) : TurnLive(Agent(u, j))}}
    BY DEF WithTurn
  <1>3. PICK i \in 0..Len(ver[u]) : a = <<u, i>> /\ TurnLive(Agent(u, i))
    BY <1>2
  <1>4. u = t /\ i \in 0..Len(ver[t])
    BY <1>3
  <1>5. CASE i = 0
    BY <1>3, <1>4, <1>5 DEF Agent
  <1>6. CASE i # 0
    BY <1>1, <1>4, <1>6
  <1> QED BY <1>5, <1>6

(* An attempt appears with create_task_attempt and never disappears; only   *)
(* calls that handle it, or its own agents and state, have it rewritten.    *)
LEMMA AttemptMoves ==
    ASSUME CallTypes, TaskTypes, AgentTypes, Next, NEW t \in Tasks
    PROVE  \/ attempt'[t] = attempt[t]
           \/ /\ attempt'[t] # "none"
              /\ \/ \E p \in Procs : /\ loc[p].cur = t
                                     /\ \/ create_task_attempt(p)
                                        \/ pc[p] \in Handling \cup (Launching \ {"st_err"})
                 \/ TurnLive(worker[t]) \/ DOMAIN ver[t] # {}
                 \/ task[t] \in Held \cup {"STALLED"}
                 \/ agent_state_consumes_capacity(worker[t])
  <1>a. attempt \in [Tasks -> AttemptStates] /\ "pump" \in Procs
    BY DEF TaskTypes, Procs
  <1> DEFINE Touched == \E p \in Procs : /\ loc[p].cur = t
                                         /\ pc[p] \in Handling \cup (Launching \ {"st_err"})
  <1>1. ASSUME NEW p \in Procs, create_task_attempt(p)
        PROVE  attempt'[t] = attempt[t] \/ (attempt'[t] # "none" /\ loc[p].cur = t)
    BY <1>a, <1>1 DEF create_task_attempt
  <1>2. ASSUME NEW p \in Procs, StartWorktreeFails(p) \/ acquire_path_leases(p) \/ StartFailed(p)
        PROVE  attempt'[t] = attempt[t] \/ (attempt'[t] # "none" /\ Touched)
    BY <1>a, <1>2 DEF StartWorktreeFails, acquire_path_leases, StartFailed, Launching
  <1>3. ASSUME NEW p \in Procs, ReviewGateRejects(p) \/ ReviewAgent(p)
        PROVE  attempt'[t] = attempt[t] \/ (attempt'[t] # "none" /\ Touched)
    BY <1>a, <1>3 DEF ReviewGateRejects, ReviewAgent, Handling, Reviewing
  <1>4. ASSUME TurnEnds \/ FinalizeWorker \/ Verdicts
        PROVE  attempt'[t] = attempt[t] \/ (attempt'[t] # "none" /\ Touched)
    <2>1. CASE TurnEnds
      BY <1>a, <2>1 DEF TurnEnds, TurnEndsInStoppingRun, TurnFailed, VerifierTurnDone, Handling
    <2>2. CASE FinalizeWorker \/ Verdicts
      BY <1>a, <2>2 DEF FinalizeWorker, Verdicts, VerdictRejects, VerdictAccepts, Handling,
           Judging
    <2> QED BY <1>4, <2>1, <2>2
  <1>5. ASSUME Interrupts
        PROVE  \/ attempt'[t] = attempt[t]
               \/ /\ attempt'[t] # "none"
                  /\ TurnLive(worker[t]) \/ DOMAIN ver[t] # {}
    <2>1. PICK S \in SUBSET WithTurn : Interrupted(S)
      BY <1>5 DEF Interrupts, interrupt_agent, StopInterrupts
    <2>2. CASE attempt'[t] # attempt[t]
      <3>1. attempt'[t] = "INTERRUPTED" /\ \E a \in S : a[1] = t
        BY <2>1, <2>2 DEF Interrupted
      <3> QED BY <2>1, <3>1, TurnFound
    <2> QED BY <2>2
  <1>6. ASSUME Recovers
        PROVE  \/ attempt'[t] = attempt[t]
               \/ /\ attempt'[t] # "none"
                  /\ \/ task[t] \in Held \cup {"STALLED"}
                     \/ agent_state_consumes_capacity(worker[t])
                     \/ DOMAIN ver[t] # {}
    BY <1>6 DEF Recovers, PumpProcessExit, CrashRestart, reconcile_orphaned_sessions,
         verifier_active
  <1> QED BY <1>1, <1>2, <1>3, <1>4, <1>5, <1>6, Writers

(* The states of a task: who may move it where.                             *)
LEMMA TaskMoves ==
    ASSUME CallTypes, TaskTypes, AgentTypes, Next, NEW t \in Tasks
    PROVE  \/ task'[t] = task[t]
           \/ task'[t] \in {"NEEDS_HELP", "CANCELED"}
           \/ /\ task'[t] = "READY"
              /\ task[t] = "WAITING_DEPENDENCY" \/ \E p \in Procs : pc[p] = "tk_github" /\ loc[p].cur = t
           \/ /\ task'[t] = "WAITING_RESOURCE"
              /\ \E p \in Procs : pc[p] = "tk_github" /\ loc[p].cur = t
           \/ /\ task'[t] = "INTERRUPTED"
              /\ TurnLive(worker[t]) \/ DOMAIN ver[t] # {}
           \/ /\ task'[t] = "STALLED"
              /\ \/ task[t] \in Held \/ agent_state_consumes_capacity(worker[t])
                 \/ DOMAIN ver[t] # {}
           \/ /\ task'[t] = "LEASED" /\ \E p \in Procs : create_task_attempt(p) /\ loc[p].cur = t
           \/ /\ task'[t] = "IMPLEMENTING" /\ task[t] \in {"LEASED", "STARTING"}
              /\ \E p \in Procs : /\ StartSession(p) /\ loc[p].cur = t
                                  /\ pc[p] = "st_session" /\ pc'[p] = "st_agent"
           \/ /\ task'[t] = "REVIEW_READY" /\ task[t] = "IMPLEMENTING"
              /\ pc["pump"] = "fw_git" /\ loc["pump"].cur = t
           \/ /\ task'[t] = "VERIFYING" /\ task[t] = "REVIEW_READY"
              /\ \E p \in Procs : pc[p] \in Handling /\ loc[p].cur = t
           \/ /\ task'[t] = "CHANGES_REQUESTED"
              /\ \E p \in Procs : pc[p] \in Handling /\ loc[p].cur = t
           \/ task'[t] = "VERIFIED" /\ VerdictAccepts /\ loc["pump"].cur = t
           \/ task'[t] = "INTEGRATING" /\ task[t] = "VERIFIED"
           \/ task'[t] = "INTEGRATED" /\ task[t] = "INTEGRATING"
  <1>a. /\ task \in [Tasks -> TaskStates] /\ task[t] \in TaskStates
        /\ "pump" \in Procs
    BY DEF TaskTypes, Procs
  <1>b. ASSUME NEW p \in Procs, NEW l, Stay(p, l) PROVE pc'[p] = l
    BY <1>b DEF Stay, Goto, CallTypes
  <1>c. \A n \in TaskStates : Unless(task[t], n) \in {task[t], n}
    BY <1>a, Transitions
  <1>d. {"NEEDS_HELP", "CANCELED", "INTERRUPTED"} \subseteq TaskStates
    BY DEF TaskStates, Suspended
  <1>e. mark_unblocked_tasks_ready(task)[t] = task[t]
        \/ (mark_unblocked_tasks_ready(task)[t] = "READY" /\ task[t] = "WAITING_DEPENDENCY")
    BY DEF mark_unblocked_tasks_ready
  <1>1. ASSUME NEW p \in Procs, TickCount(p) \/ TickGithub(p)
        PROVE  \/ task'[t] = task[t]
               \/ task'[t] = "READY" /\ task[t] = "WAITING_DEPENDENCY"
               \/ task'[t] \in {"READY", "WAITING_RESOURCE"} /\ pc[p] = "tk_github" /\ loc[p].cur = t
    <2>1. CASE TickCount(p)
      BY <1>e, <2>1 DEF TickCount
    <2>2. CASE TickGithub(p)
      BY <1>a, <2>2 DEF TickGithub, github_capability
    <2> QED BY <1>1, <2>1, <2>2
  <1>2. ASSUME NEW p \in Procs, create_task_attempt(p)
        PROVE  task'[t] = task[t] \/ (task'[t] = "LEASED" /\ loc[p].cur = t)
    BY <1>a, <1>2 DEF create_task_attempt
  <1>3. ASSUME NEW p \in Procs, StartSession(p)
        PROVE  \/ task'[t] = task[t]
               \/ /\ task'[t] = "IMPLEMENTING" /\ task[t] \in {"LEASED", "STARTING"}
                  /\ loc[p].cur = t /\ pc[p] = "st_session" /\ pc'[p] = "st_agent"
    BY <1>a, <1>b, <1>3, Transitions DEF StartSession
  <1>4. ASSUME NEW p \in Procs, StartFailed(p) \/ ReviewAgent(p)
        PROVE  task'[t] = task[t] \/ task'[t] = "NEEDS_HELP"
    BY <1>a, <1>c, <1>d, <1>4 DEF StartFailed, ReviewAgent
  <1>5. ASSUME NEW p \in Procs, ReviewGateRejects(p) \/ ReviewSession(p)
        PROVE  \/ task'[t] = task[t]
               \/ /\ task'[t] = "VERIFYING" /\ task[t] = "REVIEW_READY"
                  /\ pc[p] \in Handling /\ loc[p].cur = t
               \/ task'[t] = "CHANGES_REQUESTED" /\ pc[p] \in Handling /\ loc[p].cur = t
    BY <1>a, <1>5, Transitions DEF ReviewGateRejects, ReviewSession, Handling, Reviewing
  <1>6. ASSUME TurnEnds PROVE task'[t] = task[t] \/ task'[t] \in {"NEEDS_HELP", "CANCELED"}
    BY <1>a, <1>c, <1>d, <1>6 DEF TurnEnds, TurnEndsInStoppingRun, TurnFailed, VerifierTurnDone
  <1>7. ASSUME FinalizeWorker
        PROVE  \/ task'[t] = task[t] \/ task'[t] = "NEEDS_HELP"
               \/ /\ task'[t] = "REVIEW_READY" /\ task[t] = "IMPLEMENTING"
                  /\ pc["pump"] = "fw_git" /\ loc["pump"].cur = t
    BY <1>a, <1>c, <1>d, <1>7, Transitions DEF FinalizeWorker
  <1>8. ASSUME Verdicts
        PROVE  \/ task'[t] = task[t]
               \/ /\ task'[t] = "CHANGES_REQUESTED"
                  /\ pc["pump"] \in Handling /\ loc["pump"].cur = t
               \/ task'[t] = "VERIFIED" /\ VerdictAccepts /\ loc["pump"].cur = t
    BY <1>a, <1>8 DEF Verdicts, VerdictRejects, VerdictAccepts, Handling, Judging
  <1>9. ASSUME VerdictMovesOn \/ Cancels
        PROVE  \/ task'[t] = task[t] \/ task'[t] = "CANCELED"
               \/ task'[t] = "READY" /\ task[t] = "WAITING_DEPENDENCY"
    BY <1>c, <1>d, <1>e, <1>9 DEF VerdictMovesOn, Cancels, StopCancels
  <1>10. ASSUME prepare_integration
         PROVE  \/ task'[t] = task[t]
                \/ task'[t] = "INTEGRATING" /\ task[t] = "VERIFIED"
                \/ task'[t] = "INTEGRATED" /\ task[t] = "INTEGRATING"
    BY <1>10 DEF prepare_integration, AllVerified
  <1>11. ASSUME Interrupts
         PROVE  \/ task'[t] = task[t]
                \/ task'[t] = "INTERRUPTED" /\ (TurnLive(worker[t]) \/ DOMAIN ver[t] # {})
    <2>1. PICK S \in SUBSET WithTurn : Interrupted(S)
      BY <1>11 DEF Interrupts, interrupt_agent, StopInterrupts
    <2>2. CASE task'[t] # task[t]
      <3>1. task'[t] = "INTERRUPTED" /\ \E a \in S : a[1] = t
        BY <1>c, <1>d, <2>1, <2>2 DEF Interrupted
      <3> QED BY <2>1, <3>1, TurnFound
    <2> QED BY <2>2
  <1>12. ASSUME Recovers
         PROVE  \/ task'[t] = task[t]
                \/ /\ task'[t] = "STALLED"
                   /\ \/ task[t] \in Held \/ agent_state_consumes_capacity(worker[t])
                      \/ DOMAIN ver[t] # {}
    BY <1>12 DEF Recovers, PumpProcessExit, CrashRestart, reconcile_orphaned_sessions,
         verifier_active
  <1>13. CASE \E p \in Procs : \/ TickCount(p) \/ TickGithub(p) \/ create_task_attempt(p)
                               \/ StartSession(p) \/ StartFailed(p)
                               \/ ReviewGateRejects(p) \/ ReviewSession(p) \/ ReviewAgent(p)
    BY <1>1, <1>2, <1>3, <1>4, <1>5, <1>13
  <1> QED BY <1>a, <1>6, <1>7, <1>8, <1>9, <1>10, <1>11, <1>12, <1>13, Writers

(* A worker's turn opens with start_agent; a worker that never started is   *)
(* touched by its launch only.                                              *)
LEMMA WorkerMoves ==
    ASSUME AgentTypes, Next, NEW t \in Tasks
    PROVE  /\ TurnLive(worker'[t]) =>
                \/ TurnLive(worker[t])
                \/ \E p \in Procs : StartAgent(p) /\ pc[p] = "st_agent" /\ loc[p].cur = t
           /\ \/ worker'[t] = worker[t] \/ worker[t] # NoAgent
              \/ \E p \in Procs : /\ loc[p].cur = t
                                  /\ pc[p] \in Handling \cup (Launching \ {"st_err"})
  <1>a. worker \in [Tasks -> Workers] /\ worker[t] \in Workers /\ "pump" \in Procs
    BY DEF AgentTypes, Procs
  <1> USE DEF TurnLive, Session
  <1>1. ASSUME NEW p \in Procs, StartSession(p) \/ StartAgent(p)
        PROVE  /\ TurnLive(worker'[t]) =>
                    TurnLive(worker[t]) \/ (StartAgent(p) /\ pc[p] = "st_agent" /\ loc[p].cur = t)
               /\ worker'[t] = worker[t] \/ (loc[p].cur = t /\ pc[p] \in Launching \ {"st_err"})
    BY <1>a, <1>1 DEF StartSession, StartAgent, Launching
  <1>2. ASSUME TurnEnds \/ FinalizeWorker
        PROVE  /\ TurnLive(worker'[t]) => TurnLive(worker[t])
               /\ worker'[t] = worker[t] \/ (loc["pump"].cur = t /\ pc["pump"] \in Handling)
    BY <1>a, <1>2 DEF TurnEnds, TurnEndsInStoppingRun, TurnFailed, VerifierTurnDone,
         FinalizeWorker, SetAgent, Handling, agentVars
  <1>3. ASSUME PumpTurnCompleted
        PROVE  /\ TurnLive(worker'[t]) => TurnLive(worker[t])
               /\ worker'[t] = worker[t] \/ worker[t] # NoAgent
    <2>1. PICK u \in Tasks, s \in {"TURN_COMPLETE", "FAILED"} : \E i \in 0..Len(ver[u]) :
                 TurnLive(Agent(u, i)) /\ SetAgent(u, i, Session(s, "none"))
      BY <1>3 DEF PumpTurnCompleted
    <2>3. PICK i \in 0..Len(ver[u]) :
                 TurnLive(Agent(u, i)) /\ SetAgent(u, i, Session(s, "none"))
      BY <2>1
    <2>2. worker'[t] = worker[t] \/ (u = t /\ i = 0 /\ worker'[t] = Session(s, "none"))
      BY <1>a, <2>3 DEF SetAgent
    <2> QED BY <2>2, <2>3 DEF Agent, NoAgent
  <1>4. ASSUME Interrupts
        PROVE  /\ TurnLive(worker'[t]) => TurnLive(worker[t])
               /\ worker'[t] = worker[t] \/ worker[t] # NoAgent
    <2>1. PICK S \in SUBSET WithTurn : Interrupted(S)
      BY <1>4 DEF Interrupts, interrupt_agent, StopInterrupts
    <2>2. worker'[t] = worker[t] \/ (worker'[t] = [worker[t] EXCEPT !.state = "INTERRUPTED"] /\ <<t, 0>> \in S)
      BY <2>1 DEF Interrupted
    <2>3. <<t, 0>> \in S => TurnLive(worker[t])
      <3>1. ASSUME <<t, 0>> \in WithTurn PROVE TurnLive(worker[t])
        <4>1. PICK u \in Tasks : <<t, 0>> \in {<<u, i>> : i \in {j \in 0..Len(ver[u]) : TurnLive(Agent(u, j))}}
          BY <3>1 DEF WithTurn
        <4>2. PICK i \in 0..Len(ver[u]) : <<t, 0>> = <<u, i>> /\ TurnLive(Agent(u, i))
          BY <4>1
        <4> QED BY <4>2 DEF Agent
      <3> QED BY <2>1, <3>1
    <2> QED BY <1>a, <2>2, <2>3 DEF NoAgent, Workers
  <1>5. ASSUME Recovers
        PROVE  /\ TurnLive(worker'[t]) => TurnLive(worker[t])
               /\ worker'[t] = worker[t] \/ worker[t] # NoAgent
    <2>1. worker'[t] \in {Orphan(worker[t]), Lost(worker[t])}
      BY <1>5 DEF Recovers, PumpProcessExit, CrashRestart, reconcile_orphaned_sessions
    <2>2. Orphan(worker[t]).turn \in {"stale", "none"} /\ Lost(worker[t]).turn \in {"stale", "none"}
      BY <1>a DEF Orphan, Lost, Workers
    <2>3. Orphan(NoAgent) = NoAgent /\ Lost(NoAgent) = NoAgent
      BY DEF Orphan, Lost, NoAgent, active_turn_id, agent_state_consumes_capacity
    <2> QED BY <2>1, <2>2, <2>3
  <1>6. CASE \E p \in Procs : StartSession(p) \/ StartAgent(p)
    BY <1>1, <1>6
  <1>7. CASE UNCHANGED worker
    BY <1>7
  <1> QED BY <1>a, <1>2, <1>3, <1>4, <1>5, <1>6, <1>7, Writers

(* A task's verifiers are only ever appended to.                            *)
LEMMA SessionsKept ==
    ASSUME NEW s \in Seq(Verifiers), NEW f, f = [i \in DOMAIN s |-> f[i]],
           \A i \in DOMAIN s : f[i] \in Verifiers
    PROVE  f \in Seq(Verifiers) /\ Len(f) = Len(s) /\ DOMAIN f = DOMAIN s
  <1>1. Len(s) \in Nat /\ DOMAIN s = 1..Len(s)
    OBVIOUS
  <1>2. f = [i \in 1..Len(s) |-> f[i]] /\ \A i \in 1..Len(s) : f[i] \in Verifiers
    BY <1>1
  <1> HIDE DEF Verifiers
  <1> QED BY <1>1, <1>2

LEMMA VerMoves ==
    ASSUME CallTypes, AgentTypes, Next, NEW t \in Tasks
    PROVE  \/ /\ DOMAIN ver'[t] = DOMAIN ver[t] /\ Len(ver'[t]) = Len(ver[t])
              /\ ver'[t] \in Seq(Verifiers)
           \/ /\ ver'[t] = Append(ver[t], Session("STARTING", "none"))
              /\ \E p \in Procs : /\ ReviewSession(p) /\ pc[p] = "rv_session"
                                  /\ loc[p].cur = t /\ task' = [task EXCEPT ![t] = "VERIFYING"]
                                  /\ pc'[p] = "rv_agent" /\ loc'[p].vid = Len(ver[t]) + 1
                                  /\ loc'[p].cur = t /\ loc'[p].todo = loc[p].todo
  <1> DEFINE Kept == /\ DOMAIN ver'[t] = DOMAIN ver[t] /\ Len(ver'[t]) = Len(ver[t])
                     /\ ver'[t] \in Seq(Verifiers)
  <1>a. /\ ver \in [Tasks -> Seq(Verifiers)] /\ ver[t] \in Seq(Verifiers)
        /\ pc \in [Procs -> Labels] /\ loc \in [Procs -> Locals] /\ "pump" \in Procs
    BY DEF AgentTypes, CallTypes, Procs
  <1>b. CASE UNCHANGED ver
    BY <1>a, <1>b
  <1>c. \A s \in AgentStates, u \in {"none", "open"} : Session(s, u) \in Verifiers
    BY DEF Session, Verifiers
  <1>d. ASSUME NEW u, NEW i, NEW a \in Verifiers, ver' = [ver EXCEPT ![u][i] = a] PROVE Kept
    <2>1. ver'[t] = IF t = u THEN [ver[t] EXCEPT ![i] = a] ELSE ver[t]
      BY <1>a, <1>d
    <2>2. \A j \in DOMAIN ver[t] : ver[t][j] \in Verifiers
      BY <1>a
    <2>3. /\ ver'[t] = [j \in DOMAIN ver[t] |-> ver'[t][j]]
          /\ \A j \in DOMAIN ver[t] : ver'[t][j] \in Verifiers
      BY <1>a, <2>1, <2>2
    <2> QED BY <1>a, <2>3, SessionsKept
  <1>e. ASSUME NEW u, NEW i, \E a \in Verifiers : SetAgent(u, i, a) PROVE Kept
    BY <1>a, <1>d, <1>e DEF SetAgent
  <1>f. \A j \in DOMAIN ver[t] : ver[t][j] \in Verifiers
    BY <1>a
  <1>1. ASSUME NEW p \in Procs, ReviewSession(p), ~ UNCHANGED ver, ver'[t] # ver[t]
        PROVE  /\ ver'[t] = Append(ver[t], Session("STARTING", "none"))
               /\ loc[p].cur = t /\ task' = [task EXCEPT ![t] = "VERIFYING"] /\ pc[p] = "rv_session"
               /\ pc'[p] = "rv_agent" /\ loc'[p].vid = Len(ver[t]) + 1
               /\ loc'[p].cur = t /\ loc'[p].todo = loc[p].todo
    BY <1>a, <1>1 DEF ReviewSession, Goto, Locals
  <1>2. ASSUME NEW p \in Procs, ReviewAgent(p) PROVE Kept
    <2>1. \E a \in Verifiers : ver' = [ver EXCEPT ![loc[p].cur][loc[p].vid] = a]
      BY <1>c, <1>2 DEF ReviewAgent, AgentStates, Ended
    <2> QED BY <1>d, <2>1
  <1>3. ASSUME TurnEnds \/ PumpTurnCompleted PROVE Kept
    BY <1>a, <1>b, <1>c, <1>e, <1>3 DEF TurnEnds, TurnEndsInStoppingRun, TurnFailed,
         VerifierTurnDone, PumpTurnCompleted, AgentStates, Ended, agentVars
  <1>4. ASSUME Verdicts \/ PumpVerdict PROVE Kept
    <2>1. \/ UNCHANGED ver
          \/ \E u, i : \/ ver' = [ver EXCEPT ![u][i].state = "COMPLETED"]
                       \/ ver' = [ver EXCEPT ![u][i].turn = "answered"]
      BY <1>4 DEF Verdicts, VerdictRejects, VerdictAccepts, PumpVerdict
    <2>2. \/ ver'[t] = ver[t]
          \/ \E i : \/ ver'[t] = [ver[t] EXCEPT ![i].state = "COMPLETED"]
                    \/ ver'[t] = [ver[t] EXCEPT ![i].turn = "answered"]
      BY <1>a, <2>1
    <2>3. \A a \in Verifiers : /\ [a EXCEPT !.state = "COMPLETED"] \in Verifiers
                              /\ [a EXCEPT !.turn = "answered"] \in Verifiers
      BY DEF Verifiers, AgentStates, Ended
    <2>4. /\ ver'[t] = [j \in DOMAIN ver[t] |-> ver'[t][j]]
          /\ \A j \in DOMAIN ver[t] : ver'[t][j] \in Verifiers
      <3>1. ASSUME NEW i, NEW a, ver'[t] = [ver[t] EXCEPT ![i] = a],
                   i \in DOMAIN ver[t] => a \in Verifiers
            PROVE  /\ ver'[t] = [j \in DOMAIN ver[t] |-> ver'[t][j]]
                   /\ \A j \in DOMAIN ver[t] : ver'[t][j] \in Verifiers
        BY <1>a, <1>f, <3>1
      <3>2. ASSUME NEW i, i \in DOMAIN ver[t]
            PROVE  /\ [ver[t][i] EXCEPT !.state = "COMPLETED"] \in Verifiers
                   /\ [ver[t][i] EXCEPT !.turn = "answered"] \in Verifiers
        BY <1>f, <2>3, <3>2
      <3>3. CASE ver'[t] = ver[t]
        BY <1>a, <1>f, <3>3
      <3> QED BY <2>2, <3>1, <3>2, <3>3
    <2> QED BY <1>a, <2>4, SessionsKept
  <1>5. ASSUME Interrupts PROVE Kept
    <2>1. PICK S \in SUBSET WithTurn : Interrupted(S)
      BY <1>5 DEF Interrupts, interrupt_agent, StopInterrupts
    <2>2. ver'[t] = [i \in DOMAIN ver[t] |->
                       IF <<t, i>> \in S THEN [ver[t][i] EXCEPT !.state = "INTERRUPTED"]
                                         ELSE ver[t][i]]
      BY <2>1 DEF Interrupted
    <2>3. \A a \in Verifiers : [a EXCEPT !.state = "INTERRUPTED"] \in Verifiers
      BY DEF Verifiers, AgentStates, Ended
    <2>4. /\ ver'[t] = [j \in DOMAIN ver[t] |-> ver'[t][j]]
          /\ \A j \in DOMAIN ver[t] : ver'[t][j] \in Verifiers
      BY <1>f, <2>2, <2>3
    <2> QED BY <1>a, <2>4, SessionsKept
  <1>6. ASSUME Recovers PROVE Kept
    <2>1. \/ ver'[t] = [i \in DOMAIN ver[t] |-> Orphan(ver[t][i])]
          \/ ver'[t] = [i \in DOMAIN ver[t] |-> Lost(ver[t][i])]
      BY <1>6 DEF Recovers, PumpProcessExit, CrashRestart, reconcile_orphaned_sessions
    <2>2. \A a \in Verifiers : Orphan(a) \in Verifiers /\ Lost(a) \in Verifiers
      BY DEF Verifiers, AgentStates, Ended, Orphan, Lost, Session
    <2>3. /\ ver'[t] = [j \in DOMAIN ver[t] |-> ver'[t][j]]
          /\ \A j \in DOMAIN ver[t] : ver'[t][j] \in Verifiers
      BY <1>f, <2>1, <2>2
    <2> QED BY <1>a, <2>3, SessionsKept
  <1>7. CASE \E p \in Procs : ReviewSession(p)
    <2>1. CASE ver'[t] = ver[t]
      BY <1>a, <2>1
    <2>2. CASE ver'[t] # ver[t]
      BY <1>1, <1>7, <2>2
    <2> QED BY <2>1, <2>2
  <1>8. CASE \E p \in Procs : ReviewAgent(p)
    BY <1>2, <1>8
  <1> HIDE DEF Kept
  <1>9. CASE Kept
    BY <1>9 DEF Kept
  <1> QED BY <1>3, <1>4, <1>5, <1>6, <1>7, <1>8, <1>9, <1>b, Writers

(* A gate once run and a verdict once accepted stay on record.              *)
LEMMA ProofMoves ==
    ASSUME TaskTypes, Next, NEW t \in Tasks
    PROVE  /\ gate[t] # "none" => gate'[t] # "none"
           /\ accepted[t] => accepted'[t]
           /\ accepted'[t] => accepted[t] \/ (VerdictAccepts /\ loc["pump"].cur = t)
  <1>a. gate \in [Tasks -> {"none", "pass", "fail"}] /\ accepted \in [Tasks -> BOOLEAN]
    BY DEF TaskTypes
  <1>1. ASSUME NEW p \in Procs, run_review_ready_validation_gate(p)
        PROVE  gate[t] # "none" => gate'[t] # "none"
    BY <1>a, <1>1 DEF run_review_ready_validation_gate
  <1>2. ASSUME VerdictAccepts
        PROVE  accepted'[t] = IF loc["pump"].cur = t THEN TRUE ELSE accepted[t]
    BY <1>a, <1>2 DEF VerdictAccepts
  <1> QED BY <1>1, <1>2, Writers

(* How a task loses its leases.                                             *)
LEMMA LeaseMoves ==
    ASSUME TaskTypes, Next, NEW t \in Tasks, lease[t] = "active", lease'[t] # "active"
    PROVE  \/ UNCHANGED task /\ (task[t] \notin Held \/ GateOutlastsTtl)
           \/ task'[t] \notin Early
           \/ \E p \in Procs : pc[p] = "st_undo" /\ loc[p].cur = t
           \/ GivenUp /\ GivenUp'
           \/ \E o \in Operators : pc[o] = "sr_leases"
  <1>a. /\ lease \in [Tasks -> LeaseStates] /\ task \in [Tasks -> TaskStates]
        /\ task[t] \in TaskStates
    BY DEF TaskTypes
  <1>b. \A n \in {"NEEDS_HELP", "CANCELED"} : Unless(task[t], n) \notin Early
    BY <1>a DEF Unless, can_transition_to, Early, Suspended, Terminal, TaskStates
  <1>1. ~ UNCHANGED lease
    OBVIOUS
  <1>2. CASE \E p \in Procs : acquire_path_leases(p) \/ ReviewCapacity(p)
    <2>1. lease'[t] = "active"
      BY <1>a, <1>2 DEF acquire_path_leases, ReviewCapacity, Renewed
    <2> QED BY <2>1
  <1>3. CASE PumpProgress \/ PumpTurnCompleted \/ PumpVerdict
    <2>1. lease'[t] = "active"
      BY <1>a, <1>3 DEF PumpProgress, PumpTurnCompleted, PumpVerdict, Renewed
    <2> QED BY <2>1
  <1>4. CASE \E p \in Procs : StartFailed(p)
    BY <1>a, <1>4 DEF StartFailed
  <1>5. CASE \E p \in Procs : ReviewGateRejects(p) \/ ReviewAgent(p)
    BY <1>a, <1>b, <1>5 DEF ReviewGateRejects, ReviewAgent, Early
  <1>6. CASE TurnEnds
    <2>1. CASE TurnEndsInStoppingRun
      BY <2>1 DEF TurnEndsInStoppingRun, GivenUp, SetRun, SameRun
    <2>2. CASE TurnFailed \/ VerifierTurnDone
      BY <1>a, <1>b, <2>2 DEF TurnFailed, VerifierTurnDone, Early
    <2> QED BY <1>6, <2>1, <2>2 DEF TurnEnds
  <1>7. CASE FinalizeWorker \/ Verdicts
    BY <1>a, <1>b, <1>7 DEF FinalizeWorker, Verdicts, VerdictRejects, VerdictAccepts, Early
  <1>8. CASE Cancels
    BY <1>1, <1>8 DEF Cancels, StopCancels
  <1>9. CASE LeaseExpires
    BY <1>a, <1>9 DEF LeaseExpires
  <1> QED BY <1>1, <1>2, <1>3, <1>4, <1>5, <1>6, <1>7, <1>8, <1>9, Writers

(* A stopped run leaves that state only by the conflict of an integration.  *)
LEMMA RunMoves ==
    ASSUME Next, GivenUp, ~ GivenUp'
    PROVE  pc["pump"] = "ig_pick"
  BY Writers DEF GivenUp, TurnEndsInStoppingRun, VerdictMovesOn, prepare_integration, Stops, stop_run,
       Cancels, StopCancels, SetRun, SameRun

-----------------------------------------------------------------------------
(* Types.                                                                   *)

(* Every row stays a row per task.                                          *)
LEMMA Rows ==
    ASSUME TaskTypes, AgentTypes, Next
    PROVE  /\ task' = [t \in Tasks |-> task'[t]] /\ attempt' = [t \in Tasks |-> attempt'[t]]
           /\ lease' = [t \in Tasks |-> lease'[t]] /\ gate' = [t \in Tasks |-> gate'[t]]
           /\ accepted' = [t \in Tasks |-> accepted'[t]]
           /\ worker' = [t \in Tasks |-> worker'[t]] /\ ver' = [t \in Tasks |-> ver'[t]]
  <1> USE DEF TaskTypes, AgentTypes, agentVars, taskVars
  <1>1. task' = [t \in Tasks |-> task'[t]]
    <2>1. CASE TurnEnds \/ FinalizeWorker \/ Verdicts \/ VerdictMovesOn \/ Cancels
      BY <2>1 DEF TurnEnds, TurnEndsInStoppingRun, TurnFailed, VerifierTurnDone, FinalizeWorker,
           Verdicts, VerdictRejects, VerdictAccepts, VerdictMovesOn, Cancels, StopCancels,
           mark_unblocked_tasks_ready
    <2>2. CASE prepare_integration
      BY <2>2 DEF prepare_integration
    <2>3. CASE \E p \in Procs : \/ TickCount(p) \/ TickGithub(p) \/ create_task_attempt(p)
                                \/ StartSession(p) \/ StartFailed(p)
                                \/ ReviewGateRejects(p) \/ ReviewSession(p) \/ ReviewAgent(p)
      BY <2>3 DEF TickCount, TickGithub, github_capability, create_task_attempt, StartSession,
           StartFailed, ReviewGateRejects, ReviewSession, ReviewAgent,
           mark_unblocked_tasks_ready
    <2>4. CASE Interrupts \/ Recovers
      BY <2>4 DEF Interrupts, interrupt_agent, StopInterrupts, Interrupted, Recovers,
           PumpProcessExit, CrashRestart, reconcile_orphaned_sessions
    <2>5. CASE UNCHANGED task
      BY <2>5
    <2> QED BY <2>1, <2>2, <2>3, <2>4, <2>5, Writers
  <1>2. attempt' = [t \in Tasks |-> attempt'[t]]
    <2>1. CASE TurnEnds \/ FinalizeWorker \/ Verdicts
      BY <2>1 DEF TurnEnds, TurnEndsInStoppingRun, TurnFailed, VerifierTurnDone, FinalizeWorker,
           Verdicts, VerdictRejects, VerdictAccepts
    <2>2. CASE \E p \in Procs : \/ create_task_attempt(p) \/ StartWorktreeFails(p)
                                \/ acquire_path_leases(p) \/ StartFailed(p)
                                \/ ReviewGateRejects(p) \/ ReviewAgent(p)
      BY <2>2 DEF create_task_attempt, StartWorktreeFails, acquire_path_leases, StartFailed,
           ReviewGateRejects, ReviewAgent
    <2>3. CASE Interrupts \/ Recovers
      BY <2>3 DEF Interrupts, interrupt_agent, StopInterrupts, Interrupted, Recovers,
           PumpProcessExit, CrashRestart, reconcile_orphaned_sessions
    <2>4. CASE UNCHANGED attempt
      BY <2>4
    <2> QED BY <2>1, <2>2, <2>3, <2>4, Writers
  <1>3. lease' = [t \in Tasks |-> lease'[t]]
    <2>1. CASE TurnEnds \/ FinalizeWorker \/ Verdicts \/ Cancels
      BY <2>1 DEF TurnEnds, TurnEndsInStoppingRun, TurnFailed, VerifierTurnDone, FinalizeWorker,
           Verdicts, VerdictRejects, VerdictAccepts, Cancels, StopCancels
    <2>2. CASE LeaseExpires \/ PumpProgress \/ PumpTurnCompleted \/ PumpVerdict
      BY <2>2 DEF LeaseExpires, PumpProgress, PumpTurnCompleted, PumpVerdict
    <2>3. CASE \E p \in Procs : \/ acquire_path_leases(p) \/ StartFailed(p)
                                \/ ReviewGateRejects(p) \/ ReviewCapacity(p) \/ ReviewAgent(p)
      BY <2>3 DEF acquire_path_leases, StartFailed, ReviewGateRejects, ReviewCapacity,
           ReviewAgent
    <2>4. CASE UNCHANGED lease
      BY <2>4
    <2> QED BY <2>1, <2>2, <2>3, <2>4, Writers
  <1>4. gate' = [t \in Tasks |-> gate'[t]] /\ accepted' = [t \in Tasks |-> accepted'[t]]
    BY Writers DEF run_review_ready_validation_gate, VerdictAccepts
  <1>5. worker' = [t \in Tasks |-> worker'[t]]
    <2>1. CASE TurnEnds \/ FinalizeWorker \/ PumpTurnCompleted
      BY <2>1 DEF TurnEnds, TurnEndsInStoppingRun, TurnFailed, VerifierTurnDone, FinalizeWorker,
           PumpTurnCompleted, SetAgent
    <2>2. CASE \E p \in Procs : StartSession(p) \/ StartAgent(p)
      BY <2>2 DEF StartSession, StartAgent
    <2>3. CASE Interrupts \/ Recovers
      BY <2>3 DEF Interrupts, interrupt_agent, StopInterrupts, Interrupted, Recovers,
           PumpProcessExit, CrashRestart, reconcile_orphaned_sessions
    <2>4. CASE UNCHANGED worker
      BY <2>4
    <2> QED BY <2>1, <2>2, <2>3, <2>4, Writers
  <1>6. ver' = [t \in Tasks |-> ver'[t]]
    <2>1. CASE TurnEnds \/ Verdicts \/ PumpTurnCompleted \/ PumpVerdict
      BY <2>1 DEF TurnEnds, TurnEndsInStoppingRun, TurnFailed, VerifierTurnDone,
           Verdicts, VerdictRejects, VerdictAccepts, PumpTurnCompleted, PumpVerdict, SetAgent
    <2>2. CASE \E p \in Procs : ReviewSession(p) \/ ReviewAgent(p)
      BY <2>2 DEF ReviewSession, ReviewAgent
    <2>3. CASE Interrupts \/ Recovers
      BY <2>3 DEF Interrupts, interrupt_agent, StopInterrupts, Interrupted, Recovers,
           PumpProcessExit, CrashRestart, reconcile_orphaned_sessions
    <2>4. CASE UNCHANGED ver
      BY <2>4
    <2> QED BY <2>1, <2>2, <2>3, <2>4, Writers
  <1> QED BY <1>1, <1>2, <1>3, <1>4, <1>5, <1>6

LEMMA TaskTypesStep ==
    ASSUME CallTypes, TaskTypes, AgentTypes, Next
    PROVE  TaskTypes'
  <1>a. /\ task \in [Tasks -> TaskStates] /\ attempt \in [Tasks -> AttemptStates]
        /\ lease \in [Tasks -> LeaseStates] /\ gate \in [Tasks -> {"none", "pass", "fail"}]
        /\ accepted \in [Tasks -> BOOLEAN]
    BY DEF TaskTypes
  <1>1. ASSUME NEW t \in Tasks PROVE task'[t] \in TaskStates
    BY <1>a, TaskMoves DEF TaskStates, Suspended
  <1>2. ASSUME NEW t \in Tasks PROVE attempt'[t] \in AttemptStates
    <2> USE DEF AttemptStates
    <2>1. CASE TurnEnds \/ FinalizeWorker \/ Verdicts
      BY <1>a, <2>1 DEF TurnEnds, TurnEndsInStoppingRun, TurnFailed, VerifierTurnDone,
           FinalizeWorker, Verdicts, VerdictRejects, VerdictAccepts
    <2>2. CASE \E p \in Procs : \/ create_task_attempt(p) \/ StartWorktreeFails(p)
                                \/ acquire_path_leases(p) \/ StartFailed(p)
                                \/ ReviewGateRejects(p) \/ ReviewAgent(p)
      BY <1>a, <2>2 DEF create_task_attempt, StartWorktreeFails, acquire_path_leases,
           StartFailed, ReviewGateRejects, ReviewAgent
    <2>3. CASE Interrupts \/ Recovers
      BY <1>a, <2>3 DEF Interrupts, interrupt_agent, StopInterrupts, Interrupted, Recovers,
           PumpProcessExit, CrashRestart, reconcile_orphaned_sessions
    <2>4. CASE UNCHANGED attempt
      BY <1>a, <2>4
    <2> QED BY <2>1, <2>2, <2>3, <2>4, Writers
  <1>3. ASSUME NEW t \in Tasks PROVE lease'[t] \in LeaseStates
    <2> USE DEF LeaseStates, Released, Renewed
    <2>1. CASE TurnEnds \/ FinalizeWorker \/ Verdicts \/ Cancels
      BY <1>a, <2>1 DEF TurnEnds, TurnEndsInStoppingRun, TurnFailed, VerifierTurnDone,
           FinalizeWorker, Verdicts, VerdictRejects, VerdictAccepts, Cancels, StopCancels
    <2>2. CASE LeaseExpires \/ PumpProgress \/ PumpTurnCompleted \/ PumpVerdict
      BY <1>a, <2>2 DEF LeaseExpires, PumpProgress, PumpTurnCompleted, PumpVerdict
    <2>3. CASE \E p \in Procs : \/ acquire_path_leases(p) \/ StartFailed(p)
                                \/ ReviewGateRejects(p) \/ ReviewCapacity(p) \/ ReviewAgent(p)
      BY <1>a, <2>3 DEF acquire_path_leases, StartFailed, ReviewGateRejects, ReviewCapacity,
           ReviewAgent
    <2>4. CASE UNCHANGED lease
      BY <1>a, <2>4
    <2> QED BY <2>1, <2>2, <2>3, <2>4, Writers
  <1>4. gate' \in [Tasks -> {"none", "pass", "fail"}] /\ accepted' \in [Tasks -> BOOLEAN]
    BY <1>a, Writers DEF run_review_ready_validation_gate, VerdictAccepts
  <1>5. /\ task' \in [Tasks -> TaskStates] /\ attempt' \in [Tasks -> AttemptStates]
        /\ lease' \in [Tasks -> LeaseStates]
    BY <1>1, <1>2, <1>3, Rows
  <1> QED BY <1>4, <1>5 DEF TaskTypes

LEMMA AgentTypesStep ==
    ASSUME CallTypes, TaskTypes, AgentTypes, Next
    PROVE  AgentTypes'
  <1>a. worker \in [Tasks -> Workers] /\ ver \in [Tasks -> Seq(Verifiers)]
    BY DEF AgentTypes
  <1>b. \A s \in AgentStates, u \in {"none", "open"} : Session(s, u) \in Workers
    BY DEF Session, Workers
  <1>1. ASSUME NEW t \in Tasks PROVE worker'[t] \in Workers
    <2> USE DEF AgentStates, Ended
    <2>1. CASE TurnEnds \/ FinalizeWorker
      BY <1>a, <1>b, <2>1 DEF TurnEnds, TurnEndsInStoppingRun, TurnFailed, VerifierTurnDone,
           FinalizeWorker, SetAgent, agentVars
    <2>6. CASE PumpTurnCompleted
      <3>1. \E u, i, s : s \in AgentStates /\ SetAgent(u, i, Session(s, "none"))
        BY <2>6 DEF PumpTurnCompleted
      <3> QED BY <1>a, <1>b, <3>1 DEF SetAgent
    <2>2. CASE \E p \in Procs : StartSession(p) \/ StartAgent(p)
      BY <1>a, <1>b, <2>2 DEF StartSession, StartAgent
    <2>3. CASE Interrupts
      <3>1. worker'[t] \in {worker[t], [worker[t] EXCEPT !.state = "INTERRUPTED"]}
        BY <2>3 DEF Interrupts, interrupt_agent, StopInterrupts, Interrupted
      <3> QED BY <1>a, <3>1 DEF Workers
    <2>4. CASE Recovers
      <3>1. worker'[t] \in {Orphan(worker[t]), Lost(worker[t])}
        BY <2>4 DEF Recovers, PumpProcessExit, CrashRestart, reconcile_orphaned_sessions
      <3> QED BY <1>a, <3>1 DEF Workers, Orphan, Lost, Session
    <2>5. CASE UNCHANGED worker
      BY <1>a, <2>5
    <2> QED BY <2>1, <2>2, <2>3, <2>4, <2>5, <2>6, Writers
  <1>2. ASSUME NEW t \in Tasks PROVE ver'[t] \in Seq(Verifiers)
    <2>1. Session("STARTING", "none") \in Verifiers /\ ver[t] \in Seq(Verifiers)
      BY <1>a DEF Session, Verifiers, AgentStates
    <2>2. Append(ver[t], Session("STARTING", "none")) \in Seq(Verifiers)
      BY <2>1
    <2> QED BY <2>2, VerMoves
  <1> QED BY <1>1, <1>2, Rows DEF AgentTypes

LEMMA RunTypesStep ==
    ASSUME RunTypes, Next
    PROVE  RunTypes'
  <1> USE DEF RunTypes, RunStates, runVars, bounds, SetRun, SameRun
  <1>1. ASSUME NEW p \in Procs, Tick(p) \/ Start(p) \/ Review(p) PROVE RunTypes'
    <2>1. UNCHANGED <<runVars, bounds>>
      BY <1>1 DEF Tick, TickBegin, TickCount, TickReviewNext, TickStartNext, TickGithub,
           github_capability, Start, StartCheck, create_task_attempt, StartWorktreeFails,
           acquire_path_leases, StartSession, StartAgent, StartFailed, Review, ReviewCheck,
           GateBegins, run_review_ready_validation_gate, ReviewGateRejects, ReviewCapacity,
           ReviewSession, ReviewAgent
    <2> QED BY <2>1
  <1>2. CASE Pump
    <2>1. CASE TurnEndsInStoppingRun
      BY <2>1 DEF TurnEndsInStoppingRun
    <2>2. CASE VerdictMovesOn
      BY <2>2 DEF VerdictMovesOn
    <2>3. CASE prepare_integration
      BY <2>3 DEF prepare_integration
    <2>4. CASE \/ PumpProgress \/ PumpTurnCompleted \/ TurnFailed \/ VerifierTurnDone
               \/ FinalizeWorkerCheck \/ FinalizeWorker \/ PumpVerdict \/ Verdicts
      <3>1. UNCHANGED <<runVars, bounds>>
        BY <2>4 DEF PumpProgress, PumpTurnCompleted, TurnFailed, VerifierTurnDone,
             FinalizeWorkerCheck, FinalizeWorker, PumpVerdict, Verdicts, VerdictRejects,
             VerdictAccepts
      <3> QED BY <3>1
    <2> QED BY <1>2, <2>1, <2>2, <2>3, <2>4 DEF Pump, Verdicts
  <1>3. ASSUME NEW o \in Operators, Operator(o) PROVE RunTypes'
    <2>1. CASE StopInterrupts(o)
      BY <2>1 DEF StopInterrupts
    <2>2. CASE StopCancels(o)
      BY <2>2 DEF StopCancels
    <2>3. CASE request_task_review(o) \/ interrupt_agent(o)
      <3>1. UNCHANGED <<runVars, crashes, exits>> /\ commands' = commands + 1
        BY <2>3 DEF request_task_review, interrupt_agent, CommandIssued
      <3> QED BY <3>1
    <2>5. CASE stop_run(o)
      <3>1. /\ run' = "STOPPING" /\ paused' = TRUE /\ version' = version + 2
            /\ commands' = commands + 1 /\ UNCHANGED <<integration, crashes, exits>>
        BY <2>5 DEF stop_run, CommandIssued
      <3> QED BY <3>1
    <2>4. CASE set_scheduler_paused(o)
      <3>1. version' = version + 1 /\ commands' = commands + 1
            /\ UNCHANGED <<run, integration, crashes, exits>>
        BY <2>4 DEF set_scheduler_paused, CommandIssued
      <3>2. paused' \in BOOLEAN
        BY <2>4 DEF set_scheduler_paused
      <3> QED BY <3>1, <3>2
    <2> QED BY <1>3, <2>1, <2>2, <2>3, <2>4, <2>5 DEF Operator
  <1>4. CASE Environment \/ MaintenanceTick
    BY <1>4 DEF Environment, LeaseExpires, PumpProcessExit, CrashRestart, MaintenanceTick
  <1>5. {"maint", "pump"} \subseteq Procs
    BY DEF Procs
  <1> QED BY <1>1, <1>2, <1>3, <1>4, <1>5 DEF Next

(* The fields of a call's locals keep their types under every update.       *)
LEMMA LocalKept ==
    ASSUME NEW r \in Locals
    PROVE  /\ \A c \in Tasks \cup {Nobody} : [r EXCEPT !.cur = c] \in Locals
           /\ \A S \in SUBSET Tasks : /\ [r EXCEPT !.todo = S] \in Locals
                                      /\ [r EXCEPT !.waiting = S] \in Locals
           /\ \A n \in Nat : /\ [r EXCEPT !.seen = n] \in Locals
                             /\ [r EXCEPT !.total = n] \in Locals
                             /\ [r EXCEPT !.mutable = n] \in Locals
                             /\ [r EXCEPT !.verifiers = n] \in Locals
           /\ \A i \in Nat : [r EXCEPT !.vid = i] \in Locals
           /\ r.total \in Nat /\ r.mutable \in Nat /\ r.verifiers \in Nat
           /\ r.todo \subseteq Tasks
  <1>1. /\ r.total \in Nat /\ r.mutable \in Nat /\ r.verifiers \in Nat
        /\ r.todo \subseteq Tasks
    BY DEF Locals
  <1>2. /\ \A c \in Tasks \cup {Nobody} : [r EXCEPT !.cur = c] \in Locals
        /\ \A S \in SUBSET Tasks : /\ [r EXCEPT !.todo = S] \in Locals
                                /\ [r EXCEPT !.waiting = S] \in Locals
        /\ \A n \in Nat : /\ [r EXCEPT !.seen = n] \in Locals
                          /\ [r EXCEPT !.total = n] \in Locals
                          /\ [r EXCEPT !.mutable = n] \in Locals
                          /\ [r EXCEPT !.verifiers = n] \in Locals
        /\ \A i \in Nat : [r EXCEPT !.vid = i] \in Locals
    BY DEF Locals
  <1> QED BY <1>1, <1>2

LEMMA LocalsKept ==
    ASSUME NEW r \in Locals, NEW n \in Nat, NEW m \in Nat
    PROVE  /\ [r EXCEPT !.mutable = n, !.total = m] \in Locals
           /\ [r EXCEPT !.total = n, !.verifiers = m, !.vid = 0] \in Locals
           /\ \A S \in SUBSET Tasks :
                [r EXCEPT !.todo = S, !.mutable = n, !.verifiers = m, !.total = n + m] \in Locals
  <1>1. [r EXCEPT !.mutable = n, !.total = m] \in Locals
    <2>1. [r EXCEPT !.mutable = n] \in Locals
      BY LocalKept
    <2>2. [[r EXCEPT !.mutable = n] EXCEPT !.total = m] \in Locals
      BY <2>1, LocalKept
    <2> QED BY <2>2
  <1>2. [r EXCEPT !.total = n, !.verifiers = m, !.vid = 0] \in Locals
    <2>1. [r EXCEPT !.total = n] \in Locals
      BY LocalKept
    <2>2. [[r EXCEPT !.total = n] EXCEPT !.verifiers = m] \in Locals
      BY <2>1, LocalKept
    <2>3. 0 \in Nat
      OBVIOUS
    <2>4. [[[r EXCEPT !.total = n] EXCEPT !.verifiers = m] EXCEPT !.vid = 0] \in Locals
      BY <2>2, <2>3, LocalKept
    <2> QED BY <2>4
  <1>3. ASSUME NEW S \in SUBSET Tasks
        PROVE  [r EXCEPT !.todo = S, !.mutable = n, !.verifiers = m, !.total = n + m] \in Locals
    <2>1. n + m \in Nat
      OBVIOUS
    <2>2. [r EXCEPT !.todo = S] \in Locals
      BY LocalKept
    <2>3. [[r EXCEPT !.todo = S] EXCEPT !.mutable = n] \in Locals
      BY <2>2, LocalKept
    <2>4. [[[r EXCEPT !.todo = S] EXCEPT !.mutable = n] EXCEPT !.verifiers = m] \in Locals
      BY <2>3, LocalKept
    <2>5. [[[[r EXCEPT !.todo = S] EXCEPT !.mutable = n] EXCEPT !.verifiers = m]
              EXCEPT !.total = n + m] \in Locals
      BY <2>1, <2>4, LocalKept
    <2> QED BY <2>5
  <1> QED BY <1>1, <1>2, <1>3

LEMMA LocKept ==
    ASSUME loc \in [Procs -> Locals], NEW p \in Procs
    PROVE  /\ \A c \in Tasks : [loc EXCEPT ![p].cur = c] \in [Procs -> Locals]
           /\ \A n \in Nat : [loc EXCEPT ![p].seen = n] \in [Procs -> Locals]
           /\ \A i \in Nat : [loc EXCEPT ![p].vid = i] \in [Procs -> Locals]
           /\ \A c \in Tasks, i \in Nat :
                [loc EXCEPT ![p].cur = c, ![p].vid = i] \in [Procs -> Locals]
           /\ \A c \in Tasks : [loc EXCEPT ![p].todo = @ \ {c}, ![p].cur = c] \in [Procs -> Locals]
           /\ \A S, W \in SUBSET Tasks :
                [loc EXCEPT ![p].todo = S, ![p].waiting = W, ![p].cur = Nobody] \in [Procs -> Locals]
           /\ [loc EXCEPT ![p].mutable = @ + 1, ![p].total = @ + 1] \in [Procs -> Locals]
           /\ \A k \in 0..1 :
                [loc EXCEPT ![p].total = @ + k, ![p].verifiers = @ + k, ![p].vid = 0]
                   \in [Procs -> Locals]
  <1>a. loc[p] \in Locals /\ \A c : loc[p].todo \ {c} \in SUBSET Tasks
    BY LocalKept
  <1>b. loc[p].mutable \in Nat /\ loc[p].total \in Nat /\ loc[p].verifiers \in Nat
    BY <1>a, LocalKept
  <1>c. ASSUME NEW r \in Locals PROVE [loc EXCEPT ![p] = r] \in [Procs -> Locals]
    OBVIOUS
  <1>1. ASSUME NEW c \in Tasks PROVE [loc EXCEPT ![p].cur = c] \in [Procs -> Locals]
    BY <1>a, LocalKept
  <1>2. ASSUME NEW n \in Nat PROVE [loc EXCEPT ![p].seen = n] \in [Procs -> Locals]
    BY <1>a, LocalKept
  <1>3. ASSUME NEW i \in Nat PROVE [loc EXCEPT ![p].vid = i] \in [Procs -> Locals]
    BY <1>a, LocalKept
  <1>4. ASSUME NEW c \in Tasks, NEW i \in Nat
        PROVE  [loc EXCEPT ![p].cur = c, ![p].vid = i] \in [Procs -> Locals]
    BY <1>a, LocalKept
  <1>5. ASSUME NEW c \in Tasks
        PROVE  [loc EXCEPT ![p].todo = @ \ {c}, ![p].cur = c] \in [Procs -> Locals]
    BY <1>a, LocalKept
  <1>6. ASSUME NEW S \in SUBSET Tasks, NEW W \in SUBSET Tasks
        PROVE  [loc EXCEPT ![p].todo = S, ![p].waiting = W, ![p].cur = Nobody]
                  \in [Procs -> Locals]
    BY <1>a, LocalKept
  <1>7. [loc EXCEPT ![p].mutable = @ + 1, ![p].total = @ + 1] \in [Procs -> Locals]
    <2>1. loc[p].mutable + 1 \in Nat /\ loc[p].total + 1 \in Nat
      BY <1>b
    <2>2. [loc[p] EXCEPT !.mutable = loc[p].mutable + 1, !.total = loc[p].total + 1] \in Locals
      BY <1>a, <2>1, LocalsKept
    <2>3. [loc EXCEPT ![p].mutable = @ + 1, ![p].total = @ + 1] =
          [loc EXCEPT ![p] = [loc[p] EXCEPT !.mutable = loc[p].mutable + 1,
                                            !.total = loc[p].total + 1]]
      BY <1>a DEF Locals
    <2> QED BY <1>c, <2>2, <2>3
  <1>8. ASSUME NEW k \in 0..1
        PROVE  [loc EXCEPT ![p].total = @ + k, ![p].verifiers = @ + k, ![p].vid = 0]
                  \in [Procs -> Locals]
    <2>1. loc[p].total + k \in Nat /\ loc[p].verifiers + k \in Nat
      BY <1>b
    <2>2. [loc[p] EXCEPT !.total = loc[p].total + k, !.verifiers = loc[p].verifiers + k, !.vid = 0]
             \in Locals
      BY <1>a, <2>1, LocalsKept
    <2>3. [loc EXCEPT ![p].total = @ + k, ![p].verifiers = @ + k, ![p].vid = 0] =
          [loc EXCEPT ![p] = [loc[p] EXCEPT !.total = loc[p].total + k,
                                            !.verifiers = loc[p].verifiers + k, !.vid = 0]]
      BY <1>a DEF Locals
    <2> QED BY <1>c, <2>2, <2>3
  <1> QED BY <1>1, <1>2, <1>3, <1>4, <1>5, <1>6, <1>7, <1>8

(* The counts of active_agent_counts are numbers.                           *)
LEMMA Counts ==
    ASSUME AgentTypes
    PROVE  Cardinality(ActiveWorkers) \in Nat /\ Cardinality(ActiveVerifiers) \in Nat
  <1>1. IsFiniteSet(Tasks)
    BY TaskExecutionAssumption
  <1>2. IsFiniteSet(ActiveWorkers)
    BY <1>1, FS_Subset DEF ActiveWorkers
  <1> DEFINE Of(t) == {<<t, i>> : i \in {j \in DOMAIN ver[t] :
                                            agent_state_consumes_capacity(ver[t][j])}}
             All == {Of(t) : t \in Tasks}
  <1>3. ASSUME NEW t \in Tasks PROVE IsFiniteSet(Of(t))
    <2> DEFINE D == {j \in DOMAIN ver[t] : agent_state_consumes_capacity(ver[t][j])}
    <2>1. ver[t] \in Seq(Verifiers)
      BY DEF AgentTypes
    <2>2. DOMAIN ver[t] = 1..Len(ver[t]) /\ 1 \in Int /\ Len(ver[t]) \in Int
      BY <2>1
    <2>3. \A a, b \in Int : IsFiniteSet(a..b)
      BY FS_Interval
    <2>4. IsFiniteSet(DOMAIN ver[t])
      BY <2>2, <2>3, Zenon
    <2>5. IsFiniteSet(D)
      BY <2>4, FS_Subset
    <2> HIDE DEF D
    <2>6. [i \in D |-> <<t, i>>] \in Surjection(D, {<<t, i>> : i \in D})
      BY DEF Surjection
    <2>7. IsFiniteSet({<<t, i>> : i \in D})
      BY <2>5, <2>6, FS_Surjection
    <2> QED BY <2>7 DEF D
  <1> HIDE DEF Of
  <1>4. [t \in Tasks |-> Of(t)] \in Surjection(Tasks, All)
    BY DEF Surjection
  <1>5. IsFiniteSet(All) /\ \A T \in All : IsFiniteSet(T)
    BY <1>1, <1>3, <1>4, FS_Surjection
  <1>6. ActiveVerifiers = UNION All
    BY DEF ActiveVerifiers, Of
  <1> HIDE DEF All
  <1>7. IsFiniteSet(ActiveVerifiers)
    BY <1>5, <1>6, FS_UNION
  <1> QED BY <1>2, <1>7, FS_CardinalityType

(* The turn whose end the pump takes up is a worker's or a verifier's.      *)
LEMMA TurnTaken ==
    ASSUME AgentTypes, PumpTurnCompleted
    PROVE  \E t \in Tasks, i \in Nat :
              /\ i = 0 \/ i \in DOMAIN ver[t]
              /\ TurnLive(Agent(t, i))
              /\ loc' = [loc EXCEPT !["pump"].cur = t, !["pump"].vid = i]
  <1>1. PICK t \in Tasks : \E i \in 0..Len(ver[t]) :
           /\ TurnLive(Agent(t, i))
           /\ loc' = [loc EXCEPT !["pump"].cur = t, !["pump"].vid = i]
    BY DEF PumpTurnCompleted
  <1>2. PICK i \in 0..Len(ver[t]) :
           /\ TurnLive(Agent(t, i))
           /\ loc' = [loc EXCEPT !["pump"].cur = t, !["pump"].vid = i]
    BY <1>1
  <1>3. ver[t] \in Seq(Verifiers)
    BY DEF AgentTypes
  <1>4. i \in Nat /\ (i = 0 \/ i \in DOMAIN ver[t])
    BY <1>3
  <1> QED BY <1>2, <1>4

LEMMA CallTypesStep ==
    ASSUME CallTypes, RunTypes, AgentTypes, Next,
           \A p \in Procs : pc[p] = "rv_session" => loc[p].cur \in Tasks
    PROVE  CallTypes'
  <1>a. /\ pc \in [Procs -> Labels] /\ loc \in [Procs -> Locals]
        /\ lock \in Procs \cup {Nobody} /\ NoLocals \in Locals
        /\ {"pump", "maint"} \subseteq Procs /\ Operators \subseteq Procs
        /\ \A t \in Tasks : Len(ver[t]) \in Nat /\ DOMAIN ver[t] = 1..Len(ver[t])
    <2>1. \A t \in Tasks : ver[t] \in Seq(Verifiers)
      BY DEF AgentTypes
    <2>2. \A t \in Tasks : Len(ver[t]) \in Nat /\ DOMAIN ver[t] = 1..Len(ver[t])
      BY <2>1
    <2> QED BY <2>2 DEF CallTypes, Procs, NoLocals, Locals
  <1>f. /\ \A p \in Procs : loc[p] \in Locals
        /\ \A p \in Procs : \A c : loc[p].todo \ {c} \in SUBSET Tasks
    BY <1>a, LocalKept
  <1> DEFINE Typed == CallTypes'
  <1>b. ASSUME NEW p \in Procs, Finish(p) PROVE Typed
    BY <1>a, <1>b DEF Finish, Goto, CallTypes, Labels
  <1>c. ASSUME NEW p \in Procs, NEW l \in Labels, Stay(p, l) PROVE Typed
    BY <1>a, <1>c DEF Stay, Goto, CallTypes
  <1>d. ASSUME NEW p \in Procs, NEW l \in Labels, Goto(p, l), UNCHANGED lock,
               loc' \in [Procs -> Locals]
        PROVE  Typed
    BY <1>a, <1>d DEF Goto, CallTypes
  <1>e. ASSUME NEW p \in Procs, NEW n \in 0..1, ReviewReturn(p, n) PROVE Typed
    <2>1. CASE lock # p
      BY <1>b, <1>e, <2>1 DEF ReviewReturn
    <2>2. CASE lock = p
      <3>0. loc' = [loc EXCEPT ![p].total = @ + n, ![p].verifiers = @ + n, ![p].vid = 0]
        BY <1>e, <2>2 DEF ReviewReturn
      <3>1. loc' \in [Procs -> Locals]
        BY <1>a, <3>0, LocKept
      <3> QED BY <1>d, <1>e, <2>2, <3>1 DEF ReviewReturn, Labels
    <2> QED BY <2>1, <2>2
  <1> HIDE DEF Typed
  <1>1. ASSUME NEW p \in Procs, Tick(p) PROVE Typed
    <2>1. CASE TickBegin(p)
      BY <1>a, <1>b, <2>1 DEF TickBegin, Goto, CallTypes, Labels, Typed
    <2>2. CASE TickCount(p)
      <3> DEFINE S == {t \in Tasks : task'[t] = "REVIEW_READY"}
      <3>1. [NoLocals EXCEPT !.todo = S,
                             !.mutable = Cardinality(ActiveWorkers),
                             !.verifiers = Cardinality(ActiveVerifiers),
                             !.total = Cardinality(ActiveWorkers) + Cardinality(ActiveVerifiers)]
            \in Locals
        BY <1>a, Counts, LocalsKept
      <3>2. CASE ~ Finish(p)
        <4>1. loc' \in [Procs -> Locals]
          BY <1>a, <2>2, <3>1, <3>2 DEF TickCount
        <4> QED BY <1>d, <2>2, <3>2, <4>1 DEF TickCount, Labels
      <3> QED BY <1>b, <3>2
    <2>3. CASE TickReviewNext(p)
      <3> DEFINE W == {t \in Tasks : task[t] = "WAITING_RESOURCE"}
                 S == {t \in Tasks : task[t] \in {"READY", "WAITING_RESOURCE"}}
      <3>0. CASE \E t \in loc[p].todo : loc' = [loc EXCEPT ![p].todo = @ \ {t}, ![p].cur = t]
        <4>1. PICK t \in Tasks : loc' = [loc EXCEPT ![p].todo = @ \ {t}, ![p].cur = t]
          BY <1>f, <3>0, LocalKept
        <4>2. [loc EXCEPT ![p].todo = @ \ {t}, ![p].cur = t] \in [Procs -> Locals]
          BY <1>a, LocKept
        <4>3. loc' \in [Procs -> Locals]
          BY <4>1, <4>2
        <4> QED BY <1>d, <2>3, <4>3 DEF TickReviewNext, Labels
      <3>1. CASE loc' = [loc EXCEPT ![p].todo = S, ![p].waiting = W, ![p].cur = Nobody]
        <4>1. [loc EXCEPT ![p].todo = S, ![p].waiting = W, ![p].cur = Nobody]
                 \in [Procs -> Locals]
          BY <1>a, LocKept
        <4>2. loc' \in [Procs -> Locals]
          BY <3>1, <4>1
        <4> QED BY <1>d, <2>3, <4>2 DEF TickReviewNext, Labels
      <3> QED BY <2>3, <3>0, <3>1 DEF TickReviewNext
    <2>4. CASE TickStartNext(p)
      <3>1. CASE ~ Finish(p)
        <4>0. PICK t \in Tasks : loc' = [loc EXCEPT ![p].todo = @ \ {t}, ![p].cur = t]
          BY <1>f, <2>4, <3>1, LocalKept DEF TickStartNext
        <4>2. [loc EXCEPT ![p].todo = @ \ {t}, ![p].cur = t] \in [Procs -> Locals]
          BY <1>a, LocKept
        <4>1. loc' \in [Procs -> Locals]
          BY <4>0, <4>2
        <4> QED BY <1>d, <2>4, <3>1, <4>1 DEF TickStartNext, Labels
      <3> QED BY <1>b, <3>1
    <2>5. CASE TickGithub(p)
      BY <1>b, <1>c, <2>5 DEF TickGithub, github_capability, Labels
    <2> QED BY <1>1, <2>1, <2>2, <2>3, <2>4, <2>5 DEF Tick
  <1>2. ASSUME NEW p \in Procs, Start(p) PROVE Typed
    <2>1. CASE StartAgent(p)
      <3>1. CASE ~ Stay(p, "st_undo")
        <4>0. loc' = [loc EXCEPT ![p].mutable = @ + 1, ![p].total = @ + 1]
          BY <2>1, <3>1 DEF StartAgent
        <4>1. loc' \in [Procs -> Locals]
          BY <1>a, <4>0, LocKept
        <4> QED BY <1>d, <2>1, <3>1, <4>1 DEF StartAgent, Labels
      <3> QED BY <1>c, <3>1 DEF Labels
    <2> QED BY <1>2, <1>c, <2>1 DEF Start, StartCheck, create_task_attempt, StartWorktreeFails,
              acquire_path_leases, StartSession, StartFailed, Labels
  <1>3. ASSUME NEW p \in Procs, Review(p) PROVE Typed
    <2>1. CASE ReviewSession(p)
      <3>1. CASE ~ Finish(p)
        <4>0. pc[p] = "rv_session"
          BY <2>1 DEF ReviewSession
        <4>a. Len(ver[loc[p].cur]) \in Nat
          BY <1>a, <4>0, Zenon
        <4>1. Len(ver[loc[p].cur]) + 1 \in Nat
          BY <4>a
        <4>b. loc' = [loc EXCEPT ![p].vid = Len(ver[loc[p].cur]) + 1]
          BY <2>1, <3>1 DEF ReviewSession
        <4>c. [loc EXCEPT ![p].vid = Len(ver[loc[p].cur]) + 1] \in [Procs -> Locals]
          BY <1>a, <4>1, LocKept
        <4>2. loc' \in [Procs -> Locals]
          BY <4>b, <4>c
        <4> QED BY <1>d, <2>1, <3>1, <4>2 DEF ReviewSession, Labels
      <3> QED BY <1>b, <3>1
    <2>2. CASE ReviewCheck(p) \/ GateBegins(p) \/ run_review_ready_validation_gate(p)
      BY <1>b, <1>c, <1>e, <2>2 DEF ReviewCheck, GateBegins,
           run_review_ready_validation_gate, Labels
    <2>3. CASE ReviewGateRejects(p) \/ ReviewCapacity(p) \/ ReviewAgent(p)
      BY <1>b, <1>c, <1>e, <2>3 DEF ReviewGateRejects, ReviewCapacity, ReviewAgent, Labels
    <2> QED BY <1>3, <2>1, <2>2, <2>3 DEF Review
  <1>4. ASSUME Pump PROVE Typed
    <2>1. CASE PumpProgress
      BY <1>a, <2>1 DEF PumpProgress, CallTypes, Typed
    <2>2. CASE PumpTurnCompleted
      <3>a. PICK t \in Tasks, i \in Nat :
              loc' = [loc EXCEPT !["pump"].cur = t, !["pump"].vid = i]
        BY <2>2, TurnTaken
      <3>b. [loc EXCEPT !["pump"].cur = t, !["pump"].vid = i] \in [Procs -> Locals]
        BY <1>a, LocKept
      <3>1. loc' \in [Procs -> Locals]
        BY <3>a, <3>b
      <3> QED BY <1>a, <1>d, <2>2, <3>1 DEF PumpTurnCompleted, Labels
    <2>3. CASE PumpVerdict
      <3>c. \E t \in Tasks : \E i \in DOMAIN ver[t] :
              \/ loc' = [loc EXCEPT !["pump"].cur = t, !["pump"].vid = i]
              \/ loc' = loc
        BY <2>3 DEF PumpVerdict
      <3>d. \A t \in Tasks : DOMAIN ver[t] \subseteq Nat
        BY <1>a
      <3>a. PICK t \in Tasks, i \in Nat :
              \/ loc' = [loc EXCEPT !["pump"].cur = t, !["pump"].vid = i]
              \/ loc' = loc
        BY <3>c, <3>d, Zenon
      <3>b. [loc EXCEPT !["pump"].cur = t, !["pump"].vid = i] \in [Procs -> Locals]
        BY <1>a, LocKept
      <3>1. loc' \in [Procs -> Locals]
        BY <1>a, <3>a, <3>b
      <3>2. pc' \in [Procs -> Labels] /\ UNCHANGED lock
        BY <1>a, <2>3 DEF PumpVerdict, Labels
      <3> QED BY <1>a, <3>1, <3>2 DEF CallTypes, Typed
    <2>4. CASE VerdictMovesOn
      <3>1. CASE ~ Finish("pump") /\ ~ \E l \in Labels : Stay("pump", l)
        <4>1. loc' \in [Procs -> Locals]
          BY <1>a, <2>4, <3>1 DEF VerdictMovesOn, Labels
        <4> QED BY <1>a, <1>d, <2>4, <3>1, <4>1 DEF VerdictMovesOn, Labels
      <3> QED BY <1>a, <1>b, <1>c, <3>1
    <2>5. CASE TurnEnds \/ FinalizeWorkerCheck \/ FinalizeWorker \/ Verdicts
      BY <1>a, <1>b, <1>c, <2>5 DEF TurnEnds, TurnEndsInStoppingRun, TurnFailed,
           VerifierTurnDone, FinalizeWorkerCheck, FinalizeWorker, Verdicts, VerdictRejects,
           VerdictAccepts, Labels
    <2>6. CASE prepare_integration
      BY <1>a, <1>b, <1>c, <2>6 DEF prepare_integration, Labels
    <2> QED BY <1>4, <2>1, <2>2, <2>3, <2>4, <2>5, <2>6 DEF Pump, TurnEnds, Verdicts
  <1>5. ASSUME NEW o \in Operators, Operator(o) PROVE Typed
    <2>1. CASE interrupt_agent(o) \/ set_scheduler_paused(o)
      BY <1>a, <2>1 DEF interrupt_agent, set_scheduler_paused, CallTypes, Typed
    <2>2. CASE request_task_review(o)
      <3>a. PICK t \in Tasks : loc' = [loc EXCEPT ![o].cur = t]
        BY <2>2 DEF request_task_review
      <3>b. [loc EXCEPT ![o].cur = t] \in [Procs -> Locals]
        BY <1>a, LocKept
      <3>1. loc' \in [Procs -> Locals]
        BY <3>a, <3>b
      <3> QED BY <1>a, <1>d, <2>2, <3>1 DEF request_task_review, Labels
    <2>3. CASE stop_run(o)
      <3>a. version + 2 \in Nat /\ loc' = [loc EXCEPT ![o].seen = version + 2]
        BY <2>3 DEF stop_run, RunTypes
      <3>b. [loc EXCEPT ![o].seen = version + 2] \in [Procs -> Locals]
        BY <1>a, <3>a, LocKept
      <3>1. loc' \in [Procs -> Locals]
        BY <3>a, <3>b
      <3> QED BY <1>a, <1>d, <2>3, <3>1 DEF stop_run, Labels
    <2>4. CASE StopInterrupts(o)
      BY <1>a, <1>c, <2>4 DEF StopInterrupts, Labels
    <2>5. CASE StopCancels(o)
      <3>1. CASE Finish(o) \/ \E l \in Labels : Stay(o, l)
        BY <1>a, <1>b, <1>c, <3>1
      <3>2. CASE pc[o] = "sr_drain" /\ ~ Finish(o)
        <4>a. version \in Nat /\ loc' = [loc EXCEPT ![o].seen = version]
          BY <2>5, <3>2 DEF StopCancels, RunTypes
        <4>b. [loc EXCEPT ![o].seen = version] \in [Procs -> Locals]
          BY <1>a, <4>a, LocKept
        <4>1. loc' \in [Procs -> Locals]
          BY <4>a, <4>b
        <4> QED BY <1>a, <1>d, <2>5, <3>2, <4>1 DEF StopCancels, Labels
      <3> QED BY <2>5, <3>1, <3>2 DEF StopCancels, Labels
    <2> QED BY <1>5, <2>1, <2>2, <2>3, <2>4, <2>5 DEF Operator
  <1>6. ASSUME Environment \/ MaintenanceTick PROVE Typed
    <2>1. CASE LeaseExpires \/ PumpProcessExit
      BY <1>a, <2>1 DEF LeaseExpires, PumpProcessExit, CallTypes, Typed
    <2>2. CASE CrashRestart
      BY <1>a, <2>2 DEF CrashRestart, CallTypes, Typed, Labels
    <2>3. CASE MaintenanceTick
      BY <1>a, <1>c, <2>3 DEF MaintenanceTick, Labels
    <2> QED BY <1>6, <2>1, <2>2, <2>3 DEF Environment
  <1> QED BY <1>a, <1>1, <1>2, <1>3, <1>4, <1>5, <1>6 DEF Next, Typed
=============================================================================
