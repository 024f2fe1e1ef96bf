------------------------- MODULE TaskExecutionProofs -------------------------
(***************************************************************************)
(* What the execution phase keeps for every set of tasks, dependencies and *)
(* contention, every capacity and any number of crashes, exits and         *)
(* operator commands.  None of the properties is inductive: whether a task *)
(* may be launched, reviewed or accepted was decided several awaits before *)
(* the step that acts on it.  EInv records what still holds at each of     *)
(* those places.                                                           *)
(***************************************************************************)
EXTENDS TaskExecutionMoves

Unjudged  == {"rv_check", "rv_gate", "rv_validate", "rv_capacity", "rv_session"}
Approved  == {"VERIFIED", "INTEGRATING", "INTEGRATED"}

(* Whoever is inside tick holds operation_lock.                             *)
LockHeld ==
    /\ \A p \in Procs : pc[p] \in Ticking => lock = p
    /\ \A p \in Procs : lock = p => pc[p] \in Ticking \cup Reviewing
    /\ \A p \in Procs : pc[p] = "idle" => loc[p] = NoLocals

(* A task without an attempt has nothing an attempt would leave, and a task *)
(* that waits to be launched has no attempt.                                *)
Untouched ==
    \A t \in Tasks :
        /\ attempt[t] = "none" =>
             /\ worker[t] = NoAgent /\ ver[t] = <<>>
             /\ task[t] \in Unstarted \cup {"NEEDS_HELP", "CANCELED"}
        /\ task[t] \in Unstarted => attempt[t] = "none"

(* What a call has picked: tasks to launch have no attempt until the one in *)
(* hand gets it, tasks to review have one.                                  *)
Picked ==
    \A p \in Procs :
        /\ pc[p] \in (Choosing \ {"tk_start"}) \cup Handling => loc[p].cur \in Tasks
        /\ pc[p] \in Choosing => \A t \in loc[p].todo : attempt[t] = "none"
        /\ pc[p] \in Choosing \ {"tk_start"} => loc[p].cur \notin loc[p].todo
        /\ pc[p] \in {"tk_github", "st_deps", "st_create"} => attempt[loc[p].cur] = "none"
        /\ pc[p] \in Handling \cup (Launching \ {"st_err"}) => attempt[loc[p].cur] # "none"
        /\ pc[p] = "tk_review" \/ (pc[p] \in Reviewing /\ lock = p) =>
              \A t \in loc[p].todo : attempt[t] # "none"

(* A task in the middle of its launch is nobody else's business.            *)
Launched ==
    \A p \in Procs :
        pc[p] \in Launching =>
            /\ task[loc[p].cur] \in Early \cup Suspended \cup {"READY"}
            /\ ~ TurnLive(worker[loc[p].cur]) /\ ver[loc[p].cur] = <<>>
            /\ \A q \in Procs : pc[q] \in Handling => loc[q].cur # loc[p].cur

(* Verifiers exist behind a gate, verdicts behind verifiers.                *)
Proved ==
    /\ ReviewReady => \A t \in Tasks : ver[t] # <<>> => gate[t] # "none"
    /\ \A t \in Tasks : accepted[t] => ver[t] # <<>>
    /\ \A t \in Tasks : task[t] \in Approved => accepted[t]
    /\ ReviewReady => \A p \in Procs : pc[p] \in Gated => gate[loc[p].cur] # "none"
    /\ \A p \in Procs : pc[p] \in Judging \cup {"rv_agent"} =>
          loc[p].vid \in DOMAIN ver[loc[p].cur]
    /\ \A p \in Procs : pc[p] \in {"ev_done", "ev_failed"} =>
          loc[p].vid = 0 \/ loc[p].vid \in DOMAIN ver[loc[p].cur]

(* Attempts are made on accepted dependencies.                              *)
Based ==
    /\ DependenciesAccepted
    /\ \A p \in Procs : pc[p] = "st_create" => \A d \in Deps[loc[p].cur] : accepted[d]

(* A task's verifiers and the calls that may still launch one are at most   *)
(* as many as there are calls: no review begins once the first was begun.   *)
MayReview(p, t) ==
    \/ pc[p] \in Unjudged /\ loc[p].cur = t
    \/ (pc[p] = "tk_review" \/ (pc[p] \in Reviewing /\ lock = p)) /\ t \in loc[p].todo
Reviewers(t) == {p \in Procs : MayReview(p, t)}
FewVerifiers ==
    /\ \A t \in Tasks :
          /\ task[t] \in Early \cup {"REVIEW_READY"} => ver[t] = <<>>
          /\ Len(ver[t]) + Cardinality(Reviewers(t)) <= Cardinality(Procs)
    /\ \A p \in Procs : pc[p] \in Reviewing /\ lock = p => loc[p].cur \notin loc[p].todo

(* A task occupies its paths from the moment its launch got the leases.     *)
Occupies(t) ==
    \/ Writer(t)
    \/ \E p \in Procs : /\ loc[p].cur = t
                        /\ \/ pc[p] = "st_session" /\ task[t] \in {"LEASED", "STARTING"}
                           \/ pc[p] = "st_agent" /\ task[t] = "IMPLEMENTING"
AllBegun ==
    /\ \A t \in Tasks : attempt[t] # "none" /\ ~ Occupies(t)
    /\ \A p \in Procs : pc[p] \notin {"st_lease", "st_session", "st_agent"}
Occupancy ==
    /\ ~ GivenUp => \A t \in Tasks : Occupies(t) => lease[t] = "active"
    /\ ~ GivenUp => \A t, u \in Tasks :
          t # u /\ {t, u} \in Contend => ~ (Occupies(t) /\ Occupies(u))
    /\ pc["pump"] = "ig_pick" => AllBegun
    /\ ~ GivenUp /\ (\E o \in Operators : pc[o] \in StopCalls) => AllBegun

EInv == /\ TypeOK /\ LockHeld /\ Untouched /\ Picked /\ Launched /\ Proved /\ Based
        /\ FewVerifiers

-----------------------------------------------------------------------------
LEMMA LockHeldStep ==
    ASSUME CallTypes, LockHeld, Next
    PROVE  LockHeld'
  <1>a. /\ pc \in [Procs -> Labels] /\ loc \in [Procs -> Locals] /\ Nobody \notin Procs
    BY TaskExecutionAssumption DEF CallTypes, Procs
  <1>1. ASSUME NEW p \in Procs, pc'[p] \in Ticking
        PROVE  lock = p \/ (TickBegin(p) /\ lock' = p)
    <2> USE DEF Launching
    <2>1. CASE Same(p)
      BY <1>1, <2>1 DEF Same, LockHeld
    <2>2. CASE pc'[p] = "tk_count"
      BY <1>a, <2>1, <2>2, Entered DEF TickBegin, Finish, Goto
    <2>3. CASE pc'[p] = "tk_review"
      BY <2>1, <2>3, Entered DEF TickCount, LockHeld, Ticking
    <2>4. CASE pc'[p] = "tk_start"
      <3>1. pc[p] \in Ticking
        BY <2>1, <2>4, Entered DEF TickReviewNext, TickGithub, github_capability, StartAgent,
             StartFailed, Ticking, Same
      <3> QED BY <3>1 DEF LockHeld
    <2>5. CASE pc'[p] \in {"tk_github", "st_deps", "st_create"}
      <3>1. pc[p] \in Ticking
        BY <2>1, <2>5, Entered DEF TickStartNext, TickGithub, github_capability, StartCheck,
             Ticking, Same
      <3> QED BY <3>1 DEF LockHeld
    <2>6. CASE pc'[p] \in Launching
      <3>1. pc[p] \in Ticking
        BY <2>1, <2>6, Entered DEF StartCheck, create_task_attempt, Ticking, Same
      <3> QED BY <3>1 DEF LockHeld
    <2> QED BY <1>1, <2>2, <2>3, <2>4, <2>5, <2>6 DEF Ticking
  <1>2. ASSUME NEW p \in Procs, pc'[p] \in Ticking PROVE lock' = p
    <2>1. CASE lock = p
      BY <1>a, <1>2, <2>1, LockMoves DEF Ticking, CrashRestart
    <2> QED BY <1>1, <1>2, <2>1
  <1>3. ASSUME NEW p \in Procs, lock' = p PROVE pc'[p] \in Ticking \cup Reviewing
    <2>1. CASE lock # p
      BY <1>a, <1>3, <2>1, LockMoves DEF CrashRestart, Ticking
    <2>2. CASE lock = p
      <3>1. pc[p] \in Ticking \cup Reviewing
        BY <2>2 DEF LockHeld
      <3>2. ~ Finish(p)
        BY <1>a, <1>3, <2>2 DEF Finish
      <3>3. CASE Same(p)
        BY <3>1, <3>3 DEF Same
      <3>4. CASE Tick(p) \/ Start(p)
        <4> USE DEF Goto, Stay, Ticking, Reviewing
        <4>1. CASE Tick(p)
          BY <1>a, <3>2, <4>1 DEF Tick, TickBegin, TickCount, TickReviewNext, TickStartNext,
               TickGithub, github_capability
        <4>2. CASE Start(p)
          BY <1>a, <3>2, <4>2 DEF Start, StartCheck, create_task_attempt, StartWorktreeFails,
               acquire_path_leases, StartSession, StartAgent, StartFailed
        <4> QED BY <3>4, <4>1, <4>2
      <3>5. CASE Review(p)
        BY <1>a, <3>2, <3>5 DEF Review, ReviewCheck, GateBegins,
             run_review_ready_validation_gate, ReviewGateRejects, ReviewCapacity,
             ReviewSession, ReviewAgent, ReviewReturn, Goto, Stay, Ticking, Reviewing
      <3>6. CASE p = "pump" /\ Pump
        BY <3>1, <3>6 DEF Pump, PumpProgress, PumpTurnCompleted, TurnEndsInStoppingRun,
             TurnFailed, VerifierTurnDone, FinalizeWorkerCheck, FinalizeWorker, PumpVerdict,
             VerdictRejects, VerdictAccepts, VerdictMovesOn, prepare_integration, Ticking,
             Reviewing
      <3>7. CASE p \in Operators /\ Operator(p)
        <4>1. CASE interrupt_agent(p) \/ set_scheduler_paused(p)
          BY <3>1, <4>1 DEF interrupt_agent, set_scheduler_paused
        <4> QED BY <3>1, <3>7, <4>1 DEF Operator, request_task_review, stop_run, CommandIssued,
                  StopInterrupts, StopCancels, Ticking, Reviewing
      <3>8. CASE p = "maint" /\ MaintenanceTick
        BY <3>1, <3>8 DEF MaintenanceTick, Ticking, Reviewing
      <3>9. CASE CrashRestart
        BY <1>a, <1>3, <3>9 DEF CrashRestart
      <3> QED BY <3>3, <3>4, <3>5, <3>6, <3>7, <3>8, <3>9, CallMoves
    <2> QED BY <2>1, <2>2
  <1>4. ASSUME NEW p \in Procs, pc'[p] = "idle" PROVE loc'[p] = NoLocals
    BY <1>4, Entered DEF Same, Reset, LockHeld
  <1> QED BY <1>2, <1>3, <1>4 DEF LockHeld

(* One call at a time is inside tick.                                       *)
LEMMA OneTick ==
    ASSUME LockHeld, NEW p \in Procs, NEW q \in Procs, pc[p] \in Ticking, pc[q] \in Ticking
    PROVE  p = q
  BY DEF LockHeld

(* A task gets its attempt from create_task_attempt and keeps one.          *)
LEMMA Begins ==
    ASSUME CallTypes, TaskTypes, AgentTypes, Untouched, Picked, Next, NEW t \in Tasks
    PROVE  /\ attempt[t] # "none" => attempt'[t] # "none"
           /\ attempt[t] = "none" /\ attempt'[t] # "none" =>
                \E p \in Procs : /\ create_task_attempt(p) /\ pc[p] = "st_create"
                                 /\ loc[p].cur = t /\ task'[t] = "LEASED"
  <1>1. attempt[t] # "none" => attempt'[t] # "none"
    BY AttemptMoves
  <1>2. ASSUME attempt[t] = "none", attempt'[t] # "none"
        PROVE  \E p \in Procs : create_task_attempt(p) /\ loc[p].cur = t
    <2>1. ~ TurnLive(worker[t]) /\ DOMAIN ver[t] = {} /\ task[t] \notin Held \cup {"STALLED"}
          /\ ~ agent_state_consumes_capacity(worker[t])
      BY <1>2 DEF Untouched, NoAgent, TurnLive, Held, agent_state_consumes_capacity, Unstarted,
           Ended
    <2>2. \A p \in Procs : loc[p].cur = t => pc[p] \notin Handling \cup (Launching \ {"st_err"})
      BY <1>2 DEF Picked
    <2> QED BY <1>2, <2>1, <2>2, AttemptMoves
  <1>3. ASSUME NEW p \in Procs, create_task_attempt(p), loc[p].cur = t
        PROVE  pc[p] = "st_create" /\ task'[t] = "LEASED"
    BY <1>3 DEF create_task_attempt, TaskTypes
  <1> QED BY <1>1, <1>2, <1>3

LEMMA UntouchedStep ==
    ASSUME CallTypes, TaskTypes, AgentTypes, Untouched, Picked, Next
    PROVE  Untouched'
  <1> SUFFICES ASSUME NEW t \in Tasks
               PROVE  /\ attempt'[t] = "none" =>
                           /\ worker'[t] = NoAgent /\ ver'[t] = <<>>
                           /\ task'[t] \in Unstarted \cup {"NEEDS_HELP", "CANCELED"}
                      /\ task'[t] \in Unstarted => attempt'[t] = "none"
    BY DEF Untouched
  <1>1. ASSUME attempt[t] = "none"
        PROVE  \A p \in Procs :
                  loc[p].cur = t => pc[p] \notin Handling \cup (Launching \ {"st_err"})
    BY <1>1 DEF Picked
  <1>2. ASSUME attempt[t] = "none"
        PROVE  /\ worker[t] = NoAgent /\ ver[t] = <<>>
               /\ task[t] \in Unstarted \cup {"NEEDS_HELP", "CANCELED"}
               /\ ~ TurnLive(worker[t]) /\ DOMAIN ver[t] = {} /\ task[t] \notin Held
               /\ ~ agent_state_consumes_capacity(worker[t])
    BY <1>2 DEF Untouched, NoAgent, TurnLive, Held, agent_state_consumes_capacity, Unstarted,
         Ended
  <1>3. ASSUME attempt'[t] = "none"
        PROVE  /\ worker'[t] = NoAgent /\ ver'[t] = <<>>
               /\ task'[t] \in Unstarted \cup {"NEEDS_HELP", "CANCELED"}
    <2>0. attempt[t] = "none"
      BY <1>3, Begins
    <2>1. worker'[t] = NoAgent
      BY <1>1, <1>2, <2>0, WorkerMoves
    <2>2. ver'[t] = <<>>
      <3>1. ~ \E p \in Procs : pc[p] = "rv_session" /\ loc[p].cur = t
        BY <1>1, <2>0 DEF Handling, Reviewing
      <3>2. ver'[t] \in Seq(Verifiers) /\ Len(ver'[t]) = Len(ver[t])
        BY <3>1, VerMoves
      <3>3. Len(ver'[t]) = 0
        BY <1>2, <2>0, <3>2
      <3> QED BY <3>2, <3>3
    <2>3. task'[t] \in Unstarted \cup {"NEEDS_HELP", "CANCELED"}
      <3>1. ~ \E p \in Procs : pc[p] \in Handling /\ loc[p].cur = t
        BY <1>1, <2>0
      <3>2. ~ \E p \in Procs : create_task_attempt(p) /\ loc[p].cur = t
        BY <1>3 DEF create_task_attempt, TaskTypes
      <3>3. ~ (VerdictAccepts /\ loc["pump"].cur = t)
        BY <3>1 DEF VerdictAccepts, Handling, Judging, Procs
      <3> QED BY <1>2, <2>0, <3>1, <3>2, <3>3, TaskMoves DEF Unstarted
    <2> QED BY <2>1, <2>2, <2>3
  <1>4. ASSUME task'[t] \in Unstarted PROVE attempt'[t] = "none"
    <2>1. attempt[t] = "none"
      BY <1>4, TaskMoves DEF Unstarted, Untouched, Picked
    <2> QED BY <1>4, <2>1, Begins DEF Unstarted
  <1> QED BY <1>3, <1>4

(* A call takes its task from what it was to do, from an event or from the  *)
(* operator's request, and keeps it.                                        *)
LEMMA Taken ==
    ASSUME CallTypes, TaskTypes, AgentTypes, Next, NEW p \in Procs
    PROVE  /\ pc'[p] \in {"tk_github", "st_deps", "st_create"} =>
                \/ pc[p] \in {"tk_github", "st_deps", "st_create"} /\ loc'[p] = loc[p]
                \/ /\ pc[p] = "tk_start" /\ loc'[p].cur \in loc[p].todo
                   /\ loc'[p].todo = loc[p].todo \ {loc'[p].cur}
           /\ pc'[p] \in Launching => /\ pc[p] \in {"st_deps", "st_create"} \cup Launching
                                      /\ loc'[p] = loc[p]
           /\ pc'[p] \in Launching \ {"st_err"} =>
                create_task_attempt(p) \/ pc[p] \in Launching \ {"st_err"}
           /\ pc'[p] = "tk_start" =>
                \/ pc[p] \in Choosing /\ loc'[p].todo = loc[p].todo
                \/ /\ pc[p] = "tk_review" /\ UNCHANGED attempt
                   /\ loc'[p].todo = {t \in Tasks : task[t] \in {"READY", "WAITING_RESOURCE"}}
           /\ pc'[p] \in Handling =>
                \/ /\ pc[p] \in Handling /\ loc'[p].cur = loc[p].cur
                   /\ loc'[p].todo = loc[p].todo
                \/ /\ pc[p] = "tk_review" /\ loc'[p].cur \in loc[p].todo
                   /\ loc'[p].todo = loc[p].todo \ {loc'[p].cur}
                   /\ pc'[p] = "rv_check" /\ UNCHANGED <<task, ver>>
                \/ /\ pc[p] = "idle" /\ loc'[p].cur \in Tasks
                   /\ \/ /\ task[loc'[p].cur] = "REVIEW_READY" /\ UNCHANGED <<task, ver>>
                         /\ pc'[p] = "rv_check"
                      \/ /\ TurnLive(worker[loc'[p].cur]) \/ DOMAIN ver[loc'[p].cur] # {}
                         /\ pc'[p] \notin Reviewing
           /\ lock' = p => lock = p \/ pc'[p] = "tk_count"
  <1>a. pc \in [Procs -> Labels] /\ loc \in [Procs -> Locals] /\ loc[p] \in Locals
        /\ Nobody \notin Procs
    BY TaskExecutionAssumption DEF CallTypes, Procs
  <1>s. Same(p) => pc'[p] = pc[p] /\ loc'[p] = loc[p]
    BY DEF Same
  <1>1. ASSUME pc'[p] \in {"tk_github", "st_deps", "st_create"}
        PROVE  \/ pc[p] \in {"tk_github", "st_deps", "st_create"} /\ loc'[p] = loc[p]
               \/ /\ pc[p] = "tk_start" /\ loc'[p].cur \in loc[p].todo
                  /\ loc'[p].todo = loc[p].todo \ {loc'[p].cur}
    <2>1. ASSUME TickStartNext(p)
          PROVE  /\ pc[p] = "tk_start" /\ loc'[p].cur \in loc[p].todo
                 /\ loc'[p].todo = loc[p].todo \ {loc'[p].cur}
      <3>1. pc[p] = "tk_start" /\ ~ Finish(p)
        BY <1>a, <1>1, <2>1 DEF TickStartNext, Finish, Goto
      <3>2. PICK t \in loc[p].todo : loc' = [loc EXCEPT ![p].todo = @ \ {t}, ![p].cur = t]
        BY <2>1, <3>1 DEF TickStartNext
      <3> QED BY <1>a, <3>1, <3>2 DEF Locals
    <2>2. CASE pc'[p] = "tk_github"
      BY <1>s, <2>1, <2>2, Entered
    <2>3. CASE pc'[p] = "st_deps"
      BY <1>s, <2>1, <2>3, Entered DEF TickGithub, github_capability
    <2>4. CASE pc'[p] = "st_create"
      BY <1>s, <2>4, Entered DEF StartCheck
    <2> QED BY <1>1, <2>2, <2>3, <2>4
  <1>2. ASSUME pc'[p] \in Launching
        PROVE  pc[p] \in {"st_deps", "st_create"} \cup Launching /\ loc'[p] = loc[p]
    BY <1>2, <1>s, Entered DEF StartCheck, create_task_attempt
  <1>3. ASSUME pc'[p] \in Launching \ {"st_err"}
        PROVE  create_task_attempt(p) \/ pc[p] \in Launching \ {"st_err"}
    <2>1. pc'[p] \in {"st_lease", "st_session", "st_agent", "st_undo"}
      BY <1>3 DEF Launching
    <2> QED BY <1>s, <2>1, Entered DEF acquire_path_leases, StartSession, Launching
  <1>4. ASSUME pc'[p] = "tk_start"
        PROVE  \/ pc[p] \in Choosing /\ loc'[p].todo = loc[p].todo
               \/ /\ pc[p] = "tk_review" /\ UNCHANGED attempt
                  /\ loc'[p].todo = {t \in Tasks : task[t] \in {"READY", "WAITING_RESOURCE"}}
    <2>1. ASSUME TickReviewNext(p)
          PROVE  /\ pc[p] = "tk_review" /\ UNCHANGED attempt
                 /\ loc'[p].todo = {t \in Tasks : task[t] \in {"READY", "WAITING_RESOURCE"}}
      <3>1. pc[p] = "tk_review" /\ UNCHANGED attempt /\ pc' # [pc EXCEPT ![p] = "rv_check"]
        BY <1>a, <1>4, <2>1 DEF TickReviewNext, taskVars
      <3>2. loc' = [loc EXCEPT
                ![p].todo = {t \in Tasks : task[t] \in {"READY", "WAITING_RESOURCE"}},
                ![p].waiting = {t \in Tasks : task[t] = "WAITING_RESOURCE"},
                ![p].cur = Nobody]
        BY <2>1, <3>1 DEF TickReviewNext, Goto
      <3> QED BY <1>a, <3>1, <3>2 DEF Locals
    <2>2. CASE TickGithub(p) \/ StartAgent(p) \/ StartFailed(p)
      BY <1>s, <1>4, <2>1, <2>2, Entered DEF TickGithub, github_capability, StartAgent,
           StartFailed, Choosing, Launching
    <2> QED BY <1>s, <1>4, <2>1, <2>2, Entered DEF Choosing
  <1>6. lock' = p => lock = p \/ pc'[p] = "tk_count"
    BY <1>a, LockMoves DEF CrashRestart
  <1>7. ASSUME pc'[p] \in Reviewing
        PROVE  \/ /\ pc[p] \in Handling /\ loc'[p].cur = loc[p].cur
                  /\ loc'[p].todo = loc[p].todo
               \/ /\ pc[p] = "tk_review" /\ loc'[p].cur \in loc[p].todo
                  /\ loc'[p].todo = loc[p].todo \ {loc'[p].cur}
                  /\ pc'[p] = "rv_check" /\ UNCHANGED <<task, ver>>
               \/ /\ pc[p] = "idle" /\ loc'[p].cur \in Tasks
                  /\ task[loc'[p].cur] = "REVIEW_READY" /\ UNCHANGED <<task, ver>>
                  /\ pc'[p] = "rv_check"
    <2>1. ASSUME TickReviewNext(p)
          PROVE  /\ pc[p] = "tk_review" /\ loc'[p].cur \in loc[p].todo
                 /\ loc'[p].todo = loc[p].todo \ {loc'[p].cur} /\ pc'[p] = "rv_check"
                 /\ UNCHANGED <<task, ver>>
      <3>0. pc[p] = "tk_review" /\ pc'[p] = "rv_check" /\ UNCHANGED <<task, ver>>
        BY <1>a, <1>7, <2>1 DEF TickReviewNext, taskVars, agentVars, Goto, Reviewing
      <3>1. PICK t \in loc[p].todo : loc' = [loc EXCEPT ![p].todo = @ \ {t}, ![p].cur = t]
        BY <1>a, <2>1, <3>0 DEF TickReviewNext, Goto
      <3> QED BY <1>a, <3>0, <3>1 DEF Locals
    <2>2. ASSUME p \in Operators, request_task_review(p)
          PROVE  /\ pc[p] = "idle" /\ loc'[p].cur \in Tasks
                 /\ task[loc'[p].cur] = "REVIEW_READY" /\ UNCHANGED <<task, ver>>
      <3>1. pc[p] = "idle" /\ UNCHANGED <<task, ver>>
        BY <2>2 DEF request_task_review, CommandIssued, taskVars, agentVars
      <3>2. PICK t \in Tasks : task[t] = "REVIEW_READY" /\ loc' = [loc EXCEPT ![p].cur = t]
        BY <2>2 DEF request_task_review
      <3> QED BY <1>a, <2>2, <3>1, <3>2 DEF Locals
    <2>3. CASE pc'[p] = "rv_check"
      BY <1>s, <2>1, <2>2, <2>3, Entered DEF FinalizeWorker, Handling, Reviewing
    <2>4. CASE pc'[p] # "rv_check"
      BY <1>s, <1>7, <2>4, Entered DEF Handling
    <2> QED BY <2>3, <2>4
  <1>8. ASSUME pc'[p] \in Handling \ Reviewing
        PROVE  \/ /\ pc[p] \in Handling /\ loc'[p].cur = loc[p].cur
                  /\ loc'[p].todo = loc[p].todo
               \/ /\ pc[p] = "idle" /\ loc'[p].cur \in Tasks
                  /\ TurnLive(worker[loc'[p].cur]) \/ DOMAIN ver[loc'[p].cur] # {}
    <2>1. ASSUME p = "pump", PumpTurnCompleted
          PROVE  /\ pc[p] = "idle" /\ loc'[p].cur \in Tasks
                 /\ TurnLive(worker[loc'[p].cur]) \/ DOMAIN ver[loc'[p].cur] # {}
      <3>1. PICK t \in Tasks, i \in Nat :
              /\ i = 0 \/ i \in DOMAIN ver[t]
              /\ TurnLive(Agent(t, i))
              /\ loc' = [loc EXCEPT !["pump"].cur = t, !["pump"].vid = i]
        BY <2>1, TurnTaken
      <3>2. pc[p] = "idle" /\ loc'[p].cur = t
        BY <1>a, <2>1, <3>1 DEF PumpTurnCompleted, Locals
      <3> QED BY <3>1, <3>2 DEF Agent
    <2>2. ASSUME p = "pump", PumpVerdict, ~ Same(p)
          PROVE  /\ pc[p] = "idle" /\ loc'[p].cur \in Tasks
                 /\ DOMAIN ver[loc'[p].cur] # {}
      <3>0. \E t \in Tasks : \E i \in DOMAIN ver[t] :
                 \/ loc' = [loc EXCEPT !["pump"].cur = t, !["pump"].vid = i]
                 \/ UNCHANGED <<pc, loc>>
        BY <2>2 DEF PumpVerdict
      <3>a. \A t \in Tasks : DOMAIN ver[t] \subseteq Nat
        <4>1. \A t \in Tasks : ver[t] \in Seq(Verifiers)
          BY DEF AgentTypes
        <4> QED BY <4>1
      <3>1. PICK t \in Tasks, i \in Nat :
              /\ i \in DOMAIN ver[t]
              /\ \/ loc' = [loc EXCEPT !["pump"].cur = t, !["pump"].vid = i]
                 \/ UNCHANGED <<pc, loc>>
        BY <3>0, <3>a, Zenon
      <3>2. pc[p] = "idle" /\ loc'[p].cur = t
        BY <1>a, <2>2, <3>1 DEF PumpVerdict, Locals, Same
      <3> QED BY <3>1, <3>2
    <2> QED BY <1>s, <1>8, <2>1, <2>2, Entered DEF Handling, Judging, Reviewing
  <1> HIDE DEF Handling, Choosing, Launching, Reviewing
  <1> QED BY <1>1, <1>2, <1>3, <1>4, <1>6, <1>7, <1>8

LEMMA PickedStep ==
    ASSUME CallTypes, TaskTypes, AgentTypes, LockHeld, Untouched, Untouched', Picked, Next
    PROVE  Picked'
  <1> SUFFICES ASSUME NEW p \in Procs
               PROVE  /\ pc'[p] \in (Choosing \ {"tk_start"}) \cup Handling => loc'[p].cur \in Tasks
                      /\ pc'[p] \in Choosing => \A t \in loc'[p].todo : attempt'[t] = "none"
                      /\ pc'[p] \in Choosing \ {"tk_start"} => loc'[p].cur \notin loc'[p].todo
                      /\ pc'[p] \in {"tk_github", "st_deps", "st_create"} =>
                            attempt'[loc'[p].cur] = "none"
                      /\ pc'[p] \in Handling \cup (Launching \ {"st_err"}) =>
                            attempt'[loc'[p].cur] # "none"
                      /\ pc'[p] = "tk_review" \/ (pc'[p] \in Reviewing /\ lock' = p) =>
                            \A t \in loc'[p].todo : attempt'[t] # "none"
    BY DEF Picked
  <1> DEFINE Deciding == {"tk_github", "st_deps", "st_create"}
  <1>a. pc[p] \in Labels /\ loc[p] \in Locals /\ loc[p].todo \subseteq Tasks
        /\ loc \in [Procs -> Locals] /\ pc \in [Procs -> Labels]
    BY DEF CallTypes, Locals
  <1>b. /\ pc[p] \in (Choosing \ {"tk_start"}) \cup Handling => loc[p].cur \in Tasks
        /\ pc[p] \in Choosing => \A t \in loc[p].todo : attempt[t] = "none"
        /\ pc[p] \in Choosing \ {"tk_start"} => loc[p].cur \notin loc[p].todo
        /\ pc[p] \in {"tk_github", "st_deps", "st_create"} => attempt[loc[p].cur] = "none"
        /\ pc[p] \in Handling \cup (Launching \ {"st_err"}) => attempt[loc[p].cur] # "none"
        /\ pc[p] = "tk_review" \/ (pc[p] \in Reviewing /\ lock = p) =>
              \A t \in loc[p].todo : attempt[t] # "none"
    BY DEF Picked
  <1>c. \A t \in Tasks : attempt[t] # "none" => attempt'[t] # "none"
    BY Begins
  (* Only p itself can create an attempt while it is inside tick.           *)
  <1>d. ASSUME NEW t \in Tasks, attempt[t] = "none", attempt'[t] # "none", pc[p] \in Ticking
        PROVE  /\ pc[p] = "st_create" /\ loc[p].cur = t
               /\ pc'[p] = "st_lease" /\ loc'[p] = loc[p]
    <2>1. PICK r \in Procs : create_task_attempt(r) /\ pc[r] = "st_create" /\ loc[r].cur = t
      BY <1>d, Begins
    <2>2. r = p
      BY <1>d, <2>1, OneTick DEF Ticking
    <2>3. pc'[r] = "st_lease" /\ loc'[r] = loc[r]
      BY <1>a, <2>1, <2>2 DEF create_task_attempt, Stay, Goto
    <2> QED BY <2>1, <2>2, <2>3
  <1>e. Choosing = {"tk_start"} \cup Deciding \cup Launching /\ Choosing \subseteq Ticking
    BY DEF Choosing, Ticking, Launching
  <1>f. /\ "tk_review" \in Ticking /\ "tk_start" \notin Deciding \cup Launching \cup Handling
        /\ Reviewing \subseteq Handling /\ "st_lease" \notin Deciding
        /\ "tk_review" \notin Handling /\ Handling \cap Choosing = {}
    BY DEF Ticking, Launching, Handling, Reviewing, Judging, Choosing
  <1> HIDE DEF Deciding
  <1>1. ASSUME pc'[p] \in Deciding
        PROVE  \/ pc[p] \in Deciding /\ loc'[p] = loc[p]
               \/ /\ pc[p] = "tk_start" /\ loc'[p].cur \in loc[p].todo
                  /\ loc'[p].todo = loc[p].todo \ {loc'[p].cur}
    BY <1>1, Taken DEF Deciding
  <1>2. ASSUME pc'[p] \in Launching
        PROVE  pc[p] \in Deciding \cup Launching /\ loc'[p] = loc[p]
    BY <1>2, Taken DEF Deciding
  <1>3. ASSUME pc'[p] \in Choosing \ {"tk_start"}
        PROVE  loc'[p].cur \in Tasks /\ loc'[p].cur \notin loc'[p].todo
    BY <1>3, <1>1, <1>2, <1>a, <1>b, <1>e, <1>f
  <1>4. ASSUME pc'[p] \in Handling
        PROVE  loc'[p].cur \in Tasks /\ attempt'[loc'[p].cur] # "none"
    <2>1. CASE pc[p] \in Handling /\ loc'[p].cur = loc[p].cur
      BY <1>b, <1>c, <2>1
    <2>2. CASE pc[p] = "tk_review" /\ loc'[p].cur \in loc[p].todo
      BY <1>a, <1>b, <1>c, <2>2
    <2>3. CASE /\ loc'[p].cur \in Tasks
               /\ \/ task[loc'[p].cur] = "REVIEW_READY"
                  \/ TurnLive(worker[loc'[p].cur]) \/ DOMAIN ver[loc'[p].cur] # {}
      <3>1. attempt[loc'[p].cur] # "none"
        BY <2>3 DEF Untouched, Unstarted, NoAgent, TurnLive
      <3> QED BY <1>c, <2>3, <3>1
    <2> QED BY <1>4, <2>1, <2>2, <2>3, Taken
  <1>5. ASSUME pc'[p] \in Launching \ {"st_err"} PROVE attempt'[loc'[p].cur] # "none"
    <2>1. loc'[p] = loc[p] /\ loc[p].cur \in Tasks
      BY <1>3, <1>5, <1>2, <1>e, <1>f
    <2>2. CASE create_task_attempt(p)
      BY <2>1, <2>2 DEF create_task_attempt, TaskTypes
    <2>3. CASE pc[p] \in Launching \ {"st_err"}
      BY <1>b, <1>c, <2>1, <2>3
    <2> QED BY <1>5, <2>2, <2>3, Taken
  <1>6. ASSUME pc'[p] \in Deciding PROVE attempt'[loc'[p].cur] = "none"
    <2>1. loc'[p].cur \in Tasks /\ attempt[loc'[p].cur] = "none"
      BY <1>1, <1>3, <1>6, <1>a, <1>b, <1>e, <1>f DEF Deciding
    <2>2. pc[p] \in Ticking
      BY <1>1, <1>6, <1>e
    <2> QED BY <1>d, <1>f, <1>6, <2>1, <2>2
  <1>7. ASSUME pc'[p] \in Choosing, NEW t \in loc'[p].todo PROVE attempt'[t] = "none"
    <2>1. CASE pc[p] \in Choosing /\ loc'[p].todo \subseteq loc[p].todo
      <3>1. t \in Tasks /\ attempt[t] = "none" /\ pc[p] \in Ticking
        BY <1>7, <1>a, <1>b, <1>e, <2>1
      <3>2. pc[p] = "st_create" => loc[p].cur \notin loc[p].todo
        BY <1>b DEF Choosing
      <3> QED BY <1>7, <1>d, <2>1, <3>1, <3>2
    <2>2. CASE /\ pc[p] = "tk_review" /\ UNCHANGED attempt
               /\ loc'[p].todo = {u \in Tasks : task[u] \in {"READY", "WAITING_RESOURCE"}}
      BY <1>7, <2>2 DEF Untouched, Unstarted
    <2>3. CASE pc'[p] = "tk_start"
      BY <2>1, <2>2, <2>3, Taken
    <2>4. CASE pc'[p] \in Deciding \cup Launching
      BY <1>1, <1>2, <1>e, <2>1, <2>4
    <2> QED BY <1>7, <1>e, <2>3, <2>4
  <1>8. ASSUME pc'[p] = "tk_review" \/ (pc'[p] \in Reviewing /\ lock' = p),
               NEW t \in loc'[p].todo
        PROVE  attempt'[t] # "none"
    <2>1. CASE /\ pc[p] = "tk_review" \/ (pc[p] \in Reviewing /\ lock = p)
               /\ loc'[p].todo \subseteq loc[p].todo
      BY <1>8, <1>a, <1>b, <1>c, <2>1
    <2>2. CASE pc'[p] = "tk_review"
      <3>1. CASE TickCount(p)
        <4>1. loc'[p].todo = {u \in Tasks : task'[u] = "REVIEW_READY"}
          BY <1>a, <2>2, <3>1 DEF TickCount, Finish, Goto, NoLocals
        <4> QED BY <1>8, <4>1 DEF Untouched, Unstarted
      <3>2. CASE Same(p)
        BY <1>8, <2>1, <2>2, <3>2 DEF Same
      <3> QED BY <2>1, <2>2, <3>1, <3>2, Entered
    <2>3. CASE pc'[p] \in Reviewing /\ lock' = p
      <3>1. lock = p
        BY <2>3, Taken DEF Reviewing
      <3>2. pc[p] \in Ticking \cup Reviewing
        BY <3>1 DEF LockHeld
      <3>3. pc[p] \in Handling => pc[p] \in Reviewing
        BY <3>2 DEF Ticking, Handling, Reviewing, Judging
      <3>4. pc[p] # "idle"
        BY <3>2 DEF Ticking, Reviewing
      <3>5. loc'[p].todo \subseteq loc[p].todo /\ (pc[p] \in Handling \/ pc[p] = "tk_review")
        BY <2>3, <3>4, <1>f, Taken
      <3> QED BY <2>1, <3>1, <3>3, <3>5
    <2> QED BY <1>8, <2>2, <2>3
  <1> QED BY <1>3, <1>4, <1>5, <1>6, <1>7, <1>8 DEF Deciding

LEMMA LaunchedStep ==
    ASSUME CallTypes, TaskTypes, AgentTypes, LockHeld, Untouched, Picked, Picked', Launched, Next
    PROVE  Launched'
  <1> SUFFICES ASSUME NEW p \in Procs, pc'[p] \in Launching
               PROVE  /\ task'[loc'[p].cur] \in Early \cup Suspended \cup {"READY"}
                      /\ ~ TurnLive(worker'[loc'[p].cur]) /\ ver'[loc'[p].cur] = <<>>
                      /\ \A q \in Procs : pc'[q] \in Handling => loc'[q].cur # loc'[p].cur
    BY DEF Launched, TurnLive
  <1>a. /\ pc[p] \in {"st_deps", "st_create"} \cup Launching /\ loc'[p] = loc[p]
        /\ pc[p] \in Ticking
    BY Taken DEF Ticking, Launching
  <1> DEFINE t == loc[p].cur
  <1>b. t \in Tasks /\ loc'[p].cur = t /\ Launching \cap Handling = {}
    BY <1>a DEF Picked, Choosing, Launching, Handling, Reviewing, Judging
  <1>c. pc \in [Procs -> Labels] /\ loc \in [Procs -> Locals]
    BY DEF CallTypes
  <1> HIDE DEF t
  <1>1. CASE pc[p] \in Launching
    <2>1. /\ task[t] \in Early \cup Suspended \cup {"READY"}
          /\ ~ TurnLive(worker[t]) /\ ver[t] = <<>>
          /\ \A q \in Procs : pc[q] \in Handling => loc[q].cur # t
      BY <1>1 DEF Launched, t
    <2>2. task'[t] \in Early \cup Suspended \cup {"READY"}
      <3>1. ~ (VerdictAccepts /\ loc["pump"].cur = t)
        BY <2>1 DEF VerdictAccepts, Handling, Judging, Procs
      <3>2. ~ (pc["pump"] = "fw_git" /\ loc["pump"].cur = t)
        BY <2>1 DEF Handling, Procs
      <3>3. task[t] \notin {"VERIFIED", "INTEGRATING"}
        BY <2>1 DEF Early, Suspended
      <3> QED BY <1>b, <2>1, <3>1, <3>2, <3>3, TaskMoves DEF Early, Suspended
    <2>3. ~ TurnLive(worker'[t])
      <3>1. ASSUME NEW r \in Procs, StartAgent(r), pc[r] = "st_agent", loc[r].cur = t
            PROVE  ~ TurnLive(worker'[t])
        <4>1. r = p
          BY <1>a, <3>1, OneTick DEF Ticking
        <4>2. pc' # [pc EXCEPT ![r] = "tk_start"]
          BY <1>c, <4>1 DEF Launching
        <4>3. worker' = [worker EXCEPT ![t] = Session("FAILED", "none")]
          BY <3>1, <4>2 DEF StartAgent, Goto
        <4> QED BY <1>b, <4>3 DEF AgentTypes, Session, TurnLive
      <3> QED BY <1>b, <2>1, <3>1, WorkerMoves
    <2>4. ver'[t] = <<>>
      <3>1. ~ \E r \in Procs : pc[r] = "rv_session" /\ loc[r].cur = t
        BY <2>1 DEF Handling, Reviewing
      <3>2. ver'[t] \in Seq(Verifiers) /\ Len(ver'[t]) = Len(ver[t])
        BY <1>b, <3>1, VerMoves
      <3>3. Len(ver'[t]) = 0
        BY <2>1, <3>2
      <3> QED BY <3>2, <3>3
    <2>5. ASSUME NEW q \in Procs, pc'[q] \in Handling PROVE loc'[q].cur # t
      <3>1. pc[q] # "tk_review"
        <4>1. pc[q] = "tk_review" => p = q
          BY <1>a, OneTick DEF Ticking
        <4> QED BY <1>1, <4>1 DEF Launching
      <3>2. task[t] # "REVIEW_READY" /\ DOMAIN ver[t] = {}
        BY <2>1 DEF Early, Suspended
      <3> QED BY <2>1, <2>5, <3>1, <3>2, Taken
    <2> QED BY <1>b, <2>2, <2>3, <2>4, <2>5
  <1>2. CASE pc[p] \in {"st_deps", "st_create"}
    <2>1. attempt[t] = "none"
      BY <1>2 DEF Picked, t
    <2>2. /\ task[t] \in Unstarted \cup {"NEEDS_HELP", "CANCELED"}
          /\ worker[t] = NoAgent /\ ver[t] = <<>>
      BY <1>b, <2>1 DEF Untouched
    <2>3. StartCheck(p) \/ create_task_attempt(p)
      BY <1>2, Entered DEF Same, Launching
    <2>4. UNCHANGED agentVars /\ (UNCHANGED task \/ task'[t] = "LEASED")
      BY <1>b, <2>3 DEF StartCheck, create_task_attempt, t, TaskTypes, taskVars
    <2>5. ASSUME NEW q \in Procs, pc'[q] \in Handling PROVE loc'[q].cur # t
      <3>1. q # p
        BY <1>b, <2>5
      <3>2. pc'[q] = pc[q] /\ loc'[q] = loc[q]
        BY <1>c, <2>3, <3>1 DEF StartCheck, create_task_attempt, Stay, Goto
      <3> QED BY <2>1, <2>5, <3>2 DEF Picked
    <2> QED BY <1>b, <2>2, <2>4, <2>5 DEF agentVars, NoAgent, TurnLive, Unstarted, Early,
         Suspended
  <1> QED BY <1>1, <1>2, <1>a

LEMMA ProvedStep ==
    ASSUME CallTypes, TaskTypes, AgentTypes, Picked, Proved, Next
    PROVE  Proved'
  <1>a. pc \in [Procs -> Labels] /\ loc \in [Procs -> Locals] /\ "pump" \in Procs
        /\ ver \in [Tasks -> Seq(Verifiers)] /\ gate \in [Tasks -> {"none", "pass", "fail"}]
    BY DEF CallTypes, AgentTypes, TaskTypes, Procs
  <1>b. ASSUME NEW t \in Tasks PROVE DOMAIN ver[t] \subseteq DOMAIN ver'[t]
    <2>1. ver[t] \in Seq(Verifiers) /\ Session("STARTING", "none") \in Verifiers
      BY <1>a DEF Session, Verifiers, AgentStates
    <2>2. DOMAIN ver[t] \subseteq DOMAIN Append(ver[t], Session("STARTING", "none"))
      BY <2>1
    <2> QED BY <2>2, VerMoves
  <1>c. ASSUME NEW t \in Tasks, DOMAIN ver[t] = {} PROVE ver[t] = <<>>
    <2>1. ver[t] \in Seq(Verifiers) /\ DOMAIN ver[t] = 1..Len(ver[t]) /\ Len(ver[t]) \in Nat
      BY <1>a
    <2>2. \A n \in Nat : n # 0 => 1 \in 1..n
      OBVIOUS
    <2>3. Len(ver[t]) = 0
      BY <1>c, <2>1, <2>2, Zenon
    <2> QED BY <2>1, <2>3
  <1>1. ASSUME ReviewReady, NEW t \in Tasks, ver'[t] # <<>> PROVE gate'[t] # "none"
    <2>1. gate[t] # "none"
      <3>1. CASE ver[t] # <<>>
        BY <1>1, <3>1 DEF Proved
      <3>2. CASE ver[t] = <<>>
        <4>1. ~ (ver'[t] \in Seq(Verifiers) /\ Len(ver'[t]) = Len(ver[t]))
          BY <1>1, <3>2
        <4>2. PICK p \in Procs : pc[p] = "rv_session" /\ loc[p].cur = t
          BY <4>1, VerMoves
        <4> QED BY <1>1, <4>2 DEF Proved, Gated
      <3> QED BY <3>1, <3>2
    <2> QED BY <2>1, ProofMoves
  <1>2. ASSUME NEW t \in Tasks, accepted'[t] PROVE ver'[t] # <<>>
    <2>1. CASE accepted[t]
      BY <1>b, <1>c, <2>1 DEF Proved
    <2>2. CASE VerdictAccepts /\ loc["pump"].cur = t
      <3>1. loc["pump"].vid \in DOMAIN ver[t]
        BY <1>a, <2>2 DEF VerdictAccepts, Proved, Judging
      <3> QED BY <1>b, <3>1
    <2> QED BY <1>2, <2>1, <2>2, ProofMoves
  <1>3. ASSUME NEW t \in Tasks, task'[t] \in Approved PROVE accepted'[t]
    <2>1. CASE task[t] \in Approved
      BY <2>1, ProofMoves DEF Proved
    <2>2. CASE VerdictAccepts /\ loc["pump"].cur = t
      BY <2>2 DEF VerdictAccepts, TaskTypes
    <2> QED BY <1>3, <2>1, <2>2, TaskMoves DEF Approved, Unstarted
  <1>d. ASSUME NEW p \in Procs, pc'[p] \in Handling, pc[p] \in Handling
        PROVE  loc'[p].cur = loc[p].cur /\ loc[p].cur \in Tasks
    <2>1. pc[p] \notin {"tk_review", "idle"}
      BY <1>d DEF Handling, Reviewing, Judging
    <2>2. loc[p].cur \in Tasks
      BY <1>d DEF Picked
    <2> QED BY <1>d, <2>1, <2>2, Taken
  <1>e. Gated \cup Judging \cup {"rv_agent", "ev_done", "ev_failed"} \subseteq Handling
        /\ Gated \subseteq Reviewing
    BY DEF Gated, Judging, Handling, Reviewing
  <1>4. ASSUME ReviewReady, NEW p \in Procs, pc'[p] \in Gated
        PROVE  gate'[loc'[p].cur] # "none"
    <2>0. pc[p] \in Reviewing
      BY <1>4, Entered DEF Same, Gated, Reviewing, run_review_ready_validation_gate, GateBegins
    <2>1. loc'[p].cur = loc[p].cur /\ loc[p].cur \in Tasks
      BY <1>4, <1>d, <1>e, <2>0 DEF Handling
    <2>2. CASE pc[p] \in Gated \/ gate[loc[p].cur] = "pass"
      BY <1>4, <2>1, <2>2, ProofMoves DEF Proved
    <2>3. CASE run_review_ready_validation_gate(p)
      <3>1. ~ Finish(p)
        BY <1>a, <1>4 DEF Finish, Goto, Gated
      <3> QED BY <1>a, <2>1, <2>3, <3>1 DEF run_review_ready_validation_gate
    <2> QED BY <1>4, <2>2, <2>3, Entered DEF Same
  <1>5. ASSUME NEW p \in Procs, pc'[p] \in Judging \cup {"rv_agent"}
        PROVE  loc'[p].vid \in DOMAIN ver'[loc'[p].cur]
    <2>1. CASE pc[p] \in Judging \cup {"rv_agent"} /\ loc'[p] = loc[p]
      BY <1>5, <1>b, <1>d, <1>e, <2>1 DEF Proved
    <2>2. CASE p = "pump" /\ PumpVerdict /\ ~ Same(p)
      <3>0. \E t \in Tasks : \E i \in DOMAIN ver[t] :
                 \/ loc' = [loc EXCEPT !["pump"].cur = t, !["pump"].vid = i]
                 \/ UNCHANGED <<pc, loc>>
        BY <2>2 DEF PumpVerdict
      <3>a. \A t \in Tasks : DOMAIN ver[t] \subseteq Nat
        <4>1. \A t \in Tasks : ver[t] \in Seq(Verifiers)
          BY DEF AgentTypes
        <4> QED BY <4>1
      <3>1. PICK t \in Tasks, i \in Nat :
              /\ i \in DOMAIN ver[t]
              /\ \/ loc' = [loc EXCEPT !["pump"].cur = t, !["pump"].vid = i]
                 \/ UNCHANGED <<pc, loc>>
        BY <3>0, <3>a, Zenon
      <3>2. loc'[p].cur = t /\ loc'[p].vid = i
        BY <1>a, <2>2, <3>1 DEF Locals, Same
      <3> QED BY <1>b, <3>1, <3>2
    <2>3. CASE ReviewSession(p) /\ pc'[p] = "rv_agent"
      <3>0. pc[p] = "rv_session" /\ pc' # [pc EXCEPT ![p] = "idle"]
        BY <1>a, <2>3 DEF ReviewSession
      <3>1. loc[p].cur \in Tasks
        BY <3>0 DEF Picked, Handling, Reviewing
      <3>2. /\ ver' = [ver EXCEPT ![loc[p].cur] = Append(@, Session("STARTING", "none"))]
            /\ loc' = [loc EXCEPT ![p].vid = Len(ver[loc[p].cur]) + 1]
        BY <2>3, <3>0 DEF ReviewSession, Finish, Goto
      <3>3. loc'[p].cur = loc[p].cur /\ loc'[p].vid = Len(ver[loc[p].cur]) + 1
        BY <1>a, <3>2 DEF Locals
      <3>4. ver[loc[p].cur] \in Seq(Verifiers) /\ Session("STARTING", "none") \in Verifiers
        BY <1>a, <3>1 DEF Session, Verifiers, AgentStates
      <3>5. Len(ver[loc[p].cur]) + 1 \in DOMAIN Append(ver[loc[p].cur], Session("STARTING", "none"))
        BY <3>4
      <3>6. ver'[loc[p].cur] = Append(ver[loc[p].cur], Session("STARTING", "none"))
        BY <1>a, <3>1, <3>2
      <3> QED BY <3>3, <3>5, <3>6
    <2>4. CASE Same(p)
      BY <1>5, <2>1, <2>4 DEF Same
    <2> QED BY <1>5, <2>1, <2>2, <2>3, <2>4, Entered DEF Judging
  <1>6. ASSUME NEW p \in Procs, pc'[p] \in {"ev_done", "ev_failed"}
        PROVE  loc'[p].vid = 0 \/ loc'[p].vid \in DOMAIN ver'[loc'[p].cur]
    <2>1. CASE Same(p)
      BY <1>6, <1>b, <1>d, <1>e, <2>1 DEF Proved, Same
    <2>2. CASE p = "pump" /\ PumpTurnCompleted
      <3>1. PICK t \in Tasks, i \in Nat :
              /\ i = 0 \/ i \in DOMAIN ver[t]
              /\ loc' = [loc EXCEPT !["pump"].cur = t, !["pump"].vid = i]
        BY <2>2, TurnTaken
      <3>2. loc'[p].cur = t /\ loc'[p].vid = i
        BY <1>a, <2>2, <3>1 DEF Locals
      <3> QED BY <1>b, <3>1, <3>2
    <2> QED BY <1>6, <2>1, <2>2, Entered
  <1> QED BY <1>1, <1>2, <1>3, <1>4, <1>5, <1>6 DEF Proved

LEMMA BasedStep ==
    ASSUME CallTypes, TaskTypes, AgentTypes, Untouched, Picked, Picked', Proved, Based, Next
    PROVE  Based'
  <1>a. /\ \A t \in Tasks : Deps[t] \subseteq Tasks
        /\ \A t \in Tasks : accepted[t] => accepted'[t]
    BY ProofMoves, TaskExecutionAssumption
  <1>1. ASSUME NEW t \in Tasks, attempt'[t] # "none", NEW d \in Deps[t] PROVE accepted'[d]
    BY <1>1, <1>a, Begins DEF Based, DependenciesAccepted
  <1>2. ASSUME NEW p \in Procs, pc'[p] = "st_create", NEW d \in Deps[loc'[p].cur]
        PROVE  accepted'[d]
    <2>0. loc'[p].cur \in Tasks /\ d \in Tasks
      BY <1>2, <1>a DEF Picked, Choosing
    <2>1. CASE Same(p)
      BY <1>2, <1>a, <2>0, <2>1 DEF Same, Based
    <2>2. CASE StartCheck(p) /\ loc'[p] = loc[p]
      <3>1. pc' # [pc EXCEPT ![p] = "st_err"]
        BY <1>2 DEF CallTypes
      <3>2. task[d] = "VERIFIED"
        BY <1>2, <2>2, <3>1 DEF StartCheck, Stay, Goto
      <3> QED BY <1>a, <2>0, <3>2 DEF Proved, Approved
    <2> QED BY <1>2, <2>1, <2>2, Entered
  <1> QED BY <1>1, <1>2 DEF Based, DependenciesAccepted

LEMMA ProcsFinite ==
    IsFiniteSet(Procs) /\ Cardinality(Procs) \in Nat
  <1>1. IsFiniteSet({"maint", "pump"})
    <2>1. IsFiniteSet({"maint"} \cup {"pump"})
      BY FS_Singleton, FS_AddElement
    <2>2. {"maint"} \cup {"pump"} = {"maint", "pump"}
      OBVIOUS
    <2> QED BY <2>1, <2>2
  <1>2. IsFiniteSet({"maint", "pump"} \cup Operators)
    BY <1>1, TaskExecutionAssumption, FS_Union
  <1> QED BY <1>2, FS_CardinalityType DEF Procs

LEMMA FewVerifiersStep ==
    ASSUME CallTypes, TaskTypes, AgentTypes, LockHeld, Untouched, Picked, FewVerifiers, Next
    PROVE  FewVerifiers'
  <1>a. pc \in [Procs -> Labels] /\ loc \in [Procs -> Locals]
        /\ ver \in [Tasks -> Seq(Verifiers)] /\ IsFiniteSet(Procs)
        /\ Session("STARTING", "none") \in Verifiers
    BY ProcsFinite DEF CallTypes, AgentTypes, Session, Verifiers, AgentStates
  <1>b. ASSUME NEW t \in Tasks, ver[t] = <<>>, task'[t] # "VERIFYING" PROVE ver'[t] = <<>>
    <2>1. ~ (task' = [task EXCEPT ![t] = "VERIFYING"])
      BY <1>b DEF TaskTypes
    <2>2. ver'[t] \in Seq(Verifiers) /\ Len(ver'[t]) = Len(ver[t])
      BY <2>1, VerMoves
    <2>3. Len(ver'[t]) = 0
      BY <1>b, <2>2
    <2> QED BY <2>2, <2>3
  <1>1. ASSUME NEW t \in Tasks, task'[t] \in Early \cup {"REVIEW_READY"} PROVE ver'[t] = <<>>
    <2>1. ver[t] = <<>>
      <3>1. CASE task[t] \in Early \cup {"REVIEW_READY"}
        BY <3>1 DEF FewVerifiers
      <3>2. CASE \E p \in Procs : create_task_attempt(p) /\ loc[p].cur = t
        BY <3>2 DEF create_task_attempt, Picked, Untouched
      <3> QED BY <1>1, <3>1, <3>2, TaskMoves DEF Early
    <2> QED BY <1>1, <1>b, <2>1 DEF Early
  <1>2. ASSUME NEW p \in Procs, pc'[p] \in Reviewing, lock' = p
        PROVE  /\ lock = p /\ pc[p] \in {"tk_review"} \cup Reviewing
               /\ loc'[p].cur \notin loc'[p].todo
               /\ loc'[p].todo \subseteq loc[p].todo
    <2>1. lock = p
      BY <1>2, Taken DEF Reviewing
    <2>2. pc[p] \in Ticking \cup Reviewing
      BY <2>1 DEF LockHeld
    <2>3. (pc[p] \in Handling => pc[p] \in Reviewing) /\ pc[p] # "idle" /\ pc'[p] \in Handling
      BY <1>2, <2>2 DEF Ticking, Handling, Reviewing, Judging
    <2> QED BY <2>1, <2>3, Taken DEF FewVerifiers
  (* A call that comes to review t finds it without a verifier.              *)
  <1>3. ASSUME NEW p \in Procs, NEW t \in Tasks, MayReview(p, t)', ~ MayReview(p, t)
        PROVE  ver'[t] = <<>>
    <2>1. CASE pc'[p] \in Unjudged /\ loc'[p].cur = t
      <3>1. CASE pc'[p] = "rv_check"
        <4>1. CASE pc[p] = "tk_review" /\ loc'[p].cur \in loc[p].todo
          BY <1>3, <2>1, <4>1 DEF MayReview
        <4>2. CASE task[t] = "REVIEW_READY" /\ UNCHANGED <<task, ver>>
          BY <4>2 DEF FewVerifiers
        <4>3. CASE p = "pump" /\ FinalizeWorker
          <5>1. pc' # [pc EXCEPT !["pump"] = "idle"] /\ pc[p] = "fw_git"
            BY <1>a, <3>1, <4>3 DEF FinalizeWorker
          <5>2. loc[p].cur = t /\ task' = [task EXCEPT ![t] = "REVIEW_READY"]
            BY <2>1, <4>3, <5>1 DEF FinalizeWorker, Finish, Goto, Stay
          <5>3. task'[t] = "REVIEW_READY"
            BY <5>2 DEF TaskTypes
          <5> QED BY <1>1, <5>3
        <4>4. CASE Same(p)
          BY <1>3, <2>1, <4>4 DEF Same, MayReview
        <4>5. CASE p \in Operators /\ request_task_review(p)
          <5>1. pc[p] = "idle"
            BY <4>5 DEF request_task_review, CommandIssued
          <5>2. pc'[p] \in Handling /\ pc[p] \notin Handling
            BY <3>1, <5>1 DEF Handling, Reviewing, Judging
          <5> QED BY <2>1, <3>1, <4>2, <5>1, <5>2, Taken DEF Reviewing
        <4>6. CASE TickReviewNext(p)
          <5>1. pc[p] = "tk_review"
            BY <4>6 DEF TickReviewNext
          <5>2. pc'[p] \in Handling /\ pc[p] \notin Handling
            BY <3>1, <5>1 DEF Handling, Reviewing, Judging
          <5> QED BY <4>1, <5>1, <5>2, Taken
        <4> QED BY <3>1, <4>3, <4>4, <4>5, <4>6, Entered
      <3>2. CASE pc'[p] # "rv_check"
        <4>0. pc'[p] \in {"rv_gate", "rv_validate", "rv_capacity", "rv_session"}
          BY <2>1, <3>2 DEF Unjudged
        <4>1. CASE Same(p)
          BY <1>3, <2>1, <4>1 DEF Same, MayReview
        <4>2. CASE pc[p] \in {"rv_check", "rv_gate", "rv_validate", "rv_capacity"}
          <5>1. /\ pc[p] \in Unjudged /\ pc[p] # "tk_review" /\ pc[p] # "idle"
                /\ pc'[p] \in Handling
            BY <4>0, <4>2 DEF Unjudged, Handling, Reviewing
          <5>2. loc'[p].cur = loc[p].cur
            BY <5>1, Taken
          <5> QED BY <1>3, <2>1, <5>1, <5>2 DEF MayReview
        <4> QED BY <4>0, <4>1, <4>2, Entered
      <3> QED BY <3>1, <3>2
    <2>2. CASE pc'[p] = "tk_review" /\ t \in loc'[p].todo
      <3>1. CASE TickCount(p)
        <4>1. loc'[p].todo = {u \in Tasks : task'[u] = "REVIEW_READY"}
          BY <1>a, <2>2, <3>1 DEF TickCount, Finish, Goto, NoLocals
        <4> QED BY <1>1, <2>2, <4>1
      <3>2. CASE Same(p)
        BY <1>3, <2>2, <3>2 DEF Same, MayReview
      <3> QED BY <1>3, <2>2, <3>1, <3>2, Entered DEF MayReview
    <2>3. CASE pc'[p] \in Reviewing /\ lock' = p /\ t \in loc'[p].todo
      BY <1>3, <1>2, <2>3 DEF MayReview
    <2> QED BY <1>3, <2>1, <2>2, <2>3 DEF MayReview
  <1>4. ASSUME NEW t \in Tasks
        PROVE  Len(ver'[t]) + Cardinality(Reviewers(t)') <= Cardinality(Procs)
    <2> DEFINE R == Reviewers(t)
               Q == Reviewers(t)'
    <2>0. R \subseteq Procs /\ Q \subseteq Procs /\ Q = {p \in Procs : MayReview(p, t)'}
      BY DEF Reviewers
    <2>a. /\ IsFiniteSet(R) /\ IsFiniteSet(Q) /\ Cardinality(Q) <= Cardinality(Procs)
          /\ Cardinality(R) \in Nat /\ Cardinality(Q) \in Nat /\ Cardinality(Procs) \in Nat
      BY <1>a, <2>0, FS_Subset, FS_CardinalityType
    <2>1. CASE ver'[t] = <<>>
      <3>1. Len(ver'[t]) = 0
        BY <2>1
      <3> HIDE DEF R, Q
      <3>2. Len(ver'[t]) + Cardinality(Q) <= Cardinality(Procs)
        BY <2>a, <3>1
      <3> QED BY <3>2 DEF Q
    <2>2. CASE ver'[t] # <<>>
      <3>a. Len(ver[t]) + Cardinality(R) <= Cardinality(Procs) /\ Len(ver[t]) \in Nat
        BY <1>a DEF FewVerifiers
      <3>1. Q \subseteq R
        <4>1. \A p \in Procs : MayReview(p, t)' => MayReview(p, t)
          BY <1>3, <2>2
        <4> QED BY <2>0, <4>1 DEF Reviewers
      <3>2. CASE Len(ver'[t]) = Len(ver[t])
        <4> HIDE DEF R, Q
        <4>1. Cardinality(Q) <= Cardinality(R)
          BY <2>a, <3>1, FS_Subset
        <4>2. Len(ver'[t]) + Cardinality(Q) <= Cardinality(Procs)
          BY <2>a, <3>2, <3>a, <4>1
        <4> QED BY <4>2 DEF Q
      <3>3. ASSUME NEW p \in Procs, ver'[t] = Append(ver[t], Session("STARTING", "none")),
                   pc[p] = "rv_session", loc[p].cur = t, pc'[p] = "rv_agent", loc'[p].cur = t
            PROVE  Len(ver'[t]) + Cardinality(Q) <= Cardinality(Procs)
        <4>1. Len(ver'[t]) = Len(ver[t]) + 1
          BY <1>a, <3>3
        <4>2. MayReview(p, t)
          BY <3>3 DEF MayReview, Unjudged
        <4>3. ~ MayReview(p, t)'
          BY <1>2, <3>3 DEF MayReview, Unjudged
        <4>4. p \in R /\ p \notin Q
          BY <2>0, <4>2, <4>3 DEF Reviewers
        <4> HIDE DEF R, Q
        <4>5. /\ IsFiniteSet(R \ {p}) /\ Cardinality(R \ {p}) = Cardinality(R) - 1
              /\ Q \subseteq R \ {p}
          BY <2>a, <3>1, <4>4, FS_RemoveElement
        <4>6. Cardinality(Q) <= Cardinality(R) - 1
          BY <4>5, FS_Subset
        <4> QED BY <2>a, <3>a, <4>1, <4>6
      <3>4. Q = Reviewers(t)'
        OBVIOUS
      <3> HIDE DEF R, Q
      <3>5. CASE Len(ver'[t]) + Cardinality(Q) <= Cardinality(Procs)
        BY <3>4, <3>5
      <3> QED BY <3>2, <3>3, <3>5, VerMoves
    <2> QED BY <2>1, <2>2
  <1> QED BY <1>1, <1>2, <1>4 DEF FewVerifiers

-----------------------------------------------------------------------------
LEMMA EInvInit ==
    Init => EInv
  <1> SUFFICES ASSUME Init PROVE EInv
    OBVIOUS
  <1>a. /\ pc = [p \in Procs |-> "idle"] /\ loc = [p \in Procs |-> NoLocals] /\ lock = Nobody
        /\ attempt = [t \in Tasks |-> "none"] /\ lease = [t \in Tasks |-> "none"]
        /\ gate = [t \in Tasks |-> "none"] /\ accepted = [t \in Tasks |-> FALSE]
        /\ worker = [t \in Tasks |-> NoAgent] /\ ver = [t \in Tasks |-> <<>>]
        /\ task = [t \in Tasks |-> IF Deps[t] = {} THEN "READY" ELSE "WAITING_DEPENDENCY"]
    BY DEF Init
  <1>b. /\ \A p \in Procs : pc[p] = "idle" /\ loc[p] = NoLocals
        /\ \A t \in Tasks : /\ attempt[t] = "none" /\ gate[t] = "none" /\ accepted[t] = FALSE
                            /\ worker[t] = NoAgent /\ ver[t] = <<>>
                            /\ task[t] \in {"READY", "WAITING_DEPENDENCY"}
        /\ lock \notin Procs
    BY <1>a, TaskExecutionAssumption DEF Procs
  <1>1. TypeOK
    <2>0. run = "EXECUTING" /\ paused = FALSE /\ version = 1 /\ integration = "none"
          /\ crashes = 0 /\ exits = 0 /\ commands = 0
      BY DEF Init
    <2>a. paused \in BOOLEAN
      BY <2>0
    <2>b. version \in Nat /\ {crashes, exits, commands} \subseteq Nat
      BY <2>0
    <2>1. RunTypes
      BY <2>0, <2>a, <2>b, Zenon DEF RunTypes, RunStates
    <2>2. TaskTypes
      BY <1>a DEF TaskTypes, TaskStates, AttemptStates, LeaseStates, Suspended
    <2>3. AgentTypes
      <3>1. NoAgent \in Workers /\ <<>> \in Seq(Verifiers)
        BY DEF NoAgent, Workers, AgentStates
      <3> QED BY <1>a, <3>1 DEF AgentTypes
    <2>4. CallTypes
      BY <1>a DEF CallTypes, Labels, NoLocals, Locals
    <2> QED BY <2>1, <2>2, <2>3, <2>4 DEF TypeOK
  <1>2. LockHeld
    BY <1>b DEF LockHeld, Ticking
  <1>3. Untouched
    BY <1>b DEF Untouched, Unstarted
  <1>4. Picked /\ Launched
    BY <1>b DEF Picked, Launched, Choosing, Launching, Handling, Reviewing, Judging
  <1>5. Proved /\ Based
    BY <1>b DEF Proved, Based, DependenciesAccepted, Approved, Gated, Judging
  <1>6. FewVerifiers
    <2>1. \A t \in Tasks : Reviewers(t) = {}
      BY <1>b DEF Reviewers, MayReview, Unjudged, Reviewing
    <2>3. ASSUME NEW t \in Tasks
          PROVE  ver[t] = <<>> /\ Len(ver[t]) + Cardinality(Reviewers(t)) <= Cardinality(Procs)
      <3>1. Cardinality(Reviewers(t)) = 0
        BY <2>1, FS_EmptySet
      <3>2. Len(ver[t]) = 0
        BY <1>b
      <3> QED BY <1>b, <3>1, <3>2, ProcsFinite
    <2> QED BY <1>b, <2>3 DEF FewVerifiers, Reviewing
  <1> QED BY <1>1, <1>2, <1>3, <1>4, <1>5, <1>6 DEF EInv

LEMMA EInvNext ==
    EInv /\ Next => EInv'
  <1> SUFFICES ASSUME EInv, Next PROVE EInv'
    OBVIOUS
  <1>a. /\ RunTypes /\ TaskTypes /\ AgentTypes /\ CallTypes /\ LockHeld /\ Untouched /\ Picked
        /\ Launched /\ Proved /\ Based /\ FewVerifiers
    BY DEF EInv, TypeOK
  <1>1. CallTypes'
    <2>1. \A p \in Procs : pc[p] = "rv_session" => loc[p].cur \in Tasks
      BY <1>a DEF Picked, Handling, Reviewing
    <2> QED BY <1>a, <2>1, CallTypesStep
  <1>2. RunTypes' /\ TaskTypes' /\ AgentTypes'
    BY <1>a, RunTypesStep, TaskTypesStep, AgentTypesStep
  <1>3. LockHeld' /\ Untouched' /\ FewVerifiers'
    BY <1>a, LockHeldStep, UntouchedStep, FewVerifiersStep
  <1>4. Picked'
    BY <1>a, <1>3, PickedStep
  <1>5. Launched' /\ Proved' /\ Based'
    BY <1>a, <1>4, LaunchedStep, ProvedStep, BasedStep
  <1> QED BY <1>1, <1>2, <1>3, <1>4, <1>5 DEF EInv, TypeOK

LEMMA EInvStutter ==
    EInv /\ UNCHANGED vars => EInv'
  <1> SUFFICES ASSUME EInv, UNCHANGED vars PROVE EInv'
    OBVIOUS
  <1>a. UNCHANGED <<run, paused, version, integration, task, attempt, lease, gate, accepted,
                    worker, ver, lock, pc, loc, crashes, exits, commands>>
    BY DEF vars, runVars, taskVars, agentVars, bounds
  <1>1. TypeOK'
    BY <1>a DEF EInv, TypeOK, RunTypes, TaskTypes, AgentTypes, CallTypes
  <1>2. LockHeld' /\ Untouched' /\ Picked'
    BY <1>a DEF EInv, LockHeld, Untouched, Picked
  <1>3. Launched' /\ Proved' /\ Based'
    BY <1>a DEF EInv, Launched, Proved, Based, DependenciesAccepted, TurnLive
  <1>4. FewVerifiers'
    <2>1. ASSUME NEW t PROVE Reviewers(t)' = Reviewers(t)
      BY <1>a DEF Reviewers, MayReview
    <2> QED BY <1>a, <2>1 DEF EInv, FewVerifiers
  <1> QED BY <1>1, <1>2, <1>3, <1>4 DEF EInv

LEMMA EInvHolds ==
    Spec => []EInv
  <1>1. EInv /\ [Next]_vars => EInv'
    BY EInvNext, EInvStutter
  <1> QED BY <1>1, EInvInit, PTL DEF Spec

-----------------------------------------------------------------------------
(* Every row, session and local variable of the scheduler keeps its type at *)
(* every await: tick and start_agent leave in a session only states of the  *)
(* controller, never the status string the protocol reported.               *)
THEOREM TypeOKHolds ==
    Spec => []TypeOK
  <1>1. EInv => TypeOK
    BY DEF EInv
  <1> QED BY <1>1, EInvHolds, PTL

(* The check for an active verifier and the launch are awaits apart, and    *)
(* request_task_review takes no lock; still a task gets at most one         *)
(* verifier for each call that can be under way at once (maintenance, the   *)
(* pump, each concurrent API call), and a call that loops launches none     *)
(* twice: no review begins once the first verifier was launched.            *)
THEOREM OneVerifierPerCallerHolds ==
    Spec => []OneVerifierPerCaller
  <1>1. EInv => OneVerifierPerCaller
    <2> SUFFICES ASSUME EInv, NEW t \in Tasks
                 PROVE  Len(ver[t]) <= Cardinality(Procs)
      BY DEF OneVerifierPerCaller
    <2>1. Cardinality(Reviewers(t)) \in Nat
      BY ProcsFinite, FS_Subset, FS_CardinalityType DEF Reviewers
    <2>2. Len(ver[t]) \in Nat
      <3>1. ver[t] \in Seq(Verifiers)
        BY DEF EInv, TypeOK, AgentTypes
      <3> QED BY <3>1
    <2>3. Len(ver[t]) + Cardinality(Reviewers(t)) <= Cardinality(Procs)
      BY DEF EInv, FewVerifiers
    <2> QED BY <2>1, <2>2, <2>3, ProcsFinite
  <1> QED BY <1>1, EInvHolds, PTL

(* start_task gives a task an attempt only on dependencies whose            *)
(* verifier-verdict accepts them, although it looks at their states before  *)
(* it creates the attempt and other tasks of the daemon go on between.      *)
THEOREM DependenciesAcceptedHolds ==
    Spec => []DependenciesAccepted
  <1>1. EInv => DependenciesAccepted
    BY DEF EInv, Based
  <1> QED BY <1>1, EInvHolds, PTL

(* prepare_integration makes a candidate only of tasks an independent       *)
(* verifier accepted, through crashes, stops and rejected or late verdicts; *)
(* and in a profile with review_ready, only after the review-ready gate.    *)
THEOREM CandidateVerifiedHolds ==
    Spec => []CandidateVerified
  <1>1. EInv => CandidateVerified
    BY DEF EInv, Proved, CandidateVerified, Approved
  <1> QED BY <1>1, EInvHolds, PTL

-----------------------------------------------------------------------------
(* A task comes to occupy its paths when acquire_path_leases grants them.   *)
LEMMA OccupiesMoves ==
    ASSUME EInv, Next, NEW t \in Tasks, Occupies(t)'
    PROVE  \/ Occupies(t)
           \/ \E p \in Procs : /\ acquire_path_leases(p) /\ pc[p] = "st_lease"
                               /\ loc[p].cur = t /\ ~ LeaseConflict(t) /\ lease'[t] = "active"
  <1>a. /\ CallTypes /\ TaskTypes /\ AgentTypes /\ LockHeld /\ Picked
        /\ pc \in [Procs -> Labels] /\ loc \in [Procs -> Locals]
    BY DEF EInv, TypeOK, CallTypes
  (* Nobody else launches while p does.                                     *)
  <1>b. ASSUME NEW p \in Procs, NEW q \in Procs, pc[p] \in {"st_session", "st_agent"},
               pc[q] \in {"st_create", "st_session", "st_agent"}
        PROVE  p = q
    BY <1>a, <1>b, OneTick DEF Ticking
  <1>1. ASSUME task'[t] = "IMPLEMENTING", task[t] # "IMPLEMENTING" PROVE Occupies(t)
    BY <1>a, <1>1, TaskMoves DEF Occupies
  <1>2. CASE Writer(t)'
    <2>1. task'[t] = "IMPLEMENTING" /\ TurnLive(worker'[t])
      BY <1>2 DEF Writer, TurnLive
    <2>2. CASE task[t] = "IMPLEMENTING"
      BY <1>a, <2>1, <2>2, WorkerMoves DEF Occupies, Writer
    <2> QED BY <1>1, <2>1, <2>2
  <1>3. ASSUME NEW p \in Procs, loc'[p].cur = t, pc'[p] = "st_session",
               task'[t] \in {"LEASED", "STARTING"}
        PROVE  \/ Occupies(t)
               \/ \E r \in Procs : /\ acquire_path_leases(r) /\ pc[r] = "st_lease"
                                   /\ loc[r].cur = t /\ ~ LeaseConflict(t)
                                   /\ lease'[t] = "active"
    <2>1. CASE Same(p)
      <3>1. pc[p] = "st_session" /\ loc[p].cur = t
        BY <1>3, <2>1 DEF Same
      <3>2. ~ \E r \in Procs : create_task_attempt(r) /\ loc[r].cur = t
        BY <1>b, <3>1 DEF create_task_attempt
      <3>3. task[t] \in {"LEASED", "STARTING"}
        BY <1>a, <1>3, <3>2, TaskMoves
      <3> QED BY <3>1, <3>3 DEF Occupies
    <2>2. CASE acquire_path_leases(p)
      <3>1. pc[p] = "st_lease" /\ loc[p].cur = t /\ pc' # [pc EXCEPT ![p] = "st_err"]
        BY <1>a, <1>3, <2>2 DEF acquire_path_leases, Stay, Goto
      <3>2. ~ LeaseConflict(t) /\ lease' = [lease EXCEPT ![t] = "active"]
        BY <2>2, <3>1 DEF acquire_path_leases, Stay, Goto
      <3> QED BY <1>a, <2>2, <3>1, <3>2 DEF TaskTypes
    <2> QED BY <1>a, <1>3, <2>1, <2>2, Entered
  <1>4. ASSUME NEW p \in Procs, loc'[p].cur = t, pc'[p] = "st_agent", task'[t] = "IMPLEMENTING"
        PROVE  Occupies(t)
    <2>1. CASE task[t] # "IMPLEMENTING"
      BY <1>1, <1>4, <2>1
    <2>2. CASE Same(p) /\ task[t] = "IMPLEMENTING"
      BY <1>4, <2>2 DEF Same, Occupies
    <2>3. CASE StartSession(p) /\ task[t] = "IMPLEMENTING"
      <3>1. pc[p] = "st_session" /\ loc[p].cur = t /\ pc' # [pc EXCEPT ![p] = "st_undo"]
        BY <1>a, <1>4, <2>3 DEF StartSession, Stay, Goto
      <3>2. can_transition_to("IMPLEMENTING", "STARTING")
        BY <2>3, <3>1 DEF StartSession, Stay, Goto
      <3>3. "IMPLEMENTING" \in TaskStates
        BY DEF TaskStates
      <3> QED BY <3>2, <3>3, Transitions
    <2> QED BY <1>a, <1>4, <2>1, <2>2, <2>3, Entered
  <1> QED BY <1>2, <1>3, <1>4 DEF Occupies

LEMMA AllBegunStep ==
    ASSUME EInv, AllBegun, Next
    PROVE  AllBegun'
  <1>a. CallTypes /\ TaskTypes /\ AgentTypes /\ LockHeld /\ Picked /\ Untouched
    BY DEF EInv, TypeOK
  <1>1. \A t \in Tasks : attempt'[t] # "none"
    BY <1>a, Begins DEF AllBegun
  <1>2. \A t \in Tasks : ~ Occupies(t)'
    BY OccupiesMoves DEF AllBegun
  <1>3. ASSUME NEW p \in Procs PROVE pc'[p] \notin {"st_lease", "st_session", "st_agent"}
    <2>1. ~ create_task_attempt(p)
      BY <1>a DEF create_task_attempt, Picked, AllBegun, Choosing
    <2>2. pc[p] \notin {"st_lease", "st_session", "st_agent"}
      BY DEF AllBegun
    <2> QED BY <1>a, <2>1, <2>2, Entered DEF Same, acquire_path_leases, StartSession
  <1> QED BY <1>1, <1>2, <1>3 DEF AllBegun

LEMMA OccupancyInit ==
    Init => Occupancy
  <1> SUFFICES ASSUME Init PROVE Occupancy
    OBVIOUS
  <1>1. /\ \A p \in Procs : pc[p] = "idle"
        /\ \A t \in Tasks : task[t] # "IMPLEMENTING"
    BY DEF Init
  <1>2. "pump" \in Procs /\ Operators \subseteq Procs
    BY DEF Procs
  <1>3. \A t \in Tasks : ~ Occupies(t)
    BY <1>1 DEF Occupies, Writer
  <1> QED BY <1>1, <1>2, <1>3 DEF Occupancy, StopCalls

LEMMA OccupancyStep ==
    ASSUME GateOutlastsTtl = FALSE, EInv, EInv', Occupancy, Next
    PROVE  Occupancy'
  <1>a. /\ CallTypes /\ TaskTypes /\ AgentTypes /\ LockHeld /\ Picked /\ Launched
        /\ Untouched /\ Proved
    BY DEF EInv, TypeOK
  <1>b. ASSUME NEW t \in Tasks, Occupies(t) PROVE task[t] \in Early /\ task[t] \in Held
    BY <1>b DEF Occupies, Writer, Early, Held
  <1>c. ASSUME NEW t \in Tasks, Occupies(t)' PROVE task'[t] \in Early
    BY <1>c DEF Occupies, Writer, Early
  (* A stopped run is not resumed before everything has begun and ended.    *)
  <1>d. ASSUME GivenUp, ~ GivenUp' PROVE AllBegun
    BY <1>d, RunMoves DEF Occupancy
  <1>e. ASSUME AllBegun, NEW t \in Tasks PROVE ~ Occupies(t)'
    BY <1>e, AllBegunStep DEF AllBegun
  <1>1. ASSUME ~ GivenUp', NEW t \in Tasks, Occupies(t)' PROVE lease'[t] = "active"
    <2>0. ~ GivenUp
      BY <1>1, <1>d, <1>e
    <2>1. CASE Occupies(t)
      <3>1. lease[t] = "active"
        BY <2>0, <2>1 DEF Occupancy
      <3>2. task[t] \in Held /\ task'[t] \in Early
        BY <1>1, <1>b, <1>c, <2>1
      <3>3. ~ \E p \in Procs : pc[p] = "st_undo" /\ loc[p].cur = t
        <4> SUFFICES ASSUME NEW p \in Procs, pc[p] = "st_undo", loc[p].cur = t PROVE FALSE
          OBVIOUS
        <4>1. ~ Writer(t)
          BY <1>a DEF Launched, Launching, Writer
        <4>2. ASSUME NEW q \in Procs, pc[q] \in {"st_session", "st_agent"} PROVE FALSE
          BY <1>a, <4>2, OneTick DEF Ticking
        <4> QED BY <2>1, <4>1, <4>2 DEF Occupies
      <3>4. \A o \in Operators : pc[o] # "sr_leases"
        BY <2>0, <2>1 DEF Occupancy, AllBegun, StopCalls
      <3> QED BY <1>a, <2>0, <3>1, <3>2, <3>3, <3>4, LeaseMoves
    <2> QED BY <1>1, <2>1, OccupiesMoves
  <1>2. ASSUME ~ GivenUp', NEW t \in Tasks, NEW u \in Tasks, t # u, {t, u} \in Contend,
               Occupies(t)', Occupies(u)'
        PROVE  FALSE
    <2>0. ~ GivenUp
      BY <1>2, <1>d, <1>e
    <2>1. ASSUME NEW x \in Tasks, NEW y \in Tasks, x # y, {x, y} \in Contend, Occupies(x),
                 ~ LeaseConflict(y)
          PROVE  FALSE
      <3>1. lease[x] = "active" /\ {y, x} \in Contend
        BY <2>0, <2>1 DEF Occupancy
      <3> QED BY <2>1, <3>1 DEF LeaseConflict
    <2>2. CASE Occupies(t) /\ Occupies(u)
      BY <1>2, <2>0, <2>2 DEF Occupancy
    <2>3. CASE Occupies(t) /\ ~ Occupies(u)
      BY <1>2, <2>1, <2>3, OccupiesMoves
    <2>4. CASE ~ Occupies(t) /\ Occupies(u)
      <3>1. {u, t} \in Contend
        BY <1>2
      <3> QED BY <1>2, <2>1, <2>4, <3>1, OccupiesMoves
    <2>5. CASE ~ Occupies(t) /\ ~ Occupies(u)
      <3>1. PICK p \in Procs : pc[p] = "st_lease" /\ loc[p].cur = t
        BY <1>2, <2>5, OccupiesMoves
      <3>2. PICK q \in Procs : pc[q] = "st_lease" /\ loc[q].cur = u
        BY <1>2, <2>5, OccupiesMoves
      <3>3. p = q
        BY <1>a, <3>1, <3>2, OneTick DEF Ticking
      <3> QED BY <1>2, <3>1, <3>2, <3>3
    <2> QED BY <2>2, <2>3, <2>4, <2>5
  <1>3. ASSUME \/ pc'["pump"] = "ig_pick"
               \/ ~ GivenUp' /\ (\E o \in Operators : pc'[o] \in StopCalls)
        PROVE  AllBegun'
    <2>a. "pump" \in Procs /\ Operators \subseteq Procs
      BY DEF Procs
    <2>1. CASE AllBegun
      BY <2>1, AllBegunStep
    <2>2. CASE /\ AllVerified /\ task' = [t \in Tasks |-> "INTEGRATING"]
               /\ UNCHANGED <<agentVars, attempt>>
      <3>1. \A t \in Tasks : task'[t] = "INTEGRATING"
        BY <2>2
      <3>2. \A t \in Tasks : ~ Occupies(t)'
        BY <1>c, <3>1 DEF Early
      <3>3. \A t \in Tasks : attempt'[t] # "none"
        BY <1>a, <2>2 DEF AllVerified, Proved, Approved, Untouched
      <3>4. ASSUME NEW p \in Procs, pc'[p] \in {"st_lease", "st_session", "st_agent"} PROVE FALSE
        <4>1. loc'[p].cur \in Tasks /\ task'[loc'[p].cur] \in Early \cup Suspended \cup {"READY"}
          BY <3>4 DEF EInv, Picked, Launched, Choosing, Launching
        <4> QED BY <3>1, <4>1 DEF Early, Suspended
      <3> QED BY <3>2, <3>3, <3>4 DEF AllBegun
    <2>3. CASE pc'["pump"] = "ig_pick"
      <3>1. CASE Same("pump")
        BY <2>1, <2>3, <3>1 DEF Same, Occupancy
      <3> QED BY <1>a, <2>a, <2>2, <2>3, <3>1, Entered
    <2>4. ASSUME ~ GivenUp', NEW o \in Operators, pc'[o] \in StopCalls
          PROVE  AllBegun'
      <3>1. CASE GivenUp
        BY <1>d, <2>1, <2>4, <3>1
      <3>2. ~ stop_run(o)
        BY <2>4 DEF stop_run, GivenUp
      <3>3. CASE ~ GivenUp
        BY <1>a, <2>a, <2>1, <2>4, <3>2, <3>3, Entered DEF Same, Occupancy
      <3> QED BY <3>1, <3>3
    <2> QED BY <1>3, <2>3, <2>4
  <1> QED BY <1>1, <1>2, <1>3 DEF Occupancy

LEMMA OccupancyStutter ==
    Occupancy /\ UNCHANGED vars => Occupancy'
  <1> SUFFICES ASSUME Occupancy, UNCHANGED vars PROVE Occupancy'
    OBVIOUS
  <1>a. UNCHANGED <<run, task, attempt, lease, worker, pc, loc>>
    BY DEF vars, runVars, taskVars, agentVars
  <1>1. ASSUME NEW t \in Tasks PROVE Occupies(t)' <=> Occupies(t)
    BY <1>a DEF Occupies, Writer, TurnLive
  <1>2. (GivenUp' <=> GivenUp) /\ (AllBegun' <=> AllBegun)
    BY <1>a, <1>1 DEF GivenUp, AllBegun
  <1> QED BY <1>a, <1>1, <1>2 DEF Occupancy

(* Unless the run was stopped, two tasks whose path leases overlap never    *)
(* have workers in their worktrees at once, and a worker holds its leases:  *)
(* no failed launch, interrupt, restart or verdict of another task takes    *)
(* them.  The gate must end within lease_ttl_seconds: maintenance renews    *)
(* no lease while it sits in one.  (stop_run releases every lease while a   *)
(* tick may still be launching: CanceledRunIsIdle is refuted.)              *)
THEOREM WritersExcludeHolds ==
    (GateOutlastsTtl = FALSE) =>
        (Spec => [](~ GivenUp => WritersExclude))
  <1> SUFFICES ASSUME GateOutlastsTtl = FALSE
               PROVE  Spec => [](~ GivenUp => WritersExclude)
    OBVIOUS
  <1>1. Occupancy => (~ GivenUp => WritersExclude)
    BY DEF Occupancy, Occupies, WritersExclude, ExclusiveWriters, WriterHoldsLease
  <1>2. EInv /\ EInv' /\ Occupancy /\ [Next]_vars => Occupancy'
    BY OccupancyStep, OccupancyStutter
  <1> QED BY <1>1, <1>2, OccupancyInit, EInvHolds, PTL DEF Spec
=============================================================================
