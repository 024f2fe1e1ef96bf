---------------------------- MODULE TokenBudget ----------------------------
(***************************************************************************)
(* Token usage and the ceilings it triggers.  The App Server reports every *)
(* model call as thread/tokenUsage/updated (the thread's cumulative total  *)
(* and the last call) and may repeat a report.  The pump stores the raw    *)
(* event, rebuilds the turn's usage from all raw events of the turn        *)
(* (projection.rs), and then steers or interrupts the turn at the session  *)
(* ceiling and pauses the run and interrupts the turn at the run ceiling.  *)
(* Operators pause and resume the scheduler meanwhile; a resume decides on *)
(* the run and the usage it read and writes the row later, unconditionally.*)
(*                                                                         *)
(* One agent of a role with a session ceiling, whose turns follow one      *)
(* another, is the only consumer of its run's budget.                      *)
(***************************************************************************)
EXTENDS Naturals, Sequences, FiniteSets, SequencesExt

CONSTANTS
    SessionBudget,  \* agent_sessions.token_budget
    Checkpoint,     \* tokens at which the agent is steered, below the budget
    RunBudget,      \* runs.run_token_budget at creation
    Allowance,      \* what resume_scheduler adds to the usage
    Operators,      \* API calls that can be under way at once
    CallSizes,      \* tokens of one model call
    MaxTurns,       \* bound on turns
    MaxCalls,       \* bound on model calls
    MaxRepeats,     \* bound on repeated reports
    MaxCommands,    \* bound on pauses and resumes
    MaxCrashes      \* bound on daemon crashes

VARIABLES
    actual,     \* tokens each turn really used
    wire,       \* reports and completions the pump has not handled
    raw,        \* raw_events of method thread/tokenUsage/updated
    sample,     \* token_samples.total_tokens of each turn
    turn,       \* the turn the App Server runs, and the agent's active turn
    agent,      \* agent_sessions.state
    keys,       \* runtime_metadata: checkpoints and hard stops
    run,        \* the run's budget and whether its scheduler is paused
    work,       \* what the pump is doing, and the run it read
    call,       \* what each operator's resume_scheduler has read
    refused,    \* turns for which an interrupt was refused
    lost,       \* events were lost in a crash
    late,       \* the last resume wrote on a run or usage that had moved
    spent       \* bounds consumed

budgetVars == <<actual, wire, raw, sample, turn, agent, keys, run, work, call,
                refused, lost, late, spent>>

Turns == 1..MaxTurns
Rows == [budget : Nat, paused : BOOLEAN]
NoRow == [budget |-> 0, paused |-> FALSE]
Idle == [pc |-> "idle", turn |-> 0, stopped |-> FALSE, run |-> NoRow]
Returned == [pc |-> "idle", run |-> NoRow, used |-> 0]
Total(f) == FoldLeft(LAMBDA acc, t : acc + f[t], 0, [t \in Turns |-> t])
Used == Total(sample)
Exhausted(row) == Used >= row.budget
Observed == turn.active # 0 /\ turn.active = work.turn
Goto(pc) == work' = [work EXCEPT !.pc = pc]

-----------------------------------------------------------------------------
(* The App Server                                                          *)
Report(t, total, last) == [kind |-> "usage", turn |-> t, total |-> total, last |-> last]
ModelCall(k) ==
    LET t == turn.running
    IN /\ t # 0 /\ spent.calls < MaxCalls
       /\ actual' = [actual EXCEPT ![t] = @ + k]
       /\ wire' = Append(wire, Report(t, Total(actual) + k, k))
       /\ spent' = [spent EXCEPT !.calls = @ + 1]
       /\ UNCHANGED <<raw, sample, turn, agent, keys, run, work, call, refused, lost, late>>

(* Any report of the turn may come again, the newest or an older one.      *)
RepeatReport ==
    LET sent == {e \in Range(raw \o wire) : e.kind = "usage" /\ e.turn = turn.running}
    IN /\ turn.running # 0 /\ spent.repeats < MaxRepeats
       /\ \E e \in sent :
             /\ wire' = Append(wire, e)
             /\ spent' = [spent EXCEPT !.repeats = @ + 1,
                                       !.older = @ \/ \E f \in sent : f.total > e.total]
       /\ UNCHANGED <<actual, raw, sample, turn, agent, keys, run, work, call, refused, lost,
                      late>>

TurnEnds ==
    /\ turn.running # 0
    /\ wire' = Append(wire, [kind |-> "completed", turn |-> turn.running])
    /\ turn' = [turn EXCEPT !.running = 0]
    /\ UNCHANGED <<actual, raw, sample, agent, keys, run, work, call, refused, lost, late, spent>>

-----------------------------------------------------------------------------
(* The pump                                                                *)
ingest_notification ==
    /\ work.pc = "idle" /\ wire # <<>>
    /\ wire' = Tail(wire)
    /\ LET e == Head(wire)
       IN \/ /\ e.kind = "usage"
             /\ raw' = Append(raw, e)
             /\ work' = [Idle EXCEPT !.pc = "project", !.turn = e.turn]
             /\ UNCHANGED <<turn, agent>>
          \/ /\ e.kind = "completed"
             /\ turn' = [turn EXCEPT !.active = IF @ = e.turn THEN 0 ELSE @]
             /\ agent' = "TURN_COMPLETE"
             /\ UNCHANGED <<raw, work>>
    /\ UNCHANGED <<actual, sample, keys, run, call, refused, lost, late, spent>>

\* Mutant: every report counts.
DistinctReportsAll(t) == SelectSeq(raw, LAMBDA e : e.turn = t)
(* A report whose cumulative total equals that of the report before it is  *)
(* a repetition of it.                                                     *)
DistinctReports(t) ==
    LET of == SelectSeq(raw, LAMBDA e : e.turn = t)
        Kept == {i \in DOMAIN of : i = 1 \/ of[i].total # of[i - 1].total}
    IN SelectSeq([i \in DOMAIN of |-> [of[i] EXCEPT !.last = IF i \in Kept THEN @ ELSE 0]],
                 LAMBDA e : e.last > 0)

rebuild_turn_usage ==
    LET t == work.turn
    IN /\ work.pc = "project"
       /\ sample' = [sample EXCEPT ![t] =
             FoldLeft(LAMBDA acc, e : acc + e.last, 0, DistinctReports(t))]
       /\ Goto("steer")
       /\ UNCHANGED <<actual, wire, raw, turn, agent, keys, run, call, refused, lost, late, spent>>

session_budget_checkpoint_needed ==
    /\ agent \in {"RUNNING", "STEERED"} /\ Observed
    /\ Used >= Checkpoint /\ Used < SessionBudget
    /\ <<"checkpoint", work.turn>> \notin keys

steer_agent_at_session_budget_checkpoint ==
    /\ work.pc = "steer" /\ Goto("session")
    /\ \/ /\ session_budget_checkpoint_needed
          /\ keys' = keys \cup {<<"checkpoint", work.turn>>} /\ agent' = "STEERED"
       \/ UNCHANGED <<keys, agent>>     \* not needed, or turn/steer was refused
    /\ UNCHANGED <<actual, wire, raw, sample, turn, run, call, refused, lost, late, spent>>

\* Mutant: the turn that reaches the ceiling exactly goes on.
session_budget_exceeded == Used > SessionBudget /\ Observed
session_budget_hard_stop_needed == Used >= SessionBudget /\ Observed

(* turn/interrupt of the active turn: the App Server accepts it for a turn *)
(* it runs, or the call fails.                                             *)
Interrupt(key) ==
    \/ /\ turn.running = turn.active
       /\ keys' = keys \cup {key} /\ agent' = "STOPPING"
       /\ UNCHANGED refused
    \/ /\ refused' = refused \cup {turn.active}
       /\ UNCHANGED <<keys, agent>>

interrupt_agent_at_session_budget ==
    LET key == <<"session-stop", work.turn>>
    IN /\ work.pc = "session"
       /\ \/ /\ ~session_budget_hard_stop_needed
             /\ Goto("run") /\ UNCHANGED <<keys, agent, refused>>
          \/ /\ session_budget_hard_stop_needed /\ key \in keys
             /\ work' = [work EXCEPT !.pc = "run", !.stopped = TRUE]
             /\ UNCHANGED <<keys, agent, refused>>
          \/ /\ session_budget_hard_stop_needed /\ key \notin keys /\ Interrupt(key)
             /\ work' = [work EXCEPT !.pc = "run", !.stopped = key \in keys']
       /\ UNCHANGED <<actual, wire, raw, sample, turn, run, call, lost, late, spent>>

(* The run row is read, and what was read decides.                         *)
ReadRun ==
    /\ work.pc = "run"
    /\ work' = [work EXCEPT !.pc = "enforce", !.run = run]
    /\ UNCHANGED <<actual, wire, raw, sample, turn, agent, keys, run, call, refused, lost, late,
                   spent>>

\* Mutant: a run is paused only when its ceiling was passed.
budget_pauses_past(row) == [run EXCEPT !.paused = @ \/ (Used > row.budget /\ ~row.paused)]
enforce_run_budget(row) == [run EXCEPT !.paused = @ \/ (Exhausted(row) /\ ~row.paused)]

\* One hard stop per agent, whatever its turn.
interrupt_agent_at_run_budget ==
    LET key == <<"run-stop", 0>>
        stops == Exhausted(work.run) /\ ~work.stopped /\ turn.active # 0 /\ key \notin keys
    IN /\ work.pc = "enforce"
       /\ run' = enforce_run_budget(work.run)
       /\ \/ stops /\ Interrupt(key)
          \/ ~stops /\ UNCHANGED <<keys, agent, refused>>
       /\ work' = Idle
       /\ UNCHANGED <<actual, wire, raw, sample, turn, call, lost, late, spent>>

-----------------------------------------------------------------------------
(* Launches and the operator                                               *)
(* Every launch asks enforce_run_budget first; a turn follows the one      *)
(* before it on the same session.                                          *)
start_turn ==
    /\ turn.active = 0 /\ turn.running = 0 /\ turn.started < MaxTurns
    /\ run' = enforce_run_budget(run)
    /\ \/ /\ ~Exhausted(run) /\ ~run.paused
          /\ turn' = [started |-> turn.started + 1, active |-> turn.started + 1,
                      running |-> turn.started + 1]
          /\ agent' = "RUNNING"
       \/ Exhausted(run) /\ UNCHANGED <<turn, agent>>
    /\ UNCHANGED <<actual, wire, raw, sample, keys, work, call, refused, lost, late, spent>>

Command == spent.commands < MaxCommands /\ spent' = [spent EXCEPT !.commands = @ + 1]

set_scheduler_paused ==
    /\ Command
    /\ run' = [run EXCEPT !.paused = TRUE]
    /\ UNCHANGED <<actual, wire, raw, sample, turn, agent, keys, work, call, refused, lost, late>>

ResumeReads(o) ==
    /\ Command /\ call[o].pc = "idle"
    /\ call' = [call EXCEPT ![o] = [pc |-> "resume", run |-> run, used |-> Used]]
    /\ UNCHANGED <<actual, wire, raw, sample, turn, agent, keys, run, work, refused, lost, late>>

continuation_run_budget(used, budget) ==
    IF used + Allowance > budget THEN used + Allowance ELSE budget

resume_scheduler(o) ==
    LET read == call[o]
        extended == continuation_run_budget(read.used, read.run.budget)
    IN /\ read.pc = "resume"
       /\ run' = [budget |-> IF read.used >= read.run.budget THEN extended ELSE run.budget,
                  paused |-> FALSE]
       /\ late' = (run # read.run \/ Used # read.used)
       /\ call' = [call EXCEPT ![o] = Returned]
       /\ UNCHANGED <<actual, wire, raw, sample, turn, agent, keys, work, refused, lost, spent>>

(* The App Server dies with the daemon.  The usage ledger is a projection: *)
(* raw events that were stored but not projected are counted by the next   *)
(* report of their turn.                                                   *)
DaemonCrash ==
    /\ spent.crashes < MaxCrashes
    /\ wire' = <<>> /\ work' = Idle /\ call' = [o \in Operators |-> Returned] /\ lost' = TRUE
    /\ turn' = [turn EXCEPT !.running = 0, !.active = 0]
    /\ agent' = "STALLED"
    /\ spent' = [spent EXCEPT !.crashes = @ + 1]
    /\ UNCHANGED <<actual, raw, sample, keys, run, refused, late>>

-----------------------------------------------------------------------------
Init ==
    /\ actual = [t \in Turns |-> 0] /\ sample = [t \in Turns |-> 0]
    /\ wire = <<>> /\ raw = <<>> /\ keys = {} /\ refused = {} /\ lost = FALSE
    /\ turn = [started |-> 0, active |-> 0, running |-> 0]
    /\ agent = "STARTING" /\ work = Idle
    /\ run = [budget |-> RunBudget, paused |-> FALSE]
    /\ call = [o \in Operators |-> Returned] /\ late = FALSE
    /\ spent = [calls |-> 0, repeats |-> 0, older |-> FALSE, commands |-> 0, crashes |-> 0]

Next ==
    \/ \E k \in CallSizes : ModelCall(k)
    \/ RepeatReport \/ TurnEnds
    \/ ingest_notification \/ rebuild_turn_usage
    \/ steer_agent_at_session_budget_checkpoint \/ interrupt_agent_at_session_budget
    \/ ReadRun \/ interrupt_agent_at_run_budget
    \/ start_turn \/ set_scheduler_paused \/ DaemonCrash
    \/ \E o \in Operators : ResumeReads(o) \/ resume_scheduler(o)

Spec == Init /\ [][Next]_budgetVars

-----------------------------------------------------------------------------
\* Values the state may take.
TypeOK ==
    /\ turn.active \in 0..MaxTurns /\ turn.running \in 0..MaxTurns
    /\ run \in Rows /\ work.run \in Rows
    /\ work.pc \in {"idle", "project", "steer", "session", "run", "enforce"}
    /\ \A o \in Operators : call[o] \in [pc : {"idle", "resume"}, run : Rows, used : Nat]

Quiet == wire = <<>> /\ work.pc = "idle"

(* The ledger never counts a model call twice, however often its report is *)
(* repeated and whenever the daemon died, unless an older report comes     *)
(* again after a newer one; and once everything reported is handled it     *)
(* counts every call, whatever was repeated.                               *)
UsageExact ==
    \A t \in Turns : /\ ~spent.older => sample[t] <= actual[t]
                     /\ Quiet /\ ~lost => sample[t] >= actual[t]

(* When the reports are handled, a turn that still runs at its session     *)
(* ceiling has been told to stop (unless the App Server refused), and a    *)
(* run at its ceiling is paused whatever was paused, resumed or extended   *)
(* meanwhile, unless the last resume wrote on a run or usage that had      *)
(* moved since it read them.                                               *)
CeilingsHeld ==
    Quiet =>
        /\ (/\ turn.running # 0 /\ turn.running = turn.active
            /\ turn.running \notin refused /\ ~lost /\ actual[turn.running] > 0
            /\ Used >= SessionBudget) => <<"session-stop", turn.running>> \in keys
        /\ Exhausted(run) /\ ~lost /\ ~late => run.paused

(* "each distinct App Server tokenUsage.last model call, deduplicated by   *)
(* the monotonic tokenUsage.total counter" (docs/COST_ACCOUNTING.md:40):   *)
(* refuted, only a report that repeats the one before it is recognised.    *)
CallsCountedOnce == \A t \in Turns : sample[t] <= actual[t]

(* A run at its ceiling is paused once its reports are handled: refuted, a *)
(* resume that read the usage before the last report unpauses it after.    *)
CeilingPauses == Quiet /\ Exhausted(run) /\ ~lost => run.paused

(* ARCHITECTURE_AND_IMPLEMENTATION_PLAN: a run stops at its token ceiling. *)
(* A turn that still runs at the run ceiling has been told to stop.        *)
RunCeilingStops ==
    (/\ Quiet /\ turn.running # 0 /\ turn.running = turn.active /\ ~lost
     /\ turn.running \notin refused /\ actual[turn.running] > 0 /\ Exhausted(run))
        => agent = "STOPPING"
=============================================================================
