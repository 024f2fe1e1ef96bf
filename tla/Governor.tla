------------------------------ MODULE Governor ------------------------------
(***************************************************************************)
(* One governed task: the governor's turns, the ledger of milestones its   *)
(* checkpoints write, the token window maintenance supervises, the end of  *)
(* a turn, and the warm continuation of the same thread.  The pump handles *)
(* one notification at a time; maintenance reads the session, asks the App *)
(* Server and writes its marks in separate statements, without a lock.     *)
(*                                                                         *)
(* A checkpoint is reduced to the fields its reconciliation, validation    *)
(* and fingerprint read.  The task's ledger and the session's copy of it   *)
(* are one variable: they are written together, and differ only after a    *)
(* crash, which no session survives.                                       *)
(***************************************************************************)
EXTENDS Integers, Sequences, FiniteSets

CONSTANTS
    Planned,      \* milestones of the task packet
    Texts,        \* next actions a message may name (continuation_signature)
    TurnBudget,   \* recommended_governor_attempt_tokens below its ceiling
    GoalBudget,   \* governor_goal_token_budget
    MinTokens,    \* MIN_GOVERNOR_ATTEMPT_TOKENS
    Percents,     \* the steering thresholds 85 and 50
    WireSize, MaxTurns, MaxUsage, MaxMessages, MaxFaults   \* bounds

\* recommend_governor_budget clamps to MinTokens from below.
ASSUME BudgetAssumption ==
    /\ TurnBudget \in Nat /\ GoalBudget \in Nat /\ MinTokens \in Nat
    /\ TurnBudget >= MinTokens /\ Percents \subseteq Nat
    /\ WireSize \in Nat /\ MaxTurns \in Nat /\ MaxUsage \in Nat
    /\ MaxMessages \in Nat /\ MaxFaults \in Nat

VARIABLES
    ledger,  \* runtime_metadata governor-progress
    gov,     \* agent_sessions row and the metadata keys of the session
    task, leases,
    live,    \* the turn the App Server runs, 0 for none
    wire,    \* notifications the pump has not handled
    pump, watch,   \* programs of the pump and of maintenance
    spent,
    done,    \* milestones some accepted checkpoint completed
    idle,    \* tokens used since the ledger's fingerprint last changed
    lost     \* a warm turn runs whose start was never answered

governorVars == <<ledger, gov, task, leases, live, wire, pump, watch, spent, done, idle, lost>>

None == "none"
Least(a, b) == IF a < b THEN a ELSE b
Less(a, b) == IF a > b THEN a - b ELSE 0
agent_state_consumes_capacity(s) == s \notin {"COMPLETED", "TURN_COMPLETE", "FAILED", "INTERRUPTED", "STALLED"}
At(p, s) == p.at = s
PumpIdle == pump' = [at |-> "idle"]
WatchIdle == watch' = [at |-> "idle"]
Post(note) == wire' = Append(wire, note)
Spend(f, max) == spent[f] < max /\ spent' = [spent EXCEPT ![f] = @ + 1]

-----------------------------------------------------------------------------
(* The ledger.  Statuses by milestone; "absent" is not listed.              *)
Statuses == {"absent", "pending", "in_progress", "blocked", "completed"}
Checkpoint == [status : {"progressing", "blocked", "complete"}, current : Planned \cup {None},
               ms : [Planned -> Statuses], work : {"clean", "candidate"}]
Open(cp) == {m \in Planned : cp.ms[m] \notin {"absent", "completed"}}
With(cp, s) == {m \in Planned : cp.ms[m] = s}

(* The first milestone the source finds in the list the model sent: the one *)
(* it named, else one that is active, else one that is pending.             *)
Candidates(cp, active) ==
    LET named == {cp.current} \cap Open(cp)
        marked == With(cp, active)
    IN IF named # {} THEN named
       ELSE IF marked # {} THEN marked
       ELSE IF cp.status = "progressing" THEN With(cp, "pending") ELSE {}
Focused(cp, active, m) ==
    [cp EXCEPT !.current = m,
               !.ms = [n \in Planned |-> IF n \notin Open(cp) THEN cp.ms[n]
                                         ELSE IF n = m THEN active ELSE "pending"]]

KeepCompletedListed(prior, next) ==
    [next EXCEPT !.ms = [m \in Planned |-> IF prior.ms[m] = "completed" /\ next.ms[m] = "absent"
                                           THEN "completed" ELSE next.ms[m]]]
KeepCompleted(prior, next) ==
    [next EXCEPT !.ms = [m \in Planned |-> IF prior.ms[m] = "completed" THEN "completed" ELSE next.ms[m]]]

(* reconcile_governor_checkpoint: the ledgers it can return, none when it   *)
(* reports an error.                                                        *)
reconcile_governor_checkpoint(prior, sent) ==
    LET next == KeepCompleted(prior, sent)
        active == IF next.status = "blocked" THEN "blocked" ELSE "in_progress"
    IN IF Open(next) = {} THEN {[next EXCEPT !.status = "complete", !.current = None]}
       ELSE IF next.status = "complete" THEN {next}
       ELSE {Focused(next, active, m) : m \in Candidates(next, active)}

(* validate_governor_checkpoint                                             *)
validate_governor_checkpoint(cp) ==
    /\ With(cp, "absent") = {}
    /\ cp.status = "progressing" => Cardinality(With(cp, "in_progress")) = 1
    /\ cp.status = "blocked" => Cardinality(With(cp, "blocked")) = 1
    /\ cp.status = "complete" => Open(cp) = {} /\ cp.current = None
    /\ cp.status # "complete" => cp.current \in Planned
    /\ cp.current # None => cp.ms[cp.current] = IF cp.status = "blocked" THEN "blocked" ELSE "in_progress"

governor_progress_fingerprint == [ms |-> ledger.cp.ms, current |-> ledger.cp.current, work |-> ledger.cp.work]
NoLedger == [revision |-> 0, cp |-> None]
HasLedger == ledger.revision > 0

(* latest_agent_message, as long as it is read: once there is a ledger the  *)
(* signature is the ledger's.                                               *)
Remembered(text) == IF HasLedger THEN gov.text ELSE {text}

(* persist_governor_checkpoint as the pump runs it for item/completed; an   *)
(* error (a foreign schema among them) leaves the ledger and puts the       *)
(* session back to RUNNING.  A message that is no checkpoint is only        *)
(* remembered.                                                              *)
Reconciled(sent) ==
    {cp \in IF HasLedger THEN reconcile_governor_checkpoint(ledger.cp, sent) ELSE {sent} :
        validate_governor_checkpoint(cp)}
persist_governor_checkpoint ==
    /\ At(pump, "idle") /\ wire # <<>> /\ Head(wire).kind = "message"
    /\ \/ \E cp \in UNION {Reconciled(sent) : sent \in Checkpoint} :
             /\ ledger' = [revision |-> ledger.revision + 1, cp |-> cp]
             /\ done' = done \cup With(cp, "completed")
             /\ UNCHANGED gov
       \/ \E text \in Texts :
             /\ \E state \in {gov.state, "RUNNING"} :
                   gov' = [gov EXCEPT !.state = state, !.text = Remembered(text)]
             /\ UNCHANGED <<ledger, done>>
    /\ wire' = Tail(wire)
    /\ UNCHANGED <<task, leases, live, pump, watch, spent, idle, lost>>

-----------------------------------------------------------------------------
(* The App Server: usage, messages and the end of the running turn.         *)
ServerReports ==
    /\ live # 0 /\ Len(wire) < WireSize
    /\ \/ Spend("usage", MaxUsage) /\ Post([kind |-> "usage", turn |-> live])
       \/ Spend("messages", MaxMessages) /\ Post([kind |-> "message", turn |-> live])
    /\ UNCHANGED <<ledger, gov, task, leases, live, pump, watch, done, idle, lost>>
Ended(status) == Post([kind |-> "done", turn |-> live, status |-> status]) /\ live' = 0
ServerEndsTurn ==
    /\ live # 0
    /\ \E status \in {"completed", "interrupted", "failed"} : Ended(status)
    /\ UNCHANGED <<ledger, gov, task, leases, pump, watch, spent, done, idle, lost>>

(* The pump projects usage and the start and the end of turns.             *)
PumpUsage ==
    /\ At(pump, "idle") /\ wire # <<>> /\ Head(wire).kind = "usage"
    /\ gov' = [gov EXCEPT !.used = @ + 1]
    /\ idle' = idle + 1
    /\ wire' = Tail(wire)
    /\ UNCHANGED <<ledger, task, leases, live, pump, watch, spent, done, lost>>
attach_codex_turn(t) == gov' = [gov EXCEPT !.state = "RUNNING", !.turn = t]
PumpStarted ==
    /\ At(pump, "idle") /\ wire # <<>> /\ Head(wire).kind = "started"
    /\ attach_codex_turn(Head(wire).turn)
    /\ wire' = Tail(wire)
    /\ UNCHANGED <<ledger, task, leases, live, pump, watch, spent, done, idle, lost>>
project_turn_completed ==
    /\ At(pump, "idle") /\ wire # <<>> /\ Head(wire).kind = "done"
    /\ gov' = [gov EXCEPT !.turn = 0,
                          !.state = CASE Head(wire).status = "completed" -> "TURN_COMPLETE"
                                      [] Head(wire).status = "interrupted" -> "INTERRUPTED"
                                      [] OTHER -> "FAILED"]
    /\ pump' = [at |-> "ended", turn |-> Head(wire).turn, status |-> Head(wire).status]
    /\ wire' = Tail(wire)
    /\ lost' = (lost /\ live # 0)
    /\ UNCHANGED <<ledger, task, leases, live, watch, spent, done, idle>>

-----------------------------------------------------------------------------
(* handle_turn_completed for a root governor.                               *)
HandedOff == pump.status = "interrupted" /\ gov.handoff = pump.turn
BudgetStop == pump.status = "interrupted" /\ gov.hard
Finalizes == pump.status = "completed" \/ HandedOff \/ BudgetStop
Closes(taskState, agentState) ==
    /\ task' = taskState
    /\ gov' = [gov EXCEPT !.state = agentState]
    /\ leases' = FALSE
    /\ PumpIdle
handle_turn_failed ==
    /\ At(pump, "ended") /\ ~Finalizes
    /\ IF task = "IMPLEMENTING" THEN Closes("NEEDS_HELP", "FAILED")
       ELSE Closes(task, "FAILED")   \* the refused transition is ignored
    /\ UNCHANGED <<ledger, live, wire, watch, spent, done, idle, lost>>
handle_turn_completed ==
    /\ At(pump, "ended") /\ Finalizes
    /\ gov' = [gov EXCEPT !.handoff = IF HandedOff THEN 0 ELSE @]
    /\ IF task = "IMPLEMENTING" THEN pump' = [at |-> "candidate"] ELSE PumpIdle
    /\ UNCHANGED <<ledger, task, leases, live, wire, watch, spent, done, idle, lost>>

(* recover_governor_candidate materialises a clean checkpoint's candidate.  *)
recover_governor_candidate ==
    /\ At(pump, "candidate")
    /\ \E materialized \in BOOLEAN :
          /\ materialized => HasLedger /\ ledger.cp.work = "candidate"
          /\ ledger' = IF materialized THEN [ledger EXCEPT !.cp.work = "uncommitted"] ELSE ledger
          /\ pump' = [at |-> "diff", materialized |-> materialized]
    /\ UNCHANGED <<gov, task, leases, live, wire, watch, spent, done, idle, lost>>

(* finalize_worker: what Git finds in the worktree.                         *)
finalize_worker ==
    /\ At(pump, "diff")
    /\ \/ Closes("NEEDS_HELP", "FAILED")      \* inspection, custody, commit refused
       \/ /\ task' = "REVIEW_READY"           \* the leases stay for the review
          /\ gov' = [gov EXCEPT !.state = "COMPLETED"]
          /\ PumpIdle
          /\ UNCHANGED leases
       \/ /\ ~pump.materialized               \* acceptable and empty
          /\ pump' = [at |-> "checkpoint"]
          /\ UNCHANGED <<task, gov, leases>>
    /\ UNCHANGED <<ledger, live, wire, watch, spent, done, idle, lost>>

-----------------------------------------------------------------------------
(* finalize_governor_checkpoint                                             *)
(* The signature of the work: the ledger's fingerprint, without a ledger    *)
(* the next action of the latest message, {} without either.                *)
Signature == IF HasLedger THEN {governor_progress_fingerprint} ELSE gov.text
Repeated == Signature \in {{}, gov.sig}
Envelope(used) == Less(GoalBudget, Less(gov.used, used))
should_continue(automatic, incomplete, blocked, base) ==
    automatic /\ incomplete /\ ~blocked /\ Envelope(base) > MinTokens
next_turn_budget(base) == Least(TurnBudget, Envelope(base))
finalize_governor_checkpoint ==
    /\ At(pump, "checkpoint")
    /\ \E incomplete \in BOOLEAN, automatic \in BOOLEAN :
          LET base == IF Repeated THEN gov.envelope ELSE gov.used
              blocked == HasLedger /\ ledger.cp.status = "blocked"
          IN /\ HasLedger => incomplete = (ledger.cp.status = "progressing")
             /\ ~HasLedger /\ gov.hard => incomplete
             /\ gov' = [gov EXCEPT !.envelope = base,
                                   !.sig = IF Signature = {} THEN @ ELSE Signature]
             /\ idle' = IF HasLedger /\ Signature # gov.sig THEN 0 ELSE idle
             /\ pump' = IF should_continue(automatic, incomplete, blocked, base)
                        THEN [at |-> "prepare", budget |-> next_turn_budget(base)]
                        ELSE [at |-> "preserve"]
    /\ UNCHANGED <<ledger, task, leases, live, wire, watch, spent, done, lost>>

(* The thread is not continued: the attempt is preserved as partial.        *)
PreserveCheckpoint ==
    /\ At(pump, "preserve")
    /\ Closes("NEEDS_HELP", "TURN_COMPLETE")
    /\ UNCHANGED <<ledger, live, wire, watch, spent, done, idle, lost>>

(* continue_governor_thread: the binding check, then the row and the token  *)
(* baseline, thread/resume, thread/goal and turn/start, the attachment, and *)
(* at last the keys of the former turn.                                     *)
prepare_agent_continuation ==
    /\ At(pump, "prepare")
    /\ \/ /\ gov' = [gov EXCEPT !.budget = pump.budget, !.state = "STARTING", !.turn = 0, !.base = gov.used]
          /\ pump' = [at |-> "start"]
          /\ UNCHANGED spent
       \/ Spend("faults", MaxFaults) /\ pump' = [at |-> "preserve"] /\ UNCHANGED gov
    /\ UNCHANGED <<ledger, task, leases, live, wire, watch, done, idle, lost>>
continue_governor_thread ==
    /\ At(pump, "start") /\ spent.turns < MaxTurns
    /\ LET t == spent.turns + 1 IN
       \/ /\ live' = t /\ Post([kind |-> "started", turn |-> t])
          /\ spent' = [spent EXCEPT !.turns = t]
          /\ pump' = [at |-> "attach", turn |-> t]
          /\ UNCHANGED lost
       \/ /\ live' = t /\ Post([kind |-> "started", turn |-> t])   \* accepted, the answer is lost
          /\ spent.faults < MaxFaults
          /\ spent' = [spent EXCEPT !.turns = t, !.faults = @ + 1]
          /\ pump' = [at |-> "preserve"]
          /\ lost' = TRUE
       \/ /\ Spend("faults", MaxFaults)                             \* resume, goal or start refused
          /\ pump' = [at |-> "preserve"]
          /\ UNCHANGED <<live, wire, lost>>
    /\ UNCHANGED <<ledger, gov, task, leases, watch, done, idle>>
AttachContinuation ==
    /\ At(pump, "attach")
    /\ attach_codex_turn(pump.turn)
    /\ pump' = [at |-> "keys"]
    /\ UNCHANGED <<ledger, task, leases, live, wire, watch, spent, done, idle, lost>>
DeleteKeys ==
    /\ At(pump, "keys")
    /\ gov' = [gov EXCEPT !.hard = FALSE, !.mark = 0]
    /\ PumpIdle
    /\ UNCHANGED <<ledger, task, leases, live, wire, watch, spent, done, idle, lost>>

-----------------------------------------------------------------------------
(* A local governor asks to commit its candidate: the receipt is written,   *)
(* the request declined and the turn interrupted; a failure takes it back.  *)
controller_handoff ==
    /\ At(pump, "idle") /\ wire = <<>> /\ live # 0 /\ gov.turn = live /\ task = "IMPLEMENTING"
    /\ \/ /\ Ended("interrupted")
          /\ gov' = [gov EXCEPT !.handoff = live, !.state = "HANDOFF_REQUESTED"]
          /\ UNCHANGED spent
       \/ Spend("faults", MaxFaults) /\ UNCHANGED <<live, wire, gov>>
    /\ UNCHANGED <<ledger, task, leases, pump, watch, done, idle, lost>>

-----------------------------------------------------------------------------
(* supervise_active_governors: the governor's own turn (its delegated       *)
(* threads are in NativeChildren).                                          *)
ReadGovernor ==
    /\ At(watch, "idle") /\ gov.turn # 0 /\ agent_state_consumes_capacity(gov.state) /\ gov.budget > 0
    /\ watch' = [at |-> "judge", turn |-> gov.turn, used |-> gov.used, budget |-> gov.budget]
    /\ UNCHANGED <<ledger, gov, task, leases, live, wire, pump, spent, done, idle, lost>>
governor_turn_tokens_used == Less(watch.used, gov.base)
Percent == (governor_turn_tokens_used * 100) \div watch.budget
Due == {p \in Percents : Percent >= p /\ p > gov.mark /\ \A q \in Percents : Percent >= q => q <= p}
JudgeGovernor ==
    /\ At(watch, "judge")
    /\ watch' = IF Percent >= 100
                THEN IF gov.hard THEN [at |-> "idle"] ELSE [at |-> "stop", turn |-> watch.turn]
                ELSE IF Due = {} THEN [at |-> "idle"]
                ELSE [at |-> "steer", turn |-> watch.turn, due |-> CHOOSE p \in Due : TRUE]
    /\ UNCHANGED <<ledger, gov, task, leases, live, wire, pump, spent, done, idle, lost>>
HardStop ==
    /\ At(watch, "stop")
    /\ \/ live = watch.turn /\ Ended("interrupted") /\ watch' = [at |-> "key"] /\ UNCHANGED spent
       \/ live # watch.turn /\ WatchIdle /\ UNCHANGED <<live, wire, spent>>
       \/ live = watch.turn /\ Spend("faults", MaxFaults) /\ WatchIdle /\ UNCHANGED <<live, wire>>
    /\ UNCHANGED <<ledger, gov, task, leases, pump, done, idle, lost>>
RecordHardStop ==
    /\ At(watch, "key")
    /\ gov' = [gov EXCEPT !.hard = TRUE]
    /\ WatchIdle
    /\ UNCHANGED <<ledger, task, leases, live, wire, pump, spent, done, idle, lost>>
SteerGovernor ==
    /\ At(watch, "steer")
    /\ watch' = IF live = watch.turn THEN [at |-> "steered", due |-> watch.due] ELSE [at |-> "idle"]
    /\ UNCHANGED <<ledger, gov, task, leases, live, wire, pump, spent, done, idle, lost>>
RecordSteering ==
    /\ At(watch, "steered")
    /\ gov' = [gov EXCEPT !.mark = watch.due, !.state = "STEERED"]
    /\ WatchIdle
    /\ UNCHANGED <<ledger, task, leases, live, wire, pump, spent, done, idle, lost>>

(* The App Server or the daemon is lost: reconcile_orphaned_sessions stalls *)
(* session and task, and schedule_governor_runtime_recovery only reports    *)
(* that a fresh attempt is refused.  The leases are kept.                   *)
schedule_governor_runtime_recovery ==
    /\ Spend("faults", MaxFaults)
    /\ live' = 0 /\ wire' = <<>>
    /\ PumpIdle /\ WatchIdle
    /\ gov' = [gov EXCEPT !.turn = 0, !.state = IF agent_state_consumes_capacity(@) THEN "STALLED" ELSE @]
    /\ task' = IF task \in {"IMPLEMENTING", "REVIEW_READY"} THEN "STALLED" ELSE task
    /\ lost' = FALSE
    /\ UNCHANGED <<ledger, leases, done, idle>>

-----------------------------------------------------------------------------
Init ==
    /\ ledger = NoLedger
    /\ gov = [state |-> "RUNNING", turn |-> 1, budget |-> TurnBudget, used |-> 0, base |-> 0,
              hard |-> FALSE, mark |-> 0, handoff |-> 0, envelope |-> 0, sig |-> {},
              text |-> {}]
    /\ task = "IMPLEMENTING" /\ leases = TRUE
    /\ live = 1 /\ wire = <<>>
    /\ pump = [at |-> "idle"] /\ watch = [at |-> "idle"]
    /\ spent = [turns |-> 1, usage |-> 0, messages |-> 0, faults |-> 0]
    /\ done = {} /\ idle = 0 /\ lost = FALSE

Next ==
    \/ persist_governor_checkpoint \/ PumpUsage \/ PumpStarted \/ project_turn_completed
    \/ handle_turn_failed \/ handle_turn_completed \/ recover_governor_candidate \/ finalize_worker
    \/ finalize_governor_checkpoint \/ PreserveCheckpoint \/ prepare_agent_continuation
    \/ continue_governor_thread \/ AttachContinuation \/ DeleteKeys \/ controller_handoff
    \/ ReadGovernor \/ JudgeGovernor \/ HardStop \/ RecordHardStop
    \/ SteerGovernor \/ RecordSteering
    \/ ServerReports \/ ServerEndsTurn \/ schedule_governor_runtime_recovery

Spec == Init /\ [][Next]_governorVars

-----------------------------------------------------------------------------
(* Values the state may take; the programs of the pump and of maintenance  *)
(* are records whose fields depend on where they are.                      *)
Ledgers == [status : {"progressing", "blocked", "complete"}, current : Planned \cup {None},
            ms : [Planned -> Statuses], work : {"clean", "candidate", "uncommitted"}]
Fingerprints == [ms : [Planned -> Statuses], current : Planned \cup {None},
                 work : {"clean", "candidate", "uncommitted"}]
\* The digests of a text and of a ledger differ.
ASSUME SignatureAssumption == Texts \cap Fingerprints = {}
Session == [state : {"STARTING", "RUNNING", "STEERED", "HANDOFF_REQUESTED", "COMPLETED",
                     "TURN_COMPLETE", "FAILED", "INTERRUPTED", "STALLED"},
            turn : Nat, budget : Nat, used : Nat, base : Nat, hard : BOOLEAN, mark : Nat,
            handoff : Nat, envelope : Nat, sig : SUBSET (Fingerprints \cup Texts),
            text : SUBSET Texts]
Notes == [kind : {"usage", "message", "started"}, turn : Nat]
         \cup [kind : {"done"}, turn : Nat, status : {"completed", "interrupted", "failed"}]
LedgerTyped ==
    IF ledger.revision = 0 THEN ledger = NoLedger ELSE ledger \in [revision : Nat, cp : Ledgers]
TypeOK ==
    /\ LedgerTyped
    /\ gov \in Session /\ task \in {"IMPLEMENTING", "REVIEW_READY", "NEEDS_HELP", "STALLED"}
    /\ leases \in BOOLEAN /\ lost \in BOOLEAN /\ live \in Nat /\ wire \in Seq(Notes)
    /\ done \subseteq Planned /\ idle \in Nat
    /\ spent \in [turns : Nat, usage : Nat, messages : Nat, faults : Nat]
    /\ pump.at \in {"idle", "ended", "candidate", "diff", "checkpoint", "preserve", "prepare",
                    "start", "attach", "keys"}
    /\ watch.at \in {"idle", "judge", "stop", "key", "steer", "steered"}

(* The ledger never loses what a checkpoint completed, and what it holds is *)
(* always a ledger the validator accepts, whatever the model sends.         *)
LedgerMonotone ==
    HasLedger => done \subseteq With(ledger.cp, "completed") /\ validate_governor_checkpoint(ledger.cp)

(* A warm turn gets at least the smallest budget, and a governor with a     *)
(* ledger no more tokens than the no-progress window has left: what was     *)
(* used since the fingerprint last changed, plus the turn's budget, fits    *)
(* the goal envelope.  (Without a ledger see DurableProgressWindow.)        *)
NoProgressWindow ==
    At(pump, "start") => /\ gov.budget >= MinTokens
                         /\ HasLedger => idle + gov.budget <= GoalBudget

(* The leases are released only when no turn of the governor runs, unless   *)
(* the turn is one whose start was never answered.                          *)
ReleasedMeansEnded == ~leases /\ live # 0 => lost

GovernorCustody == TypeOK /\ LedgerMonotone /\ NoProgressWindow /\ ReleasedMeansEnded

(* "do not release write lease while a possibly mutating process lives"     *)
(* (ARCHITECTURE_AND_IMPLEMENTATION_PLAN.md:1657): also for a warm turn     *)
(* whose start was accepted but not answered.                               *)
WarmTurnLeased == live # 0 => leases

(* "A durable milestone/artifact advance earns the next bounded window"     *)
(* (crates/harness-orchestrator/src/lib.rs:14541): refuted, a governor that *)
(* never sent a valid checkpoint earns one with every new next action.      *)
DurableProgressWindow == At(pump, "start") => idle + gov.budget <= GoalBudget

(* A turn maintenance interrupted at its budget is finalized, never failed. *)
HardStopFinalizes == ~(gov.hard /\ gov.state = "FAILED" /\ pump.at = "idle" /\ task = "NEEDS_HELP" /\ leases = FALSE)

(* A steering mark never revives a session whose turn has been handled.     *)
FinishedStaysFinished == task \in {"REVIEW_READY", "NEEDS_HELP"} /\ At(pump, "idle") /\ live = 0 /\ wire = <<>> => ~agent_state_consumes_capacity(gov.state)
=============================================================================
