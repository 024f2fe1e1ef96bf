---------------------------- MODULE Supervision ----------------------------
(***************************************************************************)
(* Advisory supervision of one run: observation of the run's events,       *)
(* supervisor reviews, the proposals of a decision, their application by   *)
(* the operator and the expert consultation it may start.  Maintenance,    *)
(* the operator's request and the pump (after an expert's answer) observe  *)
(* and launch concurrently; two operator tabs apply proposals; the pump    *)
(* takes answers in; settings switch supervision off at any time.          *)
(*                                                                         *)
(* Event k is the k-th domain event of the run.  Snapshot i is the one of  *)
(* revision i; it has at most one review, one decision with one proposal   *)
(* and one expert request, all indexed by i.                               *)
(***************************************************************************)
EXTENDS Naturals, Sequences, FiniteSets

CONSTANTS
    Tabs,          \* operator tabs that apply proposals
    MaxEvents,     \* bound on domain events
    MaxSnapshots,  \* bound on snapshots
    MaxFaults      \* bound on failed calls, crashes and custody changes together

VARIABLES
    events,     \* kinds of the run's domain events
    cursor,     \* supervisor_observation_cursors
    snaps,      \* snapshots: event cursor, custody facts, allowed actions
    review,     \* supervisor_reviews, by snapshot
    latest,     \* snapshot of the review created last
    turn,       \* the supervisor's and the expert's turn, by snapshot
    action,     \* supervisor_actions: kind, state, the decision's policy
    expert,     \* expert_requests: state, events seen when it began
    enabled,    \* the persisted supervision setting
    facts,      \* version of the operator-control custody facts
    run,        \* state of the run
    paused,     \* scheduler_paused
    lock,       \* operation_lock: its holder
    pc,         \* programs in progress
    lateStart,  \* a model turn was started while supervision was off
    spent       \* faults

superVars == <<events, cursor, snaps, review, latest, turn, action, expert, enabled, facts,
               run, paused, lock, pc, lateStart, spent>>

Observers == {"maint", "oper", "pump"}
Procs == Observers \cup Tabs
Snaps == 1..MaxSnapshots
Idle == [at |-> "idle", i |-> 0, seen |-> 0, material |-> FALSE, facts |-> 0,
         allowed |-> {}]
NoAction == [kind |-> "none", state |-> "none", policy |-> "none", seen |-> 0]
NoExpert == [state |-> "none", begun |-> 0]
NoTurn == [supervisor |-> "none", expert |-> "none"]

-----------------------------------------------------------------------------
(* material_trigger: the allow-list.  "listed" stands for the kinds that   *)
(* the SQL filter of record_current_supervisor_decision repeats, "other"   *)
(* for those it does not (expert and external-condition events).           *)
material_trigger(k) == k \in {"listed", "other"}
Emitted(k) == IF Len(events) < MaxEvents THEN Append(events, k) ELSE events
Since(c) == {events[j] : j \in (c + 1)..Len(events)}
later_material_event_exists(c) == \E k \in Since(c) : material_trigger(k)
later_listed_event_exists(c) == "listed" \in Since(c)

ReviewActive(i) == review[i] \in {"STARTING", "RUNNING"}
ExpertActive(i) == expert[i].state \in {"QUEUED", "RUNNING"}
Terminal == run = "TERMINAL"
Faulty == spent < MaxFaults
At(p, l) == pc[p].at = l
Goto(p, l) == pc' = [pc EXCEPT ![p].at = l]
Return(p) == pc' = [pc EXCEPT ![p] = Idle]
Unlock(p) == lock' = IF lock = p THEN "none" ELSE lock
Grab(p) == lock = "none" /\ lock' = p
(* supervision_lifecycle_lock: launchers read it from their final check to *)
(* the end of the start, update_operator_settings writes it.               *)
Reading(p) == pc[p].at \in {"create", "start", "mark", "request", "begin", "consult"}

-----------------------------------------------------------------------------
(* Observation: one transaction captures the events after the cursor and   *)
(* the custody facts, a second one records the snapshot and moves the      *)
(* cursor.                                                                 *)
control_plane_fact_payload == facts
allowed_actions ==
    {"wait"} \cup (IF paused /\ ~Terminal THEN {"continue_attempt"} ELSE {})
             \cup (IF run = "BLOCKED" THEN {"request_expert"} ELSE {})
Captured(log) ==
    [at |-> "record", i |-> 0, seen |-> Len(log), facts |-> control_plane_fact_payload,
     allowed |-> allowed_actions,
     material |-> \E j \in (cursor + 1)..Len(log) : material_trigger(log[j])]
capture_supervisor_observation(p) ==
    /\ pc' = [pc EXCEPT ![p] = Captured(events)]
    /\ UNCHANGED <<events, cursor, snaps, review, latest, turn, action, expert, enabled,
                   facts, run, paused, lateStart, spent>>

(* maintenance_tick observes when supervision is on; recent material       *)
(* events may be left to coalesce.                                         *)
observe_run ==
    /\ At("maint", "idle") /\ enabled /\ Len(events) > cursor /\ UNCHANGED lock
    /\ capture_supervisor_observation("maint")

(* request_supervisor_review emits its event and observes under the lock.  *)
request_supervisor_review ==
    /\ At("oper", "idle") /\ enabled /\ ~Terminal /\ Len(events) < MaxEvents
    /\ Grab("oper")
    /\ events' = Append(events, "listed")
    /\ pc' = [pc EXCEPT !["oper"] = Captured(events')]
    /\ UNCHANGED <<cursor, snaps, review, latest, turn, action, expert, enabled, facts, run,
                   paused, lateStart, spent>>

build_snapshot(p) ==
    [cursor |-> pc[p].seen, facts |-> pc[p].facts, allowed |-> pc[p].allowed]
Moved(c) == cursor' = IF c > cursor THEN c ELSE cursor
(* Only benign events: the cursor moves and nothing is recorded.  A        *)
(* snapshot of the same cursor is returned as it is.                       *)
record_supervisor_snapshot(p) ==
    LET seen == pc[p].seen
        same == {i \in DOMAIN snaps : snaps[i].cursor = seen}
        material == pc[p].material
    IN /\ At(p, "record") /\ Moved(seen) /\ Unlock(p)
       /\ \/ /\ ~material /\ Return(p) /\ UNCHANGED snaps
          \/ /\ material /\ same # {} /\ UNCHANGED snaps
             /\ pc' = [pc EXCEPT ![p].at = "launch", ![p].i = CHOOSE i \in same : TRUE]
          \/ /\ material /\ same = {} /\ Len(snaps) < MaxSnapshots
             /\ snaps' = Append(snaps, build_snapshot(p))
             /\ pc' = [pc EXCEPT ![p].at = "launch", ![p].i = Len(snaps) + 1]
       /\ UNCHANGED <<events, review, latest, turn, action, expert, enabled, facts, run,
                      paused, lateStart, spent>>

(* Maintenance retries the latest snapshot while it has no review.         *)
retry_pending_snapshot ==
    /\ At("maint", "idle") /\ enabled /\ Len(snaps) > 0 /\ review[Len(snaps)] = "none"
    /\ pc' = [pc EXCEPT !["maint"].at = "launch", !["maint"].i = Len(snaps)]
    /\ UNCHANGED <<events, cursor, snaps, review, latest, turn, action, expert, enabled,
                   facts, run, paused, lock, lateStart, spent>>
-----------------------------------------------------------------------------
(* launch_supervisor_review: lock, first checks, readiness of the runtime, *)
(* then the final read of the setting under the lifecycle lock.            *)
launch_supervisor_review(p) ==
    /\ At(p, "launch") /\ lock = "none"
    /\ IF enabled /\ ~(latest > 0 /\ ReviewActive(latest))
       THEN lock' = p /\ Goto(p, "ready")
       ELSE UNCHANGED lock /\ Return(p)
    /\ UNCHANGED <<events, cursor, snaps, review, latest, turn, action, expert, enabled,
                   facts, run, paused, lateStart, spent>>

(* An await that fails, or no free thread slot: the launch is given up.    *)
LaunchDeferred(p) ==
    /\ At(p, "ready") /\ Faulty /\ spent' = spent + 1 /\ Unlock(p) /\ Return(p)
    /\ UNCHANGED <<events, cursor, snaps, review, latest, turn, action, expert, enabled,
                   facts, run, paused, lateStart>>

StillAdvisoryUnread == TRUE
StillAdvisory == enabled
recheck_advisory(p) ==
    /\ At(p, "ready")
    /\ IF StillAdvisory THEN Goto(p, "create") /\ UNCHANGED lock ELSE Return(p) /\ Unlock(p)
    /\ UNCHANGED <<events, cursor, snaps, review, latest, turn, action, expert, enabled,
                   facts, run, paused, lateStart, spent>>

(* UNIQUE(run_id, snapshot_id) and the partial index refuse a second       *)
(* review of the snapshot and a second active one.                         *)
create_supervisor_review(p) ==
    LET i == pc[p].i IN
    /\ At(p, "create")
    /\ IF review[i] = "none" /\ \A j \in Snaps : ~ReviewActive(j)
       THEN /\ review' = [review EXCEPT ![i] = "STARTING"] /\ latest' = i
            /\ Goto(p, "start") /\ UNCHANGED lock
       ELSE UNCHANGED <<review, latest>> /\ Return(p) /\ Unlock(p)
    /\ UNCHANGED <<events, cursor, snaps, turn, action, expert, enabled, facts, run, paused,
                   lateStart, spent>>

start_supervisor(p) ==
    LET i == pc[p].i IN
    /\ At(p, "start")
    /\ \/ /\ turn' = [turn EXCEPT ![i].supervisor = "running"]
          /\ lateStart' = (lateStart \/ ~enabled)
          /\ Goto(p, "mark") /\ UNCHANGED <<review, lock, spent>>
       \/ /\ Faulty /\ spent' = spent + 1
          /\ review' = [review EXCEPT ![i] = IF ReviewActive(i) THEN "FAILED" ELSE @]
          /\ Return(p) /\ Unlock(p) /\ UNCHANGED <<turn, lateStart>>
    /\ UNCHANGED <<events, cursor, snaps, latest, action, expert, enabled, facts, run, paused>>

(* The decision may already be there: then the update changes no row and   *)
(* the launch ends in an error without consequence.                        *)
mark_supervisor_review_running(p) ==
    LET i == pc[p].i IN
    /\ At(p, "mark") /\ Return(p) /\ Unlock(p)
    /\ review' = [review EXCEPT ![i] = IF @ = "STARTING" THEN "RUNNING" ELSE @]
    /\ UNCHANGED <<events, cursor, snaps, latest, turn, action, expert, enabled, facts, run,
                   paused, lateStart, spent>>

-----------------------------------------------------------------------------
(* The pump takes the decision in.  Duplicates of an answer find the       *)
(* review closed; an invalid answer fails it.  continue_attempt stands     *)
(* for start_followup_turn as well: both run a controller operation whose  *)
(* error leaves apply_supervisor_action at once.                           *)
validate_supervisor_decision(i) == snaps[i].allowed \cup {"invalid"}
Freshness(i) == IF later_listed_event_exists(snaps[i].cursor) THEN "STALE" ELSE "ADVISORY"

\* The decision's action is proposed, or is stale from the start.
insert_supervisor_action_proposals(i, kind) ==
    action' = [action EXCEPT ![i] =
        [kind |-> kind, seen |-> Len(events), policy |-> Freshness(i),
         state |-> IF Freshness(i) = "STALE" THEN "STALE" ELSE "PROPOSED"]]

accept_supervisor_decision(i) ==
    /\ At("pump", "idle") /\ turn[i].supervisor = "running" /\ ReviewActive(i)
    /\ \E kind \in validate_supervisor_decision(i) :
          IF kind = "invalid"
          THEN review' = [review EXCEPT ![i] = "FAILED"] /\ UNCHANGED action
          ELSE /\ review' = [review EXCEPT ![i] = IF Freshness(i) = "STALE" THEN "STALE"
                                                  ELSE "COMPLETED"]
               /\ insert_supervisor_action_proposals(i, kind)
    /\ UNCHANGED <<events, cursor, snaps, latest, turn, expert, enabled, facts, run, paused,
                   lock, pc, lateStart, spent>>

supervisor_turn_completed(i) ==
    /\ At("pump", "idle") /\ turn[i].supervisor = "running"
    /\ turn' = [turn EXCEPT ![i].supervisor = "ended"]
    /\ review' = [review EXCEPT ![i] = IF ReviewActive(i) THEN "FAILED" ELSE @]
    /\ UNCHANGED <<events, cursor, snaps, latest, action, expert, enabled, facts, run, paused,
                   lock, pc, lateStart, spent>>

-----------------------------------------------------------------------------
(* apply_supervisor_action.  Its critical section ends with EXECUTING.     *)
apply_supervisor_action(t, i) ==
    /\ At(t, "idle") /\ i \in DOMAIN snaps /\ action[i].state # "none" /\ lock = "none"
    /\ IF action[i].state # "PROPOSED" THEN UNCHANGED <<action, lock, pc>>
       ELSE IF ~enabled
            THEN /\ action' = [action EXCEPT ![i].state = "POLICY_REJECTED"]
                 /\ UNCHANGED <<lock, pc>>
            ELSE /\ lock' = t /\ UNCHANGED action
                 /\ pc' = [pc EXCEPT ![t].at = "fresh", ![t].i = i]
    /\ UNCHANGED <<events, cursor, snaps, review, latest, turn, expert, enabled, facts, run,
                   paused, lateStart, spent>>

supervisor_action_stale_reason(i) ==
    \/ i # Len(snaps) \/ Terminal
    \/ later_material_event_exists(snaps[i].cursor)
    \/ snaps[i].facts # control_plane_fact_payload

check_stale(t) ==
    LET i == pc[t].i IN
    /\ At(t, "fresh")
    /\ IF supervisor_action_stale_reason(i)
       THEN /\ action' = [action EXCEPT ![i].state = "STALE"] /\ Return(t) /\ Unlock(t)
       ELSE Goto(t, "policy") /\ UNCHANGED <<action, lock>>
    /\ UNCHANGED <<events, cursor, snaps, review, latest, turn, expert, enabled, facts, run,
                   paused, lateStart, spent>>

supervisor_action_policy_reason(i) ==
    CASE action[i].kind = "wait" -> TRUE
      [] action[i].kind = "continue_attempt" -> paused
      [] action[i].kind = "request_expert" -> run = "BLOCKED" /\ ~\E j \in Snaps : ExpertActive(j)

evaluate_supervisor_action(t) ==
    LET i == pc[t].i IN
    /\ At(t, "policy") /\ Unlock(t)
    /\ IF supervisor_action_policy_reason(i)
       THEN action' = [action EXCEPT ![i].state = "EXECUTING"] /\ Goto(t, "execute")
       ELSE action' = [action EXCEPT ![i].state = "POLICY_REJECTED"] /\ Return(t)
    /\ UNCHANGED <<events, cursor, snaps, review, latest, turn, expert, enabled, facts, run,
                   paused, lateStart, spent>>

complete_supervisor_action(t, state) ==
    action' = [action EXCEPT ![pc[t].i].state = state]

(* The side effect.  An error of resume_scheduler or tick leaves through   *)
(* the question mark: the action stays EXECUTING.                          *)
execute_supervisor_action(t) ==
    LET kind == action[pc[t].i].kind IN
    /\ At(t, "execute")
    /\ \/ /\ kind = "wait" /\ complete_supervisor_action(t, "SUCCEEDED") /\ Return(t)
          /\ UNCHANGED <<paused, spent>>
       \/ /\ kind = "continue_attempt" /\ ~Terminal
          /\ complete_supervisor_action(t, "SUCCEEDED")
          /\ paused' = FALSE /\ Return(t) /\ UNCHANGED spent
       \/ /\ kind = "continue_attempt" /\ Faulty /\ spent' = spent + 1
          /\ paused' \in {paused, FALSE} /\ Return(t) /\ UNCHANGED action
       \/ /\ kind = "continue_attempt" /\ Terminal /\ Return(t)
          /\ UNCHANGED <<action, paused, spent>>
       \/ /\ kind = "request_expert" /\ enabled /\ Goto(t, "recheck")
          /\ UNCHANGED <<action, paused, spent>>
       \/ /\ kind = "request_expert" /\ ~enabled
          /\ complete_supervisor_action(t, "FAILED") /\ Return(t) /\ UNCHANGED <<paused, spent>>
    /\ UNCHANGED <<events, cursor, snaps, review, latest, turn, expert, enabled, facts, run,
                   lock, lateStart>>

-----------------------------------------------------------------------------
(* launch_expert_consultation after the runtime is ready: everything is    *)
(* read again under the lock.                                              *)
recheck_expert(t) ==
    LET i == pc[t].i IN
    /\ At(t, "recheck") /\ lock = "none"
    /\ IF /\ StillAdvisory /\ action[i].state = "EXECUTING"
          /\ ~supervisor_action_stale_reason(i) /\ supervisor_action_policy_reason(i)
       THEN lock' = t /\ Goto(t, "request") /\ UNCHANGED action
       ELSE complete_supervisor_action(t, "FAILED") /\ Return(t) /\ UNCHANGED lock
    /\ UNCHANGED <<events, cursor, snaps, review, latest, turn, expert, enabled, facts, run,
                   paused, lateStart, spent>>

(* Consultations completed earlier for the same escalation may have used   *)
(* up the cap of its signature; this and an expiry are failures here.      *)
create_expert_request(t) ==
    LET i == pc[t].i
        free == ~later_material_event_exists(snaps[i].cursor) /\ \A j \in Snaps : ~ExpertActive(j)
    IN /\ At(t, "request")
       /\ \/ /\ free /\ expert' = [expert EXCEPT ![i].state = "QUEUED"]
             /\ Goto(t, "begin") /\ UNCHANGED <<action, lock, spent>>
          \/ /\ IF free THEN Faulty /\ spent' = spent + 1 ELSE UNCHANGED spent
             /\ complete_supervisor_action(t, "FAILED") /\ Return(t) /\ Unlock(t)
             /\ UNCHANGED expert
       /\ UNCHANGED <<events, cursor, snaps, review, latest, turn, enabled, facts, run, paused,
                      lateStart>>

finish_expert_request(i, state) ==
    expert' = [expert EXCEPT ![i].state = IF ExpertActive(i) THEN state ELSE @]
ExpertLaunchFailed(t) ==
    /\ finish_expert_request(pc[t].i, "FAILED") /\ events' = Emitted("other")
    /\ complete_supervisor_action(t, "FAILED") /\ Return(t) /\ Unlock(t)

(* The session is attached, then the request begins in one transaction     *)
(* with the check for later material events, unless it has expired.        *)
StillCurrentAssumed(i) == TRUE
StillCurrent(i) == ~later_material_event_exists(snaps[i].cursor)
begin_expert_request(t) ==
    LET i == pc[t].i IN
    /\ At(t, "begin")
    /\ \/ /\ StillCurrent(i)
          /\ expert' = [expert EXCEPT ![i] = [state |-> "RUNNING", begun |-> Len(events)]]
          /\ Goto(t, "consult") /\ UNCHANGED <<events, action, lock, spent>>
       \/ /\ IF StillCurrent(i) THEN Faulty /\ spent' = spent + 1 ELSE UNCHANGED spent
          /\ ExpertLaunchFailed(t)
    /\ UNCHANGED <<cursor, snaps, review, latest, turn, enabled, facts, run, paused,
                   lateStart>>

start_expert(t) ==
    LET i == pc[t].i IN
    /\ At(t, "consult")
    /\ \/ /\ turn' = [turn EXCEPT ![i].expert = "running"]
          /\ lateStart' = (lateStart \/ ~enabled)
          /\ complete_supervisor_action(t, "SUCCEEDED") /\ Return(t) /\ Unlock(t)
          /\ events' = Emitted("benign") /\ UNCHANGED <<expert, spent>>
       \/ /\ Faulty /\ spent' = spent + 1 /\ ExpertLaunchFailed(t)
          /\ UNCHANGED <<turn, lateStart>>
    /\ UNCHANGED <<cursor, snaps, review, latest, enabled, facts, run, paused>>

(* The answer is stored while its request is running and its time is not  *)
(* over (record_expert_response, one transaction).  After an accepted      *)
(* answer the pump observes at once and launches a follow-up review.       *)
record_expert_response(i) ==
    /\ expert[i].state = "RUNNING"
    /\ expert' = [expert EXCEPT ![i].state = "COMPLETED"]

accept_expert_response(i) ==
    /\ At("pump", "idle") /\ turn[i].expert = "running" /\ expert[i].state # "COMPLETED"
    /\ \/ /\ record_expert_response(i)
          /\ events' = Emitted("other")
          /\ pc' = IF enabled THEN [pc EXCEPT !["pump"] = Captured(events')] ELSE pc
          /\ UNCHANGED spent
       \/ /\ Faulty /\ spent' = spent + 1 /\ events' = Emitted("other") /\ UNCHANGED pc
          /\ \E state \in {"FAILED", "STALE"} : finish_expert_request(i, state)
    /\ UNCHANGED <<cursor, snaps, review, latest, turn, action, enabled, facts, run, paused,
                   lock, lateStart>>

expert_turn_completed(i) ==
    /\ At("pump", "idle") /\ turn[i].expert = "running"
    /\ turn' = [turn EXCEPT ![i].expert = "ended"]
    /\ finish_expert_request(i, "FAILED")
    /\ events' = IF ExpertActive(i) THEN Emitted("other") ELSE events
    /\ UNCHANGED <<cursor, snaps, review, latest, action, enabled, facts, run, paused, lock,
                   pc, lateStart, spent>>

-----------------------------------------------------------------------------
(* update_operator_settings waits for the launchers' read locks.           *)
LifecycleIgnored == TRUE
LifecycleFree == \A p \in Procs : ~Reading(p)
update_operator_settings ==
    /\ LifecycleFree /\ enabled' = ~enabled /\ Faulty /\ spent' = spent + 1
    /\ UNCHANGED <<events, cursor, snaps, review, latest, turn, action, expert, facts, run,
                   paused, lock, pc, lateStart>>

(* The rest of the controller emits events, changes custody facts and      *)
(* moves the run.                                                          *)
EventEmitted(k) ==
    /\ Len(events) < MaxEvents /\ events' = Append(events, k)
    /\ UNCHANGED <<cursor, snaps, review, latest, turn, action, expert, enabled, facts, run,
                   paused, lock, pc, lateStart, spent>>
RunMoves ==
    /\ Len(events) < MaxEvents
    /\ \/ run = "BLOCKED" /\ run' = "EXECUTING" /\ events' = Append(events, "listed")
       \/ ~Terminal /\ run' = "TERMINAL" /\ events' = Append(events, "benign")
    /\ UNCHANGED <<cursor, snaps, review, latest, turn, action, expert, enabled, facts,
                   paused, lock, pc, lateStart, spent>>
FactsChange ==
    /\ Faulty /\ spent' = spent + 1 /\ facts' = facts + 1
    /\ UNCHANGED <<events, cursor, snaps, review, latest, turn, action, expert, enabled, run,
                   paused, lock, pc, lateStart>>

(* The daemon dies: turns are lost.  reconcile_orphaned_sessions stalls    *)
(* the sessions and touches neither reviews nor requests nor actions.      *)
Crash ==
    /\ Faulty /\ spent' = spent + 1
    /\ pc' = [p \in Procs |-> Idle] /\ lock' = "none"
    /\ turn' = [i \in Snaps |-> [r \in DOMAIN turn[i] |->
                   IF turn[i][r] = "running" THEN "lost" ELSE turn[i][r]]]
    /\ UNCHANGED <<events, cursor, snaps, review, latest, action, expert, enabled, facts, run,
                   paused, lateStart>>

-----------------------------------------------------------------------------
Init ==
    /\ events = <<"listed">> /\ cursor = 0 /\ snaps = <<>> /\ latest = 0
    /\ review = [i \in Snaps |-> "none"] /\ turn = [i \in Snaps |-> NoTurn]
    /\ action = [i \in Snaps |-> NoAction] /\ expert = [i \in Snaps |-> NoExpert]
    /\ enabled = TRUE /\ facts = 0 /\ run = "BLOCKED" /\ paused = TRUE /\ lock = "none"
    /\ pc = [p \in Procs |-> Idle] /\ lateStart = FALSE /\ spent = 0

Observe ==
    \/ observe_run \/ request_supervisor_review \/ retry_pending_snapshot
    \/ \E p \in Observers : record_supervisor_snapshot(p)
Launch ==
    \E p \in Observers : \/ launch_supervisor_review(p) \/ LaunchDeferred(p)
                         \/ recheck_advisory(p) \/ create_supervisor_review(p)
                         \/ start_supervisor(p) \/ mark_supervisor_review_running(p)
Apply ==
    \E t \in Tabs : \/ \E i \in Snaps : apply_supervisor_action(t, i)
                    \/ check_stale(t) \/ evaluate_supervisor_action(t)
                    \/ execute_supervisor_action(t) \/ recheck_expert(t)
                    \/ create_expert_request(t) \/ begin_expert_request(t) \/ start_expert(t)
Answers ==
    \E i \in Snaps : \/ accept_supervisor_decision(i) \/ supervisor_turn_completed(i)
                     \/ accept_expert_response(i) \/ expert_turn_completed(i)
Controller ==
    \/ update_operator_settings \/ RunMoves \/ FactsChange \/ Crash
    \/ \E k \in {"listed", "other", "benign"} : EventEmitted(k)

Next == Observe \/ Launch \/ Apply \/ Answers \/ Controller
Spec == Init /\ [][Next]_superVars

-----------------------------------------------------------------------------
\* Values the state may take.
TypeOK ==
    /\ lock \in Procs \cup {"none"} /\ cursor \in 0..MaxEvents
    /\ \A i \in Snaps :
         /\ review[i] \in {"none", "STARTING", "RUNNING", "COMPLETED", "STALE", "FAILED"}
         /\ expert[i].state \in {"none", "QUEUED", "RUNNING", "COMPLETED", "FAILED", "STALE"}

(* An expert is consulted about the present: no material event lies        *)
(* between the snapshot the proposal was made from and the beginning of    *)
(* the consultation, one consultation at a time, and no model turn starts  *)
(* after the operator has switched supervision off.                        *)
ConsultationCurrent ==
    /\ ~lateStart
    /\ Cardinality({i \in Snaps : ExpertActive(i)}) <= 1
    /\ \A i \in Snaps : expert[i].begun > 0 =>
          \A j \in (snaps[i].cursor + 1)..expert[i].begun : ~material_trigger(events[j])

(* What record_current_supervisor_decision promises: a decision is         *)
(* recorded as advisory only if no later material event exists.            *)
AdvisoryMeansCurrent ==
    \A i \in Snaps : action[i].policy = "ADVISORY" =>
        \A j \in (snaps[i].cursor + 1)..action[i].seen : ~material_trigger(events[j])
=============================================================================
