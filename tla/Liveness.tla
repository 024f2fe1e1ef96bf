------------------------------ MODULE Liveness ------------------------------
(***************************************************************************)
(* The liveness episode of one attempt: typed observations reduced into an *)
(* episode state, and the two interventions an operator may execute on an  *)
(* exact revision of it.  Observers and operators act on revisions they    *)
(* read earlier, observations arrive late, and a browser repeats requests. *)
(***************************************************************************)
EXTENDS Naturals, Sequences

CONSTANTS
    Observers,   \* recorders of observations
    Operators,   \* sessions that request interventions
    Delay,       \* OBSERVE_REVIEW_DELAY_MS
    MaxTime,     \* bound on the clock
    MaxVersion   \* bound on episode revisions

VARIABLES
    clock,     \* time at which facts are observed
    episode,   \* state, times, intervention count
    log,       \* revision history: what made each revision, and the state it left
    receipts,  \* intervention receipts
    run,       \* scheduler_paused of the run, and its human_actions rows
    reader,    \* revision and observation an observer is about to record
    request    \* requests of the operators

livenessVars == <<clock, episode, log, receipts, run, reader, request>>

Stalled == {"suspected_stall", "confirmed_stall", "ownership_uncertain", "waiting_external"}
Pausable == {"confirmed_stall", "recovery_required"}
NoReview == MaxTime + Delay + 1
Version == Len(log)
IdleReader == [pc |-> "idle", version |-> 0, obs |-> "", at |-> 0]
IdleRequest == [pc |-> "idle", kind |-> "wait", version |-> 0]
Observations ==
    {"material_progress", "heartbeat", "command_activity", "ownership_uncertain",
     "external_wait", "no_progress", "no_progress_confirmed", "ownership_evidence"}
Receipt(kind, v, o) == <<kind, v, o>>

-----------------------------------------------------------------------------
(* reduce_episode.                                                         *)
Reviewed(e, s, at) == [e EXCEPT !.state = s, !.review = at + Delay]
Unmoved(e) == e
HeartbeatHeals(e, at) == [e EXCEPT !.state = "healthy", !.review = NoReview]
Activity(e, at) ==
    IF e.state \in {"healthy", "quiet_active"} THEN Reviewed(e, "quiet_active", at) ELSE Unmoved(e)
reduce_episode(e, obs, at) ==
    CASE obs = "material_progress" ->
           [e EXCEPT !.state = "healthy", !.progress = at, !.review = NoReview]
      [] obs = "ownership_uncertain" -> Reviewed(e, "ownership_uncertain", at)
      [] obs = "external_wait" -> Reviewed(e, "waiting_external", at)
      [] obs = "no_progress_confirmed" -> Reviewed(e, "confirmed_stall", at)
      [] obs = "no_progress" -> Reviewed(e, "suspected_stall", at)
      [] obs \in {"heartbeat", "command_activity"} -> Activity(e, at)
      [] OTHER -> Unmoved(e)

MaxOf(a, b) == IF a >= b THEN a ELSE b
Touched(e, at) == [e EXCEPT !.updated = MaxOf(@, at)]
validate(e) == e.review >= e.updated /\ e.progress <= e.updated

observe(o) ==
    /\ reader[o].pc = "idle" /\ Version < MaxVersion
    /\ \E obs \in Observations :
         reader' = [reader EXCEPT ![o] = [pc |-> "record", version |-> Version, obs |-> obs, at |-> clock]]
    /\ UNCHANGED <<clock, episode, log, receipts, run, request>>

record_liveness_observation(o) ==
    LET r == reader[o]
        next == Touched(reduce_episode(episode, r.obs, r.at), r.at) IN
    /\ r.pc = "record" /\ reader' = [reader EXCEPT ![o] = IdleReader]
    /\ IF Version = r.version /\ validate(next)
       THEN episode' = next /\ log' = Append(log, [by |-> <<r.obs>>, state |-> next.state])
       ELSE UNCHANGED <<episode, log>>
    /\ UNCHANGED <<clock, receipts, run, request>>

-----------------------------------------------------------------------------
(* record_intervention_receipt: bound to the revision it names, once.      *)
AnyRevision(v) == TRUE
TargetsRevision(v) == Version = v
Intervened(kind, v, o) ==
    LET at == MaxOf(clock, episode.updated)
        moved == [Touched(episode, at) EXCEPT !.count = @ + 1, !.review = MaxOf(@, at)] IN
    /\ episode' = moved /\ receipts' = receipts \cup {Receipt(kind, v, o)}
    /\ log' = Append(log, [by |-> Receipt(kind, v, o), state |-> moved.state])

ask(o) ==
    /\ request[o].pc = "idle"
    /\ \E kind \in {"wait", "pause"}, v \in 1..Version :
         request' = [request EXCEPT ![o] = [pc |-> "check", kind |-> kind, version |-> v]]
    /\ UNCHANGED <<clock, episode, log, receipts, run, reader>>

(* The wait reads before its transaction; the pause is one transaction     *)
(* with the scheduler and its audit row.                                   *)
check_wait(o) ==
    LET r == request[o] IN
    /\ r.pc = "check" /\ r.kind = "wait"
    /\ request' = [request EXCEPT ![o] =
          IF Receipt("wait", r.version, o) \in receipts \/ Version # r.version THEN IdleRequest
          ELSE [@ EXCEPT !.pc = "record"]]
    /\ UNCHANGED <<clock, episode, log, receipts, run, reader>>

execute_wait_intervention(o) ==
    LET r == request[o] IN
    /\ r.pc = "record" /\ request' = [request EXCEPT ![o] = IdleRequest]
    /\ IF TargetsRevision(r.version) /\ Version < MaxVersion
       THEN Intervened("wait", r.version, o)
       ELSE UNCHANGED <<episode, receipts, log>>
    /\ UNCHANGED <<clock, run, reader>>

execute_pause_for_operator_intervention(o) ==
    LET r == request[o] IN
    /\ r.pc = "check" /\ r.kind = "pause" /\ request' = [request EXCEPT ![o] = IdleRequest]
    /\ IF Receipt("pause", r.version, o) \notin receipts /\ TargetsRevision(r.version)
          /\ episode.state \in Pausable /\ Version < MaxVersion
       THEN /\ Intervened("pause", r.version, o)
            /\ run' = [paused |-> TRUE, actions |-> Append(run.actions, <<r.version, o>>)]
       ELSE UNCHANGED <<episode, receipts, log, run>>
    /\ UNCHANGED <<clock, reader>>

resume_scheduler == run.paused /\ run' = [run EXCEPT !.paused = FALSE]
                    /\ UNCHANGED <<clock, episode, log, receipts, reader, request>>
Tick == clock < MaxTime /\ clock' = clock + 1
        /\ UNCHANGED <<episode, log, receipts, run, reader, request>>

Init ==
    /\ clock = 0 /\ receipts = {} /\ run = [paused |-> FALSE, actions |-> <<>>]
    /\ episode = [state |-> "healthy", updated |-> 0, progress |-> 0, review |-> NoReview, count |-> 0]
    /\ log = <<[by |-> <<"open">>, state |-> "healthy"]>>
    /\ reader = [o \in Observers |-> IdleReader] /\ request = [o \in Operators |-> IdleRequest]

Next ==
    \/ \E o \in Observers : observe(o) \/ record_liveness_observation(o)
    \/ \E o \in Operators : \/ ask(o) \/ check_wait(o) \/ execute_wait_intervention(o)
                            \/ execute_pause_for_operator_intervention(o)
    \/ resume_scheduler \/ Tick
Spec == Init /\ [][Next]_livenessVars

-----------------------------------------------------------------------------
(* An intervention acts on the revision its requester saw and on no other: *)
(* its receipt is the very next revision, it is counted once however often *)
(* the browser repeats it, a pause found the attempt stalled, and every    *)
(* pause has its audit row.  A stall ends in health only by material       *)
(* progress; no heartbeat ends it.                                         *)
InterventionsBindRevision ==
    /\ \A r \in receipts : /\ log[r[2] + 1].by = r
                           /\ r[1] = "pause" => log[r[2]].state \in Pausable
    /\ episode.count = Len(SelectSeq(log, LAMBDA x : x.by \in receipts))
    /\ \A i \in 1..Len(run.actions) : <<"pause", run.actions[i][1], run.actions[i][2]>> \in receipts
    /\ \A v \in 2..Version :
          log[v - 1].state \in Stalled /\ log[v].state \in {"healthy", "quiet_active"}
              => log[v].by = <<"material_progress">>
=============================================================================
