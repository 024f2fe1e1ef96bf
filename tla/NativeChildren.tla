--------------------------- MODULE NativeChildren ---------------------------
(***************************************************************************)
(* Threads the App Server starts on its own as children of a governor's    *)
(* thread (Orchestrator::ingest_codex_event).  A provider that can enforce *)
(* limits on them gets an Explorer session per child, counted against the  *)
(* discovery capacity; under a single-model provider the child is not      *)
(* admissible: the parent is quarantined in one transaction, the child is  *)
(* deleted and the parent's turn interrupted, and the parent keeps its     *)
(* active turn, the handle of a retry, until both are confirmed.           *)
(***************************************************************************)
EXTENDS Naturals, Sequences, FiniteSets

CONSTANTS
    Children,     \* child threads
    Capacity,     \* max_read_only_discovery
    MaxPackets,   \* bound on activity packets
    MaxFailures   \* bound on calls the App Server fails

VARIABLES
    provider,   \* whether native children are permitted; "unset" before the launch
    parent,     \* the governor's session: state and active turn
    runs,       \* what the App Server runs: the parent's turn, child threads
    packets,    \* notifications the pump has not handled
    child,      \* agent session of each child thread
    receipts,   \* delete_confirmed events
    contained,  \* cancellation_completed events
    paused,     \* runs.scheduler_paused
    task,       \* state of the governor's task
    step,       \* what the pump is doing
    ceiling,    \* governor-child-hard-stop keys, and the child whose stop is not recorded yet
    spent       \* bounds consumed

childVars == <<provider, parent, runs, packets, child, receipts, contained, paused, task,
               step, ceiling, spent>>

Idle == [pc |-> "idle", c |-> "none", deleted |-> FALSE, interrupted |-> FALSE]
agent_state_consumes_capacity(s) == s \in {"RUNNING", "STARTING", "STOPPING"}
ActiveChildren == {c \in Children : agent_state_consumes_capacity(child[c])}
CallFails == spent.failures < MaxFailures /\ spent' = [spent EXCEPT !.failures = @ + 1]

-----------------------------------------------------------------------------
(* The App Server                                                          *)
LaunchGovernor(p) ==
    /\ provider = "unset" /\ provider' = p
    /\ parent' = [state |-> "RUNNING", active |-> TRUE]
    /\ runs' = [turn |-> TRUE, threads |-> {}]
    /\ UNCHANGED <<packets, child, receipts, contained, paused, task, step, ceiling, spent>>

SpawnChild(c) ==
    /\ runs.turn /\ c \notin runs.threads /\ c \notin spent.spawned
    /\ runs' = [runs EXCEPT !.threads = @ \cup {c}]
    /\ packets' = Append(packets, <<"thread_started", c>>)
    /\ spent' = [spent EXCEPT !.spawned = @ \cup {c}]
    /\ UNCHANGED <<provider, parent, child, receipts, contained, paused, task, step, ceiling>>

\* subAgentActivity and collabAgentToolCall items of the parent's turn.
ChildPacket(c, kind) ==
    /\ runs.turn /\ c \in runs.threads /\ spent.packets < MaxPackets
    /\ packets' = Append(packets, <<kind, c>>)
    /\ spent' = [spent EXCEPT !.packets = @ + 1]
    /\ UNCHANGED <<provider, parent, runs, child, receipts, contained, paused, task, step, ceiling>>

GovernorTurnEnds ==
    /\ runs.turn
    /\ runs' = [runs EXCEPT !.turn = FALSE]
    /\ packets' = Append(packets, <<"turn_completed", "none">>)
    /\ UNCHANGED <<provider, parent, child, receipts, contained, paused, task, step, ceiling, spent>>

-----------------------------------------------------------------------------
(* Quarantine under a single-model provider                                *)
unenforceable_qwodex_native_child(p) ==
    provider = "single" /\ p[1] \in {"thread_started", "interacted", "interrupted"}

\* One transaction with the raw packet.
quarantine_unenforceable_native_child(c) ==
    /\ parent' = [parent EXCEPT !.state = "FAILED"]
    /\ paused' = TRUE /\ task' = "NEEDS_HELP"
    /\ step' = [Idle EXCEPT !.pc = "delete", !.c = c]

\* Mutant: any error of thread/delete counts as absence.
delete_outcome_lenient(c) ==
    \/ receipts' = receipts \cup {c} /\ runs' = [runs EXCEPT !.threads = @ \ {c}] /\ UNCHANGED spent
    \/ receipts' = receipts \cup {c} /\ CallFails /\ UNCHANGED runs
(* thread/delete: deleted, or an error that is no confirmation of absence. *)
delete_outcome(c) ==
    \/ receipts' = receipts \cup {c} /\ runs' = [runs EXCEPT !.threads = @ \ {c}] /\ UNCHANGED spent
    \/ CallFails /\ UNCHANGED <<receipts, runs>>

quarantine_delete ==
    LET c == step.c
    IN /\ step.pc = "delete"
       /\ IF c \in receipts THEN UNCHANGED <<receipts, runs, spent>> ELSE delete_outcome(c)
       /\ step' = [step EXCEPT !.pc = "interrupt", !.deleted = c \in receipts']
       /\ UNCHANGED <<provider, parent, packets, child, contained, paused, task, ceiling>>

\* Interrupted, or an error saying that the turn is over.
quarantine_interrupt ==
    /\ step.pc = "interrupt"
    /\ \/ /\ runs' = IF parent.active THEN [runs EXCEPT !.turn = FALSE] ELSE runs
          /\ step' = [step EXCEPT !.pc = "complete", !.interrupted = TRUE]
          /\ UNCHANGED spent
       \/ /\ parent.active /\ CallFails
          /\ step' = [step EXCEPT !.pc = "complete"] /\ UNCHANGED runs
    /\ UNCHANGED <<provider, parent, packets, child, receipts, contained, paused, task, ceiling>>

quarantine_complete ==
    /\ step.pc = "complete" /\ step' = Idle
    /\ \/ /\ step.deleted /\ step.interrupted
          /\ parent' = [parent EXCEPT !.active = FALSE]
          /\ contained' = contained \cup {step.c}
       \/ ~(step.deleted /\ step.interrupted) /\ UNCHANGED <<parent, contained>>
    /\ UNCHANGED <<provider, runs, packets, child, receipts, paused, task, ceiling, spent>>

-----------------------------------------------------------------------------
(* Projection under a provider that permits children                       *)
CapacityExceeded == Cardinality(ActiveChildren) >= Capacity

\* Known child threads keep their session; the run pauses when one too many comes.
ensure_native_subagent(c) == IF child[c] = "none" THEN "RUNNING" ELSE child[c]
AdmissionPauses(c) == child[c] = "none" /\ CapacityExceeded

project_native_subagent_activity(c, kind) ==
    IF kind = "interrupted" THEN "INTERRUPTED"
    ELSE IF kind = "interacted" /\ agent_state_consumes_capacity(ensure_native_subagent(c))
         THEN "RUNNING" ELSE ensure_native_subagent(c)

project_native_collaboration(c, status) ==
    IF child[c] = "none" THEN "none"
    ELSE CASE status = "collab_running" -> "RUNNING"
           [] status = "collab_completed" -> "TURN_COMPLETE"
           [] status = "collab_errored" -> "FAILED"

project_child(p) ==
    /\ provider = "native"
    /\ \/ /\ p[1] \in {"thread_started", "interacted", "interrupted"}
          /\ child' = [child EXCEPT ![p[2]] = project_native_subagent_activity(p[2], p[1])]
          /\ paused' = (paused \/ AdmissionPauses(p[2]))
       \/ /\ p[1] \in {"collab_running", "collab_completed", "collab_errored"}
          /\ child' = [child EXCEPT ![p[2]] = project_native_collaboration(p[2], p[1])]
          /\ UNCHANGED paused

(* The governor's turn is over: every delegated turn is interrupted; where *)
(* that fails the recorded status of its last turn decides, and a child    *)
(* with none goes on.                                                      *)
reconcile_governor_children ==
    \E stopped \in SUBSET ActiveChildren :
    \E kept \in [ActiveChildren \ stopped -> {"RUNNING", "TURN_COMPLETE", "FAILED"}] :
        child' = [c \in Children |->
            IF c \in stopped THEN "INTERRUPTED"
            ELSE IF c \in ActiveChildren THEN kept[c] ELSE child[c]]

ingest_codex_event ==
    LET p == Head(packets)
    IN /\ step.pc = "idle" /\ packets # <<>>
       /\ packets' = Tail(packets)
       /\ \/ /\ unenforceable_qwodex_native_child(p)
             /\ quarantine_unenforceable_native_child(p[2])
             /\ UNCHANGED child
          \/ project_child(p) /\ UNCHANGED <<parent, task, step>>
          \/ /\ provider = "single" /\ p[1] \in {"collab_running", "collab_completed", "collab_errored"}
             /\ UNCHANGED <<parent, task, step, child, paused>>
          \/ /\ p[1] = "turn_completed"
             /\ parent' = [parent EXCEPT !.active = FALSE]
             /\ reconcile_governor_children /\ UNCHANGED <<task, step, paused>>
       /\ UNCHANGED <<provider, runs, receipts, contained, ceiling, spent>>

-----------------------------------------------------------------------------
(* Maintenance (supervise_active_governors): a child over its token ceiling *)
(* is interrupted once; the key and the state follow in later statements.   *)
child_hard_stop(c) ==
    /\ ceiling.pending = "none" /\ c \in ActiveChildren /\ c \notin ceiling.keys
    /\ \/ ceiling' = [ceiling EXCEPT !.pending = c] /\ UNCHANGED spent
       \/ CallFails /\ UNCHANGED ceiling
    /\ UNCHANGED <<provider, parent, runs, packets, child, receipts, contained, paused, task, step>>
record_child_hard_stop ==
    /\ ceiling.pending # "none"
    /\ ceiling' = [pending |-> "none", keys |-> ceiling.keys \cup {ceiling.pending}]
    /\ child' = [child EXCEPT ![ceiling.pending] = "STOPPING"]
    /\ UNCHANGED <<provider, parent, runs, packets, receipts, contained, paused, task, step, spent>>

-----------------------------------------------------------------------------
Init ==
    /\ provider = "unset" /\ parent = [state |-> "STARTING", active |-> FALSE]
    /\ runs = [turn |-> FALSE, threads |-> {}] /\ packets = <<>>
    /\ child = [c \in Children |-> "none"] /\ receipts = {} /\ contained = {}
    /\ paused = FALSE /\ task = "IMPLEMENTING" /\ step = Idle
    /\ ceiling = [pending |-> "none", keys |-> {}]
    /\ spent = [spawned |-> {}, packets |-> 0, failures |-> 0]

Next ==
    \/ \E p \in {"native", "single"} : LaunchGovernor(p)
    \/ \E c \in Children : SpawnChild(c)
    \/ \E c \in Children, k \in {"interacted", "interrupted", "collab_running",
                                 "collab_completed", "collab_errored"} : ChildPacket(c, k)
    \/ GovernorTurnEnds \/ ingest_codex_event
    \/ \E c \in Children : child_hard_stop(c)
    \/ record_child_hard_stop
    \/ quarantine_delete \/ quarantine_interrupt \/ quarantine_complete

Spec == Init /\ [][Next]_childVars

-----------------------------------------------------------------------------
(* A child whose cancellation is recorded as completed does not run and    *)
(* neither does its parent's turn, and while both a rejected child and the *)
(* parent's turn still run, the parent keeps the active turn a retry needs,*)
(* whatever calls failed and however often the child's packets came.       *)
NativeChildrenContained ==
    /\ \A c \in contained : c \notin runs.threads /\ ~runs.turn
    /\ (/\ provider = "single" /\ step.pc = "idle" /\ parent.state = "FAILED"
        /\ runs.turn /\ runs.threads # {}) => parent.active
=============================================================================
