----------------------------- MODULE Outcomes -----------------------------
(***************************************************************************)
(* The observer of one run.  On every cadence it reads the run's receipts  *)
(* (validations, lifecycle events, the token ledger), appends one outcome  *)
(* revision per label, projects every failure into an immutable occurrence *)
(* of a cluster, and captures a trace.  Meanwhile the run goes on, console *)
(* tabs assert outcomes of their own that supersede what they saw, and     *)
(* reviewers merge, split and relabel the clusters they looked at.         *)
(***************************************************************************)
EXTENDS Integers, FiniteSets, SequencesExt

CONSTANTS
    Attempts,     \* attempts of the run's tasks
    Validations,  \* validations of the run
    AttemptCodes, \* terminal codes an attempt may carry
    RunCodes,     \* failure classes a transition may carry
    Moves,        \* transitions without one: "stopped", "resumed"
    Budget,       \* run_token_budget, 0 when the run has none
    TraceLimit,   \* receipts a trace may hold (TRACE_SNAPSHOT_MAX_*)
    Tabs,         \* console tabs
    Keys,         \* idempotency keys of operator outcomes
    Editors,      \* reviewers of failure clusters
    MaxReceipts,  \* bound on what the rest of the daemon writes
    MaxSamples,   \* bound on token samples
    MaxRequests,  \* bound on requests each tab sends
    MaxEdits,     \* bound on cluster edits
    MaxFaults     \* bound on observations cut short

\* The rows of one run.
ASSUME RowsAssumption == IsFiniteSet(Attempts) /\ IsFiniteSet(Validations)

VARIABLES
    events,      \* lifecycle events: a failure class, a plain stop, or a move on
    samples,     \* number of token samples of the run
    class,       \* terminal_class of each attempt, and how often it was written
    validation,  \* result of each validation, and whether it was invalidated
    observer,    \* where the observer stands, and the inputs it has read
    outcomes,    \* authoritative outcome revisions
    asserted,    \* operator outcome revisions of one aggregate
    tab,         \* what each tab has read, and the request it has sent
    failures,    \* failure occurrences: the clusters each has belonged to, its labels
    clusters,    \* version of each cluster
    editor,      \* the overview each editor looks at
    edits,       \* cluster edits
    traces,      \* cursors of the captured traces
    mark,        \* cursor and error marker in the runtime metadata
    faults       \* observations cut short

receipts == <<events, samples, class, validation>>
projection == <<failures, clusters>>
vars == <<receipts, observer, outcomes, asserted, tab, projection, editor, edits,
          traces, mark, faults>>

None == "none"
Unmarked == <<0, -1>>
Resumed == "resumed"
Manual == <<"manual", "any">>
Empty == [k \in {} |-> {}]

Init ==
    /\ events = <<>>
    /\ samples = 0
    /\ class = [a \in Attempts |-> [code |-> None, writes |-> 0]]
    /\ validation = [v \in Validations |-> [result |-> None, valid |-> TRUE]]
    /\ observer = [pc |-> "idle", inputs |-> {}]
    /\ outcomes = {}
    /\ asserted = {}
    /\ tab = [t \in Tabs |-> [pc |-> "idle", seen |-> {}, sent |-> 0]]
    /\ failures = Empty
    /\ clusters = Empty
    /\ editor = [e \in Editors |-> [pc |-> "idle"]]
    /\ edits = {}
    /\ traces = {}
    /\ mark = [cursor |-> Unmarked, deferred |-> FALSE]
    /\ faults = 0

---------------------------------------------------------------------------
(* What the rest of the daemon writes.                                     *)

\* The bound on receipts: transitions, results, validations.
Written ==
    Len(events)
      + Cardinality({v \in Validations : validation[v].result # None})
      + Cardinality({v \in Validations : ~ validation[v].valid})
      + FoldFunction(LAMBDA c, n : c.writes + n, 0, class)

\* transition_run: every transition overwrites runs.failure_class.
transition_run ==
    /\ Written < MaxReceipts
    /\ \E c \in RunCodes \cup Moves : events' = Append(events, c)
    /\ UNCHANGED <<samples, class, validation, observer, outcomes, asserted, tab,
                   projection, editor, edits, traces, mark, faults>>

failure_class ==
    IF events # <<>> /\ Last(events) \in RunCodes THEN Last(events) ELSE None

\* set_attempt_result: the terminal class is overwritten without a condition.
set_attempt_result(a) ==
    /\ Written < MaxReceipts
    /\ \E c \in AttemptCodes :
         class' = [class EXCEPT ![a] = [code |-> c, writes |-> @.writes + 1]]
    /\ UNCHANGED <<events, samples, validation, observer, outcomes, asserted, tab,
                   projection, editor, edits, traces, mark, faults>>

record_usage ==
    /\ samples < MaxSamples
    /\ samples' = samples + 1
    /\ UNCHANGED <<events, class, validation, observer, outcomes, asserted, tab,
                   projection, editor, edits, traces, mark, faults>>

complete_validation(v) ==
    /\ \/ /\ validation[v].result = None
          /\ Written < MaxReceipts
          /\ \E r \in {"success", "source_failure"} :
               validation' = [validation EXCEPT ![v].result = r]
       \/ /\ validation[v].result # None
          /\ validation[v].valid
          /\ Written < MaxReceipts
          /\ validation' = [validation EXCEPT ![v].valid = FALSE]
    /\ UNCHANGED <<events, samples, class, observer, outcomes, asserted, tab,
                   projection, editor, edits, traces, mark, faults>>

---------------------------------------------------------------------------
(* Authoritative outcomes.                                                 *)

authoritative_result_label(result) ==
    IF result = "success" THEN "positive" ELSE "negative"

\* Completed validations that hold; evidence records and findings are read
\* and labelled in the same way.
ValidationInputs ==
    {[dimension |-> "validation", source |-> <<"validation", v>>,
      digest |-> 0, label |-> authoritative_result_label(validation[v].result)] :
        v \in {w \in Validations : validation[w].result # None /\ validation[w].valid}}

\* Events that completed, blocked or canceled the run.
Stopped == {i \in DOMAIN events : events[i] # Resumed}

CompletionInputs ==
    {[dimension |-> "completion", source |-> <<"event", i>>, digest |-> 0,
      label |-> "neutral"] : i \in Stopped}

ResourceLabel ==
    IF samples = 0 \/ Budget = 0 THEN "unknown"
    ELSE IF samples > Budget THEN "negative" ELSE "neutral"

\* The digest of a resource_use outcome covers the ledger as it is now.
ResourceInputs ==
    {[dimension |-> "resource", source |-> <<"event", i>>, digest |-> samples,
      label |-> ResourceLabel] : i \in Stopped}

\* project_authoritative_outcomes: all rows are read under one lock ...
project_authoritative_outcomes ==
    /\ observer.pc = "idle"
    /\ observer' = [pc |-> "recording",
                    inputs |-> ValidationInputs \cup CompletionInputs \cup ResourceInputs]
    /\ UNCHANGED <<receipts, outcomes, asserted, tab, projection, editor, edits,
                   traces, mark, faults>>

\* ... and appended, one transaction each; an input recorded before is a
\* replay.  Nothing reads the outcomes until the projection, so the loop is
\* one step unless the observation is cut short in it.
record_authoritative_outcome ==
    /\ observer.pc = "recording"
    /\ outcomes' = outcomes \cup observer.inputs
    /\ observer' = [pc |-> "projecting", inputs |-> {}]
    /\ UNCHANGED <<receipts, asserted, tab, projection, editor, edits, traces, mark,
                   faults>>

---------------------------------------------------------------------------
(* Operator outcomes.                                                      *)

IsHead(k) == ~ \E a \in asserted : k \in a.supersedes

outcome_vector == {a.key : a \in {b \in asserted : IsHead(b.key)}}

read_outcomes(t) ==
    /\ tab[t].pc = "idle"
    /\ tab[t].sent < MaxRequests
    /\ tab' = [tab EXCEPT ![t].pc = "reading", ![t].seen = outcome_vector]
    /\ UNCHANGED <<receipts, observer, outcomes, asserted, projection, editor, edits,
                   traces, mark, faults>>

\* Supersedes: every target must still be a head of this outcome.
validate_outcome_supersedes_known(supersedes) ==
    supersedes \subseteq {a.key : a \in asserted}

validate_outcome_supersedes(supersedes) ==
    supersedes \subseteq outcome_vector

Replay(k) == \E a \in asserted : a.key = k

\* record_operator_outcome: a replay returns the stored revision, a reused
\* key or a stale target is a conflict, anything else a new revision.  The
\* tab may lose the answer and send the same request again.
record_operator_outcome(t) ==
    /\ tab[t].pc = "reading"
    /\ tab[t].sent < MaxRequests
    /\ \E k \in Keys, c \in {"accepted", "regressed"}, s \in SUBSET tab[t].seen :
         asserted' = IF ~ Replay(k) /\ validate_outcome_supersedes(s)
                     THEN asserted \cup {[key |-> k, code |-> c, supersedes |-> s]}
                     ELSE asserted
    /\ \E pc \in {"idle", "reading"} :
         tab' = [tab EXCEPT ![t].pc = pc, ![t].sent = @ + 1]
    /\ UNCHANGED <<receipts, observer, outcomes, projection, editor, edits, traces,
                   mark, faults>>

---------------------------------------------------------------------------
(* Failures and their clusters.                                            *)

RunFailures ==
    {[kind |-> "run_terminal", source |-> <<"event", i>>, code |-> failure_class] :
        i \in {j \in Stopped : events[j] = failure_class}}

AttemptFailures ==
    {[kind |-> "attempt_terminal", source |-> <<"attempt", a>>, code |-> class[a].code] :
        a \in {b \in Attempts : class[b].code # None}}

OutcomeFailures ==
    {[kind |-> "typed_outcome", source |-> <<"outcome", o>>, code |-> None] :
        o \in {p \in outcomes : p.label \in {"negative", "unknown"}}}

SameSource(f, g) == f.kind = g.kind /\ f.source = g.source

\* A source projected before with other semantics ends the whole projection.
Collides(found) ==
    \E f \in found, g \in DOMAIN failures : SameSource(f, g) /\ f # g

Fingerprint(f) == <<f.kind, f.code>>

Members(c) == {f \in DOMAIN failures : Last(failures[f].lineage) = c}

\* Every member that arrives bumps the version of its cluster.
bump_unprojected(versions, c, n) == versions[c]

bump_failure_cluster(versions, c, n) == versions[c] + n

Versions(targets) ==
    [c \in DOMAIN clusters \cup targets |-> IF c \in DOMAIN clusters THEN clusters[c] ELSE 0]

\* projection_error_marker: any other error takes the place of the marker that
\* defers a trace over its limit, and the next observation reads it again.
projection_failed == [mark EXCEPT !.deferred = FALSE]

project_failures_for_run ==
    LET found == RunFailures \cup AttemptFailures \cup OutcomeFailures
        new   == found \ DOMAIN failures
        into(c) == Cardinality({f \in new : Fingerprint(f) = c})
        versions == Versions({Fingerprint(f) : f \in new})
    IN  /\ observer.pc = "projecting"
        /\ \/ /\ Collides(found)
              /\ observer' = [observer EXCEPT !.pc = "idle"]
              /\ mark' = projection_failed
              /\ UNCHANGED projection
           \/ /\ ~ Collides(found)
              /\ failures' = [f \in DOMAIN failures \cup new |->
                                IF f \in new
                                THEN [lineage |-> <<Fingerprint(f)>>, labels |-> <<>>]
                                ELSE failures[f]]
              /\ clusters' = [c \in DOMAIN versions |-> bump_failure_cluster(versions, c, into(c))]
              /\ observer' = [observer EXCEPT !.pc = IF mark.deferred THEN "idle" ELSE "tracing"]
              /\ UNCHANGED mark
        /\ UNCHANGED <<receipts, outcomes, asserted, tab, editor, edits, traces, faults>>

\* The bound on edits of clusters and of labels.
Edited == Cardinality(edits) + FoldFunction(LAMBDA f, n : Len(f.labels) + n, 0, failures)

\* create_failure_cluster: a reviewer makes a cluster to move failures to.
create_failure_cluster ==
    /\ Manual \notin DOMAIN clusters
    /\ DOMAIN failures # {}
    /\ Edited < MaxEdits
    /\ clusters' = Versions({Manual})
    /\ UNCHANGED <<receipts, observer, outcomes, asserted, tab, failures, editor,
                   edits, traces, mark, faults>>

\* failure_cluster_overview: what a reviewer looks at before an edit.
failure_cluster_overview(e) ==
    /\ editor[e].pc = "idle"
    /\ Edited < MaxEdits
    /\ DOMAIN failures # {}
    /\ editor' = [editor EXCEPT ![e] =
                    [pc |-> "editing", versions |-> clusters,
                     members |-> [c \in DOMAIN clusters |-> Members(c)],
                     labels |-> [f \in DOMAIN failures |-> Len(failures[f].labels)]]]
    /\ UNCHANGED <<receipts, observer, outcomes, asserted, tab, projection, edits,
                   traces, mark, faults>>

require_failure_cluster_version(e, c) ==
    c \in DOMAIN editor[e].versions /\ editor[e].versions[c] = clusters[c]

\* The edit an editor has made; its identity has no version in it.
Edit(e, action, source, target, seen, found) ==
    [actor |-> e, action |-> action, source |-> source, target |-> target,
     seen |-> seen, found |-> found]

SameEdit(x, y) ==
    x.actor = y.actor /\ x.action = y.action /\ x.source = y.source /\ x.target = y.target

append_failure_cluster_edit(edit) ==
    /\ ~ \E other \in edits : SameEdit(edit, other)
    /\ edits' = edits \cup {edit}

Move(moved, target) ==
    failures' = [f \in DOMAIN failures |->
                   IF f \in moved THEN [failures[f] EXCEPT !.lineage = Append(@, target)]
                   ELSE failures[f]]

Editing(e, s, t) ==
    /\ editor[e].pc = "editing"
    /\ Edited < MaxEdits
    /\ s # t
    /\ require_failure_cluster_version(e, s)
    /\ require_failure_cluster_version(e, t)
    /\ clusters' = [clusters EXCEPT ![s] = @ + 1, ![t] = @ + 1]
    /\ editor' = [editor EXCEPT ![e] = [pc |-> "idle"]]
    /\ UNCHANGED <<receipts, observer, outcomes, asserted, tab, traces, mark, faults>>

\* merge_failure_clusters moves whatever the source holds when it commits.
merge_failure_clusters(e, s, t) ==
    /\ Editing(e, s, t)
    /\ Members(s) # {}
    /\ Move(Members(s), t)
    /\ append_failure_cluster_edit(Edit(e, "merged", s, t, editor[e].members[s], Members(s)))

\* split_failure_cluster moves named members, all of them still in the source.
split_failure_cluster(e, s, t) ==
    /\ Editing(e, s, t)
    /\ \E moved \in SUBSET editor[e].members[s] \ {{}} :
         /\ moved \subseteq Members(s)
         /\ Move(moved, t)
    /\ append_failure_cluster_edit(Edit(e, "split", s, t, editor[e].members[s], Members(s)))

\* reclassify_failure appends a label to the history the reviewer counted.
reclassify_uncounted(e, f) == TRUE

CountedLabels(e, f) == Len(failures[f].labels) = editor[e].labels[f]

reclassify_failure(e) ==
    /\ editor[e].pc = "editing"
    /\ \E f \in DOMAIN editor[e].labels :
         /\ Edited < MaxEdits
         /\ CountedLabels(e, f)
         /\ failures' = [failures EXCEPT ![f].labels = Append(@, editor[e].labels[f])]
    /\ editor' = [editor EXCEPT ![e] = [pc |-> "idle"]]
    /\ UNCHANGED <<receipts, observer, outcomes, asserted, tab, clusters, edits, traces,
                   mark, faults>>

\* An edit refused by a stale version, or given up.
abandon_edit(e) ==
    /\ editor[e].pc = "editing"
    /\ editor' = [editor EXCEPT ![e] = [pc |-> "idle"]]
    /\ UNCHANGED <<receipts, observer, outcomes, asserted, tab, projection, edits,
                   traces, mark, faults>>

---------------------------------------------------------------------------
(* Traces.                                                                 *)

Cursor == <<Len(events), samples>>

\* trace_projection_watermark: nothing new means nothing to do.
trace_projection_watermark ==
    /\ observer.pc = "tracing"
    /\ observer' = [observer EXCEPT !.pc = IF mark.cursor = Cursor THEN "idle" ELSE "capturing"]
    /\ UNCHANGED <<receipts, outcomes, asserted, tab, projection, editor, edits,
                   traces, mark, faults>>

\* trace_projection_snapshot is read again, is bounded, and is appended; the
\* cursor is marked in a step of its own.
trace_projection_snapshot ==
    /\ observer.pc = "capturing"
    /\ IF samples > TraceLimit
       THEN /\ mark' = [mark EXCEPT !.deferred = TRUE]
            /\ observer' = [observer EXCEPT !.pc = "idle"]
            /\ UNCHANGED traces
       ELSE /\ traces' = traces \cup {Cursor}
            /\ observer' = [pc |-> "marking", inputs |-> {}, cursor |-> Cursor]
            /\ UNCHANGED mark
    /\ UNCHANGED <<receipts, outcomes, asserted, tab, projection, editor, edits, faults>>

\* The observer remembers the cursor of what it captured, not the newest one.
mark_now == [mark EXCEPT !.cursor = Cursor]

mark_captured == [mark EXCEPT !.cursor = observer.cursor]

mark_trace ==
    /\ observer.pc = "marking"
    /\ mark' = mark_captured
    /\ observer' = [pc |-> "idle", inputs |-> {}]
    /\ UNCHANGED <<receipts, outcomes, asserted, tab, projection, editor, edits,
                   traces, faults>>

\* An error, which leaves its marker if that can be written, or the end of the
\* daemon cuts an observation short; some of the outcomes may have been appended.
interrupt_observation ==
    /\ observer.pc # "idle"
    /\ faults < MaxFaults
    /\ faults' = faults + 1
    /\ \E done \in SUBSET observer.inputs : outcomes' = outcomes \cup done
    /\ observer' = [pc |-> "idle", inputs |-> {}]
    /\ mark' \in {mark, projection_failed}
    /\ UNCHANGED <<receipts, asserted, tab, projection, editor, edits, traces>>

\* The observer and the reviewers of its clusters.
ObserverNext ==
    \/ transition_run \/ record_usage
    \/ \E a \in Attempts : set_attempt_result(a)
    \/ \E v \in Validations : complete_validation(v)
    \/ project_authoritative_outcomes \/ record_authoritative_outcome
    \/ project_failures_for_run \/ create_failure_cluster
    \/ \E e \in Editors :
         \/ failure_cluster_overview(e) \/ reclassify_failure(e) \/ abandon_edit(e)
         \/ \E s, t \in DOMAIN clusters :
              merge_failure_clusters(e, s, t) \/ split_failure_cluster(e, s, t)
    \/ trace_projection_watermark \/ trace_projection_snapshot \/ mark_trace
    \/ interrupt_observation

\* The tabs share no state with the observer: the dimensions an operator may
\* assert are not the ones it projects.
TabNext == \E t \in Tabs : read_outcomes(t) \/ record_operator_outcome(t)

Next == ObserverNext \/ TabNext

Spec == Init /\ [][Next]_vars

---------------------------------------------------------------------------

\* Two tabs that correct the same assertion do not both succeed: a revision is
\* superseded by at most one other, and a key stands for one revision.
OneSuccessor ==
    \A a, b \in asserted :
        a # b => /\ a.key # b.key
                 /\ a.supersedes \cap b.supersedes = {}

\* A cluster edit is applied to exactly the members its reviewer saw, and a
\* label to the history its reviewer saw: a failure the observer projects, or
\* an edit another reviewer makes, in between makes the edit stale.
EditsFitOverview ==
    /\ \A x \in edits : x.seen = x.found
    /\ \A f \in DOMAIN failures :
         \A n \in DOMAIN failures[f].labels : failures[f].labels[n] = n - 1

\* The observer skips a run only at a cursor whose trace it has captured.
MarkedIsCaptured == mark.cursor # Unmarked => mark.cursor \in traces

OutcomeCustody ==
    /\ OneSuccessor
    /\ EditsFitOverview
    /\ MarkedIsCaptured

\* "Keep the immutable occurrence independent of that live ledger": one
\* receipt gives one failure occurrence, however the token ledger grows.
OccurrencesIndependentOfLedger ==
    \A f, g \in DOMAIN failures :
        /\ f.kind = "typed_outcome"
        /\ g.kind = "typed_outcome"
        /\ f.source[2].dimension = g.source[2].dimension
        /\ f.source[2].source = g.source[2].source
        => f = g

\* A projection never meets a source it has already projected otherwise.
ProjectionNeverCollides ==
    observer.pc = "projecting" => ~ Collides(RunFailures \cup AttemptFailures \cup OutcomeFailures)
=============================================================================
