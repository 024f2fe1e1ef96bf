------------------------- MODULE ExternalConditions -------------------------
(***************************************************************************)
(* Time gates and local-capacity gates of one run.  Every scheduler tick   *)
(* scans the run's unresolved gates page by page, newest first, and        *)
(* records one observation per gate that is due, together with its         *)
(* material event, in one transaction.  Maintenance and an operator's tick *)
(* scan concurrently, each with the time it read when its scan began.      *)
(***************************************************************************)
EXTENDS Naturals, FiniteSets

CONSTANTS
    TimeGates,      \* naturals: ids of the run's time gates
    CapacityGates,  \* naturals: ids of its capacity gates
    NotBefore,      \* lower bound of every time gate
    Deadline,       \* deadline_ms of every gate
    Scanners,       \* callers of tick
    PageSize,       \* EXTERNAL_CONDITION_SCAN_LIMIT
    MaxTime,        \* bound on the clock
    MaxScans,       \* bound on scans
    MaxFaults       \* bound on crashes and identity changes

VARIABLES
    now,       \* controller clock
    identity,  \* run revision and repository root the capacity source is derived from
    cond,      \* the conditions: state, sequence, timestamps, identity at registration
    events,    \* material domain events: gate, kind, sequence
    scan,      \* reconciliation scans in progress
    scans, faults

conditionVars == <<now, identity, cond, events, scan, scans, faults>>

Gates == TimeGates \cup CapacityGates
Adapters == [time_gate |-> TimeGates, hardware_capacity |-> CapacityGates]
Unregistered == [state |-> "none", sequence |-> 0, opened |-> 0, updated |-> 0,
                 identity |-> 0, latched |-> FALSE]
Idle == [pc |-> "idle", adapter |-> "time_gate", now |-> 0, identity |-> 0, before |-> {},
         page |-> {}, due |-> {}]
is_terminal(s) == s \in {"satisfied", "unsatisfied"}
Unresolved(c) == cond[c].state \in {"open", "unknown"}

(* register_run_time_gate, register_run_local_capacity_gate: the gate as   *)
(* registered, with a checked lower bound and deadline and the identity of *)
(* its source.                                                             *)
Registered == [Unregistered EXCEPT !.state = "open", !.opened = now, !.updated = now,
                                   !.identity = identity]

(* register_or_read: a repeated registration reads the gate back.          *)
register_or_read(c) ==
    /\ cond[c].state = "none"
    /\ cond' = [cond EXCEPT ![c] = Registered]
    /\ UNCHANGED <<now, identity, events, scan, scans, faults>>

-----------------------------------------------------------------------------
(* Evaluation of one gate read into a page.                                *)
Outcome(s, ev) == [state |-> s, event |-> ev, latched |-> FALSE]

(* Registration, the only writer of a specification, refuses a bound that  *)
(* InvalidSpec would report, so that outcome is left out.                  *)
time_gate_outcome(g, t) ==
    IF g.state # "open" \/ (t < NotBefore /\ t < Deadline) THEN {}
    ELSE IF t >= Deadline THEN {Outcome("unsatisfied", "deadline_elapsed")}
    ELSE {Outcome("satisfied", "satisfied")}

condition_poll_interval(g) == IF g.sequence <= 1 THEN 1 ELSE 2
poll_due(g, t) ==
    t >= Deadline \/ g.sequence = 0 \/ t >= g.updated + condition_poll_interval(g)
local_capacity_outcome(g, t, current) ==
    IF g.latched \/ (g.identity = current /\ ~poll_due(g, t)) THEN {}
    ELSE IF g.identity # current
         THEN {[Outcome("unknown", "continuity_break") EXCEPT !.latched = TRUE]}
    ELSE IF t >= Deadline THEN {Outcome("unsatisfied", "deadline_elapsed")}
    ELSE {Outcome("open", ""), Outcome("satisfied", "satisfied"),
          Outcome("unknown", "source_unavailable")}

Outcomes(c, g, s) ==
    IF c \in TimeGates THEN time_gate_outcome(g, s.now)
    ELSE local_capacity_outcome(g, s.now, s.identity)

-----------------------------------------------------------------------------
(* One scan of one adapter: pages below the last row of the previous page. *)
(* A tick scans the time gates, then the capacity gates.                   *)
begin_scan(p, a) ==
    /\ scan[p].pc = "idle" /\ scans < MaxScans /\ scans' = scans + 1
    /\ scan' = [scan EXCEPT ![p] = [Idle EXCEPT
          !.pc = "list", !.adapter = a, !.now = now, !.identity = identity,
          !.due = {<<c, cond[c].sequence>> : c \in
                     {c \in Adapters[a] : Unresolved(c) /\ Outcomes(c, cond[c],
                                             [now |-> now, identity |-> identity]) # {}}}]]
    /\ UNCHANGED <<now, identity, cond, events, faults>>

Newer(x, y) == x[1] > y[1] \/ (x[1] = y[1] /\ x[2] > y[2])
Key(c) == <<cond[c].updated, c>>
FirstOf(S) == {c \in S : Cardinality({d \in S : Newer(Key(d), Key(c))}) < PageSize}
list_before_the_predicate(p) ==
    {c \in FirstOf({d \in Gates : Unresolved(d) /\ \A k \in scan[p].before : Newer(k, Key(d))}) :
        c \in Adapters[scan[p].adapter]}
list_nonterminal_for_owner_adapter_before(p) ==
    FirstOf({c \in Adapters[scan[p].adapter] :
               Unresolved(c) /\ \A k \in scan[p].before : Newer(k, Key(c))})

list_page(p) ==
    /\ scan[p].pc = "list"
    /\ LET page == list_nonterminal_for_owner_adapter_before(p)
           last == {c \in page : \A d \in page : d = c \/ Newer(Key(d), Key(c))} IN
       scan' = [scan EXCEPT ![p] =
          IF page = {} THEN [@ EXCEPT !.pc = "end"]
          ELSE [@ EXCEPT !.pc = "item", !.before = {Key(c) : c \in last},
                         !.page = {<<c, cond[c]>> : c \in page}]]
    /\ UNCHANGED <<now, identity, cond, events, scans, faults>>

(* record_external_condition_observation(_and_emit): the observation of a  *)
(* source event exists once, and the condition advances from the version   *)
(* the scan read.                                                          *)
NeverStale(c, g) == TRUE
VersionMatches(c, g) == cond[c].sequence = g.sequence
Recorded(c, g, s, out) ==
    [g EXCEPT !.state = out.state, !.sequence = @ + 1, !.updated = s.now, !.latched = out.latched]
record_observation(c, g, s, out) ==
    IF VersionMatches(c, g) /\ ~is_terminal(cond[c].state) /\ s.now >= g.opened
    THEN /\ cond' = [cond EXCEPT ![c] = Recorded(c, g, s, out)]
         /\ events' = IF out.event = "" THEN events
                      ELSE events \cup {<<c, out.event, g.sequence + 1, s.now>>}
    ELSE UNCHANGED <<cond, events>>

reconcile_item(p) ==
    /\ scan[p].pc = "item"
    /\ \E item \in scan[p].page :
         LET rest == scan[p].page \ {item}
             outs == Outcomes(item[1], item[2], scan[p]) IN
         /\ scan' = [scan EXCEPT ![p] = [@ EXCEPT !.page = rest,
                                                  !.pc = IF rest = {} THEN "list" ELSE "item"]]
         /\ \/ outs = {} /\ UNCHANGED <<cond, events>>
            \/ \E out \in outs : record_observation(item[1], item[2], scan[p], out)
    /\ UNCHANGED <<now, identity, scans, faults>>

end_scan(p) ==
    /\ scan[p].pc = "end"
    /\ scan' = [scan EXCEPT ![p] = Idle] /\ UNCHANGED <<now, identity, cond, events, scans, faults>>

Tick == now < MaxTime /\ now' = now + 1 /\ UNCHANGED <<identity, cond, events, scan, scans, faults>>
IdentityChanges ==
    /\ faults < MaxFaults /\ faults' = faults + 1 /\ identity' = identity + 1
    /\ UNCHANGED <<now, cond, events, scan, scans>>
Crash ==
    /\ faults < MaxFaults /\ faults' = faults + 1 /\ scan' = [p \in Scanners |-> Idle]
    /\ UNCHANGED <<now, identity, cond, events, scans>>

Init ==
    /\ now = 1 /\ identity = 0 /\ scans = 0 /\ faults = 0 /\ events = {}
    /\ cond = [c \in Gates |-> Unregistered] /\ scan = [p \in Scanners |-> Idle]

Next ==
    \/ \E c \in Gates : register_or_read(c)
    \/ \E p \in Scanners : \/ \E a \in DOMAIN Adapters : begin_scan(p, a)
                           \/ list_page(p) \/ reconcile_item(p) \/ end_scan(p)
    \/ Tick \/ IdentityChanges \/ Crash
Spec == Init /\ [][Next]_conditionVars

-----------------------------------------------------------------------------
(* A scan leaves no gate behind that was due when it began, whatever a     *)
(* concurrent scan did to the rows its pages are cut from: someone has     *)
(* observed it since.                                                      *)
ScanExhaustive ==
    \A p \in Scanners : scan[p].pc = "end" =>
        \A x \in scan[p].due : cond[x[1]].sequence > x[2]

(* A gate is decided once: it is terminal exactly when one terminal event  *)
(* tells the supervisor so, that event names the gate's last observation,  *)
(* and a satisfied time gate was observed inside its window.  No           *)
(* observation number is used twice, and a recorded continuity break is    *)
(* never read over.                                                        *)
GateDecidedOnce ==
    \A c \in Gates :
        LET final == {x \in events : x[1] = c /\ x[2] \in {"satisfied", "deadline_elapsed"}} IN
        /\ is_terminal(cond[c].state) <=> final # {}
        /\ \A x \in final : /\ x[3] = cond[c].sequence /\ Cardinality(final) = 1
                            /\ c \in TimeGates /\ x[2] = "satisfied"
                                  => x[4] >= NotBefore /\ x[4] < Deadline
        /\ \A x, y \in events : x[1] = c /\ y[1] = c /\ x[3] = y[3] => x = y
        /\ <<c, "continuity_break">> \in {<<x[1], x[2]>> : x \in events} => cond[c].latched
ConditionCustody == ScanExhaustive /\ GateDecidedOnce
=============================================================================
