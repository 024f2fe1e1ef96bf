---------------------------- MODULE OperatorView ----------------------------
(***************************************************************************)
(* What the operator is shown: attention items mirrored from approvals,    *)
(* their revisions mirrored into notification claims, the material-        *)
(* progress classifier, the snapshot of the control plane that is reused   *)
(* while its source cursors stand still, the return view with its          *)
(* acknowledged cursor, and shadow batches.  Each request runs these steps *)
(* in transactions of their own, beside the controller, the requests of    *)
(* other tabs of the same session and the purge of a run.                  *)
(***************************************************************************)
EXTENDS Naturals, Sequences, FiniteSets, FiniteSetsExt

CONSTANTS
    Approvals,        \* naturals, most severe and oldest first
    Own,              \* those of the run that may be purged
    Sources,          \* record tables with a section of their own
    Amended,          \* those whose rows change without a new row
    Tabs,             \* browser tabs of one authenticated session
    PageSize,         \* MAX_NOTIFICATION_PAGE_SIZE
    ClassifierLimit,  \* MAX_CLASSIFIER_EVENTS_PER_PASS
    MaxVersion,       \* bound on versions of approvals
    MaxChanges,       \* bound on changes by the rest of the controller
    MaxRequests       \* bound on requests

VARIABLES
    approval,   \* approvals: state and version
    item,       \* the newest attention item of each approval
    attention,  \* highest attention_events.id of the run and of the rest
    events,     \* ids of domain_events, and the last id given out
    records,    \* rows and revision of each source table
    classified, \* cursor of the material-progress classifier
    presence,   \* version of the operator's presence, 0 when not configured
    deliveries, \* notification claims: attention revisions
    presented,  \* claims with a presentation receipt
    snapshots,  \* control_plane_snapshots by revision
    batches,    \* notification_shadow_batches
    cursor,     \* acknowledged cursor of the return view
    tab,        \* requests in progress
    view,       \* return view each tab shows
    purge,      \* the run was purged, and how many snapshots there were
    changes, requests

controllerVars == <<approval, item, attention, events, records, presence, purge, changes>>
requestVars == <<tab, view, requests>>
rowVars == <<classified, deliveries, presented, snapshots, batches, cursor>>
viewVars == <<controllerVars, requestVars, rowVars>>

\* No code writes waiting_external to an attention item.
Current == {i \in Approvals : item[i].state \in {"open", "acknowledged", "waiting_external"}}
Revision(i) == <<i, item[i].id, item[i].version>>
Revisions == {Revision(i) : i \in Current}
NoItem == [id |-> 0, state |-> "none", version |-> 0, source |-> 0]
Idle == [pc |-> "idle", kind |-> "view", list |-> {}, start |-> {}, page |-> {},
         revision |-> 0, presence |-> 0]
NoView == [revision |-> 0, cursor |-> 0, from |-> 0]
max_id(S) == Max(S \cup {0})
EventCursor == max_id(events.own \cup events.rest)
AttentionCursor == max_id({attention.own, attention.rest})
Rows(s) == records[s].own + records[s].rest

-----------------------------------------------------------------------------
(* The rest of the controller and the operator change what is shown.       *)
Changed == changes < MaxChanges /\ changes' = changes + 1
Alive(own) == own => ~purge.done

\* A decision that could not be delivered makes an approval pending again.
ApprovalChanges(i) ==
    /\ Changed /\ Alive(i \in Own) /\ approval[i].version < MaxVersion
    /\ approval' = [approval EXCEPT ![i] =
          [state |-> IF @.state = "pending" THEN "decided" ELSE "pending",
           version |-> @.version + 1]]
    /\ UNCHANGED <<item, attention, events, records, presence, purge, requestVars, rowVars>>

(* attention_events.id is not AUTOINCREMENT: the next id is the highest    *)
(* there is plus one.                                                      *)
insert_attention_event(i) ==
    attention' = [attention EXCEPT ![IF i \in Own THEN "own" ELSE "rest"] = AttentionCursor + 1]

acknowledge_attention(i) ==
    /\ Changed /\ item[i].state = "open"
    /\ item' = [item EXCEPT ![i].state = "acknowledged", ![i].version = @ + 1]
    /\ insert_attention_event(i)
    /\ UNCHANGED <<approval, events, records, presence, purge, requestVars, rowVars>>

\* domain_events.id is AUTOINCREMENT: an id is never given out again.
emit_domain_event(own) ==
    /\ Changed /\ Alive(own)
    /\ events' = [events EXCEPT !.ever = @ + 1,
                    ![IF own THEN "own" ELSE "rest"] = @ \cup {events.ever + 1}]
    /\ UNCHANGED <<approval, item, attention, records, presence, purge, requestVars, rowVars>>

Record(s, own) ==
    LET side == IF own THEN "own" ELSE "rest" IN
    /\ Changed /\ Alive(own)
    /\ \/ records' = [records EXCEPT ![s][side] = @ + 1, ![s].revision = @ + 1]
       \/ /\ s \in Amended /\ records[s][side] > 0
          /\ records' = [records EXCEPT ![s].revision = @ + 1]
    /\ UNCHANGED <<approval, item, attention, events, presence, purge, requestVars, rowVars>>

set_operator_presence ==
    /\ Changed /\ presence' = presence + 1
    /\ UNCHANGED <<approval, item, attention, events, records, purge, requestVars, rowVars>>

(* Store::delete_run.  The statement for presentation receipts names a     *)
(* column its inner table does not have, so it takes the outer one's: if   *)
(* the run has a claim, the receipts of every run go.                      *)
delete_run ==
    LET claims == {d \in deliveries : d[1] \in Own} IN
    /\ Changed /\ ~purge.done
    /\ approval' = [i \in Approvals |-> IF i \in Own THEN [state |-> "none", version |-> 0]
                                        ELSE approval[i]]
    /\ item' = [i \in Approvals |-> IF i \in Own THEN [NoItem EXCEPT !.id = item[i].id] ELSE item[i]]
    /\ attention' = [attention EXCEPT !.own = 0]
    /\ events' = [events EXCEPT !.own = {}]
    /\ records' = [s \in Sources |-> [records[s] EXCEPT !.own = 0,
                     !.revision = IF records[s].own > 0 THEN @ + 1 ELSE @]]
    /\ deliveries' = deliveries \ claims
    /\ presented' = IF claims # {} THEN {} ELSE presented
    /\ purge' = [done |-> TRUE, snapshots |-> Len(snapshots)]
    /\ UNCHANGED <<presence, classified, snapshots, batches, cursor, requestVars>>

-----------------------------------------------------------------------------
(* A request for a view or a shadow batch refreshes the projections first. *)
Step(t, r) == tab' = [tab EXCEPT ![t] = r]
Elsewhere == UNCHANGED controllerVars

request(t, kind) ==
    /\ tab[t].pc = "idle" /\ requests < MaxRequests /\ requests' = requests + 1
    /\ Step(t, [Idle EXCEPT !.pc = "classify", !.kind = kind, !.presence = presence])
    /\ UNCHANGED <<rowVars, view>> /\ Elsewhere

FirstOf(S, n) == {i \in S : Cardinality({j \in S : j < i}) < n}
classify_material_progress(t) ==
    LET new == {e \in events.own \cup events.rest : e > classified} IN
    /\ tab[t].pc = "classify" /\ Step(t, [tab[t] EXCEPT !.pc = "approvals"])
    /\ classified' = Max({classified} \cup FirstOf(new, ClassifierLimit))
    /\ UNCHANGED <<deliveries, presented, snapshots, batches, cursor, view, requests>> /\ Elsewhere

list_approvals(t) ==
    LET listed == {i \in Approvals : approval[i].state # "none"} IN
    /\ tab[t].pc = "approvals"
    /\ Step(t, [tab[t] EXCEPT !.pc = "adapt", !.list = {<<i, approval[i]>> : i \in listed}])
    /\ UNCHANGED <<rowVars, view, requests>> /\ Elsewhere

\* Opens an item of its own for this revision of the approval.
upsert_source_attention(i, version) ==
    /\ item' = [item EXCEPT ![i] =
          [id |-> @.id + 1, state |-> "open", version |-> 1, source |-> version]]
    /\ insert_attention_event(i)

resolve_attention_from_source(i) ==
    /\ item' = [item EXCEPT ![i].state = "resolved", ![i].version = @ + 1]
    /\ insert_attention_event(i)

(* One approval of the list: opens an item for a pending one that has none *)
(* of this revision, closes the item of any other.  A conflict with what   *)
(* another request did meanwhile ends the request (RequestLost).           *)
refresh_approval_attention(t) ==
    \E a \in tab[t].list :
        LET i == a[1]
            active == i \in Current
            opens == /\ a[2].state = "pending" /\ ~active
                     /\ item[i].state = "none" \/ item[i].source < a[2].version
            closes == a[2].state # "pending" /\ active
        IN /\ tab[t].pc = "adapt" /\ \A b \in tab[t].list : i <= b[1]
           /\ Step(t, [tab[t] EXCEPT !.list = @ \ {a}])
           /\ \/ opens /\ upsert_source_attention(i, a[2].version)
              \/ closes /\ resolve_attention_from_source(i)
              \/ ~opens /\ ~closes /\ UNCHANGED <<item, attention>>
           /\ UNCHANGED <<approval, events, records, presence, purge, changes, rowVars, view,
                          requests>>

Unclaimed == {i \in Current : Revision(i) \notin deliveries}
newest_notification_attention == FirstOf(Current, PageSize)
pending_notification_attention == FirstOf(Unclaimed, PageSize)

read_pending_attention(t) ==
    /\ tab[t].pc = "adapt" /\ tab[t].list = {}
    /\ Step(t, [tab[t] EXCEPT !.pc = "mirror",
                  !.start = {Revision(i) : i \in Unclaimed},
                  !.page = {Revision(i) : i \in pending_notification_attention}])
    /\ UNCHANGED <<classified, deliveries, presented, snapshots, batches, cursor, view, requests>>
    /\ Elsewhere

(* A claim refers to its item: once the item is purged the claim, and with *)
(* it the request, fails.                                                  *)
record_notification_delivery(t) ==
    LET d == CHOOSE d \in tab[t].page : \A x \in tab[t].page : d[1] <= x[1]
        exists == item[d[1]].state # "none" /\ item[d[1]].id = d[2]
    IN /\ tab[t].pc = "mirror" /\ tab[t].page # {}
       /\ deliveries' = IF exists THEN deliveries \cup {d} ELSE deliveries
       /\ Step(t, IF exists THEN [tab[t] EXCEPT !.page = @ \ {d}] ELSE Idle)
       /\ UNCHANGED <<classified, presented, snapshots, batches, cursor, view, requests>>
       /\ Elsewhere

(* compile_control_plane_snapshot, in one immediate transaction.           *)
source_cursors_of_domain_events ==
    <<EventCursor, 0, [s \in Sources |-> Rows(s)], classified, Cardinality(deliveries), presence>>
source_cursors ==
    <<EventCursor, AttentionCursor, [s \in Sources |-> Rows(s)], classified,
      Cardinality(deliveries), presence>>
SectionRows == [s \in Sources |-> records[s].revision]
Compiled ==
    [cursors |-> source_cursors, events |-> EventCursor, attention |-> Revisions,
     records |-> SectionRows, notifications |-> deliveries,
     progress |-> IF classified < EventCursor THEN "stale" ELSE "current"]
Reusable == {k \in 1..Len(snapshots) : snapshots[k].cursors = source_cursors}

compile_control_plane_snapshot(t) ==
    /\ tab[t].pc = "mirror" /\ tab[t].page = {}
    /\ LET next == IF tab[t].kind = "view" THEN "view" ELSE "presence" IN
       IF Reusable # {}
       THEN /\ Step(t, [tab[t] EXCEPT !.pc = next, !.revision = Min(Reusable)])
            /\ UNCHANGED snapshots
       ELSE /\ snapshots' = Append(snapshots, Compiled)
            /\ Step(t, [tab[t] EXCEPT !.pc = next, !.revision = Len(snapshots) + 1])
    /\ UNCHANGED <<classified, deliveries, presented, batches, cursor, view, requests>> /\ Elsewhere

-----------------------------------------------------------------------------
(* control_plane_return_view: the cursor is read after the snapshot, and a *)
(* cursor past the snapshot, because another tab moved it or the purge     *)
(* took the newest events, fails the request.                              *)
control_plane_return_view(t) ==
    LET seen == snapshots[tab[t].revision].events IN
    /\ tab[t].pc = "view" /\ Step(t, Idle)
    /\ view' = IF cursor > seen THEN view
               ELSE [view EXCEPT ![t] = [revision |-> tab[t].revision, cursor |-> seen, from |-> cursor]]
    /\ UNCHANGED <<classified, deliveries, presented, snapshots, batches, cursor, requests>> /\ Elsewhere

ViewIsLatest(t) == view[t].revision > 0 /\ view[t].revision = Len(snapshots)
advance_return_view_cursor(t) ==
    /\ ViewIsLatest(t) /\ view[t].cursor >= cursor
    /\ cursor' = view[t].cursor
    /\ UNCHANGED <<classified, deliveries, presented, snapshots, batches, tab, view, requests>>
    /\ Elsewhere

record_notification_presentation(d) ==
    /\ d \notin presented /\ presented' = presented \cup {d}
    /\ UNCHANGED <<classified, deliveries, snapshots, batches, cursor, tab, view, requests>>
    /\ Elsewhere

(* create_notification_shadow_batch: the version is checked against the    *)
(* one the browser named and again in the recording transaction.           *)
check_presence(t) ==
    /\ tab[t].pc = "presence"
    /\ Step(t, IF presence > 0 /\ presence = tab[t].presence THEN [tab[t] EXCEPT !.pc = "batch"] ELSE Idle)
    /\ UNCHANGED <<classified, deliveries, presented, snapshots, batches, cursor, view, requests>>
    /\ Elsewhere

BatchAdmittedByVersion(t) == TRUE
BatchAdmitted(t) ==
    /\ presence = tab[t].presence
    /\ snapshots[tab[t].revision].attention \subseteq deliveries
record_notification_shadow_batch(t) ==
    /\ tab[t].pc = "batch" /\ Step(t, Idle)
    /\ batches' = IF BatchAdmitted(t)
                  THEN batches \cup {[revision |-> tab[t].revision, presence |-> tab[t].presence,
                                      claimed |-> deliveries, version |-> presence]}
                  ELSE batches
    /\ UNCHANGED <<classified, deliveries, presented, snapshots, cursor, view, requests>> /\ Elsewhere

(* The daemon dies, or the browser drops the request.                      *)
RequestLost(t) ==
    /\ tab[t].pc # "idle" /\ Step(t, Idle)
    /\ UNCHANGED <<classified, deliveries, presented, snapshots, batches, cursor, view, requests>>
    /\ Elsewhere

Init ==
    /\ approval = [i \in Approvals |-> [state |-> "none", version |-> 0]]
    /\ item = [i \in Approvals |-> NoItem] /\ attention = [own |-> 0, rest |-> 0]
    /\ events = [ever |-> 0, own |-> {}, rest |-> {}]
    /\ classified = 0 /\ presence = 0 /\ cursor = 0
    /\ records = [s \in Sources |-> [own |-> 0, rest |-> 0, revision |-> 0]]
    /\ deliveries = {} /\ presented = {} /\ snapshots = <<>> /\ batches = {}
    /\ tab = [t \in Tabs |-> Idle] /\ view = [t \in Tabs |-> NoView]
    /\ purge = [done |-> FALSE, snapshots |-> 0] /\ changes = 0 /\ requests = 0

Next ==
    \/ \E i \in Approvals : ApprovalChanges(i) \/ acknowledge_attention(i)
    \/ \E own \in BOOLEAN : emit_domain_event(own) \/ \E s \in Sources : Record(s, own)
    \/ set_operator_presence \/ delete_run
    \/ \E t \in Tabs :
         \/ \E kind \in {"view", "batch"} : request(t, kind)
         \/ classify_material_progress(t) \/ list_approvals(t)
         \/ refresh_approval_attention(t) \/ read_pending_attention(t)
         \/ record_notification_delivery(t) \/ compile_control_plane_snapshot(t)
         \/ control_plane_return_view(t) \/ advance_return_view_cursor(t)
         \/ check_presence(t) \/ record_notification_shadow_batch(t) \/ RequestLost(t)
    \/ \E d \in deliveries : record_notification_presentation(d)
Spec == Init /\ [][Next]_viewVars

-----------------------------------------------------------------------------
HidesNothing(k) ==
    /\ k = Len(snapshots)
    /\ snapshots[k].attention = Revisions
    /\ snapshots[k].notifications = deliveries
    /\ snapshots[k].progress = Compiled.progress

(* A snapshot that would be reused now, and was not compiled before a      *)
(* purge, shows the attention items, the claims and the classifier backlog *)
(* as they are now: no direct update is hidden behind a cursor that stood  *)
(* still.  It is the latest revision, so the view built from it can be     *)
(* acknowledged.                                                           *)
ReuseHidesNothing == \A k \in Reusable : k > purge.snapshots => HidesNothing(k)

(* A finished refresh has claimed every revision that was unclaimed when   *)
(* it read its page, or a full page of them, so a stable page of severe    *)
(* items starves nothing; what was purged since counts as claimed.         *)
RefreshMakesProgress ==
    \A t \in Tabs : tab[t].pc \in {"view", "presence", "batch"} =>
        Cardinality({r \in tab[t].start : r \in deliveries \/ (purge.done /\ r[1] \in Own)})
            >= Min({PageSize, Cardinality(tab[t].start)})

(* The operator's cursor covers only events of a snapshot a tab was shown  *)
(* from a cursor at or below it, and no event that is still to come, so it *)
(* hides none from the next view, whatever was purged.  A shadow batch     *)
(* binds a presence that was current and only revisions that were claimed  *)
(* when it was recorded.                                                   *)
AcknowledgedWasShown ==
    /\ cursor <= events.ever
    /\ cursor > 0 => \E k \in 1..Len(snapshots) : snapshots[k].events = cursor
    /\ \A b \in batches : /\ b.presence = b.version
                          /\ snapshots[b.revision].attention \subseteq b.claimed

ViewCustody == ReuseHidesNothing /\ RefreshMakesProgress /\ AcknowledgedWasShown

(* Every section of a reused snapshot is current: "reused only when every  *)
(* represented source cursor matches" (snapshots.rs:32-35).                *)
SnapshotCurrent ==
    \A k \in Reusable : snapshots[k].records = SectionRows

(* "so direct attention updates cannot be hidden behind an unchanged       *)
(* controller-domain cursor" (snapshots.rs:34): refuted, a purge sets the  *)
(* cursors back, and an older snapshot with the same cursors is reused.    *)
ReuseAfterPurge == \A k \in Reusable : HidesNothing(k)

(* The operator can be shown a return view: refuted, after the purge of    *)
(* the run with the newest events the acknowledged cursor is past every    *)
(* event, and the view fails until the next one.                           *)
ReturnViewServed == cursor <= EventCursor

(* "Orphaned attention keeps asking for action on work that no longer      *)
(* exists, so it goes with the run" (queries.rs:3253): refuted, a request  *)
(* that listed the approval before the purge opens its item after it, and  *)
(* nothing closes it.                                                      *)
AttentionGoesWithRun == purge.done => Own \cap Current = {}
=============================================================================
