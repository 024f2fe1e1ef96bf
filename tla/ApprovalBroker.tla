--------------------------- MODULE ApprovalBroker ---------------------------
(***************************************************************************)
(* Server requests of the App Server and the approvals made of them:       *)
(* Orchestrator::handle_server_request (the pump), decide_approval (any    *)
(* number of operator tabs, and the cancellations of stop_run), the store  *)
(* transactions between them, the delivery of the answer to the process    *)
(* that owns the request id, and the attention items that show pending     *)
(* approvals (operator_control/approval.rs, attention.rs).                 *)
(*                                                                         *)
(* Ask n is the n-th server request.  Request ids are local to a process:  *)
(* a restarted App Server counts from 1 again.                             *)
(***************************************************************************)
EXTENDS Naturals, Sequences, FiniteSets

CONSTANTS
    Deciders,      \* concurrent calls of decide_approval
    MaxAsks,       \* bound on server requests
    MaxDecisions,  \* bound on calls of each decider
    MaxFaults      \* bound on worktree edits, acknowledgements and exits together

VARIABLES
    ask,        \* the server requests: process, id and class
    inbox,      \* asks the reader has put on the event channel
    alive,      \* the App Server runs
    process,    \* number of App Server processes started
    owned,      \* server_requests of the active supervisor: ids
    answers,    \* answers the process received: <<process, id, decision, ask>>
    approval,   \* approvals and runtime_rpc_requests rows, by ask
    session,    \* state of the agent that asks
    handoff,    \* the metadata of a controller-owned commit, by ask
    worktree,   \* fingerprint of the agent's worktree
    decider,    \* calls of decide_approval in progress
    item,       \* latest attention item of each approval
    mirror,     \* refresh_approval_attention in progress
    pump,       \* ask whose agent state the pump still has to write
    spent       \* bounds consumed

brokerVars == <<ask, inbox, alive, process, owned, answers, approval, session, handoff,
                worktree, decider, item, mirror, pump, spent>>

Asks == 1..MaxAsks
Classes == {"brokered", "commit", "other", "unmapped"}
Rpc(n) == ask[n].id
IdleDecider == [pc |-> "idle", n |-> 0, decision |-> "none", expect |-> 0, read |-> 0,
                at |-> 0]
NoItem == [state |-> "none", revision |-> 0, version |-> 0]
IdleMirror == [pc |-> "idle", todo |-> {}, list |-> <<>>, n |-> 0, seen |-> NoItem]
NoApproval == [state |-> "none", decision |-> "none", version |-> 0, rpc |-> "none",
               expected |-> 0]
Pending(n) == approval[n].state = "pending"
Terminal(i) == i.state \in {"resolved", "declined"}
Shown(i) == i.state \in {"open", "acknowledged"}

-----------------------------------------------------------------------------
(* The App Server asks, and the reader notes the id before the pump can    *)
(* see the request.                                                        *)
reader_request(c) ==
    LET id == 1 + Cardinality({k \in DOMAIN ask : ask[k].process = process})
        n  == Len(ask) + 1
    IN /\ alive /\ n <= MaxAsks
       /\ ask' = Append(ask, [process |-> process, id |-> id, class |-> c])
       /\ owned' = owned \cup {id}
       /\ inbox' = Append(inbox, n)
       /\ UNCHANGED <<alive, process, answers, approval, session, handoff, worktree,
                      decider, item, mirror, pump, spent>>

(* respond: the id must be owned by the active supervisor.  A response is  *)
(* forgotten only once it has entered the writer; a dead process may still *)
(* take it, and its bounded channel may refuse it.                         *)
Owned(id) == id \in owned
Received(n, decision) ==
    IF alive THEN answers \cup {<<process, Rpc(n), decision, n>>} ELSE answers

(* Requests of a class BILDR does not broker get an error; unmapped ones   *)
(* are refused and never answered; a controller-owned commit is declined   *)
(* and its turn interrupted; the others become approvals bound to the      *)
(* worktree they were asked in.                                            *)
reject_request(n) ==
    /\ ask[n].class = "other"
    /\ \/ /\ Owned(Rpc(n))
          /\ answers' = Received(n, "error") /\ owned' = owned \ {Rpc(n)}
       \/ UNCHANGED <<answers, owned>>
    /\ UNCHANGED <<approval, handoff, session, pump>>

intercept_qwodex_controller_owned_commit(n) ==
    /\ ask[n].class = "commit"
    /\ \/ /\ Owned(Rpc(n))
          /\ answers' = Received(n, "decline") /\ owned' = owned \ {Rpc(n)}
          /\ \/ /\ alive
                /\ handoff' = handoff \cup {n} /\ session' = "HANDOFF_REQUESTED"
             \/ UNCHANGED <<handoff, session>>
       \/ UNCHANGED <<answers, owned, handoff, session>>
    /\ UNCHANGED <<approval, pump>>

create_approval(n) ==
    /\ ask[n].class = "brokered"
    /\ \/ /\ approval' = [approval EXCEPT ![n] =
                [NoApproval EXCEPT !.state = "pending", !.version = 1, !.rpc = "pending",
                                   !.expected = worktree]]
          /\ pump' = n
       \/ UNCHANGED <<approval, pump>>     \* git could not read the worktree
    /\ UNCHANGED <<answers, owned, handoff, session>>

handle_server_request ==
    /\ inbox # <<>> /\ pump = 0
    /\ inbox' = Tail(inbox)
    /\ LET n == Head(inbox)
       IN \/ reject_request(n) \/ intercept_qwodex_controller_owned_commit(n)
          \/ create_approval(n)
          \/ ask[n].class = "unmapped"
             /\ UNCHANGED <<answers, owned, approval, handoff, session, pump>>
    /\ UNCHANGED <<ask, alive, process, worktree, decider, item, mirror, spent>>

\* update_agent_state, after the approval was stored.
agent_waits ==
    /\ pump # 0
    /\ session' = "WAITING_APPROVAL" /\ pump' = 0
    /\ UNCHANGED <<ask, inbox, alive, process, owned, answers, approval, handoff, worktree,
                   decider, item, mirror, spent>>

-----------------------------------------------------------------------------
(* decide_approval, step by step                                           *)
Leave(d) == decider' = [decider EXCEPT ![d] = IdleDecider]
Goto(d, pc) == decider' = [decider EXCEPT ![d].pc = pc]
Sent(d) == decider' = [decider EXCEPT ![d].pc = "sent", ![d].at = process]
At(d, pc) == decider[d].pc = pc

(* A tab sends a decision with the version it shows; stop_run cancels      *)
(* every approval it lists as pending.                                     *)
decide_approval(d, n, decision) ==
    /\ At(d, "idle") /\ spent.decisions[d] < MaxDecisions /\ Pending(n)
    /\ decider' = [decider EXCEPT ![d] = [IdleDecider EXCEPT
          !.pc = IF decision = "accept" THEN "custody" ELSE "read",
          !.n = n, !.decision = decision, !.expect = approval[n].version]]
    /\ spent' = [spent EXCEPT !.decisions[d] = @ + 1]
    /\ UNCHANGED <<ask, inbox, alive, process, owned, answers, approval, session, handoff,
                   worktree, item, mirror, pump>>

approval_expected_custody(d) ==
    /\ At(d, "custody")
    /\ IF worktree = approval[decider[d].n].expected THEN Goto(d, "read") ELSE Leave(d)

\* Store::decide_approval reads the approval ...
read_approval(d) ==
    LET a == approval[decider[d].n]
    IN /\ At(d, "read")
       /\ IF a.state = "pending" /\ a.version = decider[d].expect
          THEN decider' = [decider EXCEPT ![d].pc = "write", ![d].read = a.version]
          ELSE Leave(d)

(* ... and writes it in a transaction whose UPDATE may match no row, which *)
(* nobody notices.                                                         *)
write_decision(d) ==
    LET n == decider[d].n
        a == approval[n]
    IN /\ At(d, "write")
       /\ IF a.rpc = "pending"
          THEN /\ Goto(d, "send")
               /\ approval' = IF a.version # decider[d].read THEN approval
                              ELSE [approval EXCEPT ![n].state = "delivering",
                                       ![n].decision = decider[d].decision,
                                       ![n].version = @ + 1]
          ELSE Leave(d) /\ UNCHANGED approval

\* Mutant: the id is forgotten before the answer enters the writer.
respond_forgetting(d) ==
    LET n == decider[d].n
    IN /\ At(d, "send") /\ owned' = owned \ {Rpc(n)}
       /\ \/ Owned(Rpc(n)) /\ answers' = Received(n, decider[d].decision) /\ Sent(d)
          \/ answers' = answers /\ Goto(d, "failed")
respond_rpc(d) ==
    LET n == decider[d].n
    IN /\ At(d, "send")
       /\ \/ Owned(Rpc(n)) /\ answers' = Received(n, decider[d].decision) /\ Sent(d)
          \/ answers' = answers /\ Goto(d, "failed")
       /\ UNCHANGED owned
forget_request(d) ==
    /\ At(d, "sent")
    /\ owned' = IF decider[d].at = process THEN owned \ {Rpc(decider[d].n)} ELSE owned
    /\ Goto(d, "mark")

(* A delivered answer closes approval and request and sets the agent       *)
(* RUNNING; a failed one makes the approval pending again.                 *)
mark_approval_delivered(d) ==
    LET n == decider[d].n
    IN \/ /\ At(d, "mark")
          /\ approval' = [approval EXCEPT ![n].state = "resolved", ![n].rpc = "resolved",
                                          ![n].version = @ + 1]
          /\ session' = "RUNNING" /\ Leave(d)
       \/ /\ At(d, "failed")
          /\ approval' = [approval EXCEPT ![n].state = "pending", ![n].version = @ + 1]
          /\ UNCHANGED session /\ Leave(d)

Decide(d) ==
    /\ \/ /\ approval_expected_custody(d) \/ read_approval(d)
          /\ UNCHANGED <<approval, answers, owned, session>>
       \/ write_decision(d) /\ UNCHANGED <<answers, owned, session>>
       \/ respond_rpc(d) /\ UNCHANGED <<approval, session>>
       \/ forget_request(d) /\ UNCHANGED <<approval, answers, session>>
       \/ mark_approval_delivered(d) /\ UNCHANGED <<answers, owned>>
    /\ UNCHANGED <<ask, inbox, alive, process, handoff, worktree, item, mirror, pump, spent>>

-----------------------------------------------------------------------------
(* Attention                                                               *)
\* A console poll lists the approvals, if any, and visits them one by one.
refresh_approval_attention ==
    \/ /\ mirror.pc = "idle" /\ \E n \in DOMAIN ask : approval[n].state # "none"
       /\ mirror' = [IdleMirror EXCEPT !.pc = "next", !.list = approval,
                        !.todo = {n \in DOMAIN ask : approval[n].state # "none"}]
    \/ /\ mirror.pc = "next"
       /\ mirror' = IF mirror.todo = {} THEN IdleMirror
                    ELSE LET n == CHOOSE k \in mirror.todo : TRUE
                         IN [mirror EXCEPT !.pc = "act", !.n = n, !.todo = @ \ {n},
                                           !.seen = item[n]]

NextApproval == mirror' = [mirror EXCEPT !.pc = "next", !.n = 0, !.seen = NoItem]

\* Mutant: an approval is mirrored once.
ReopensNever(a, i) == i.state = "none"
(* upsert_source_attention of a pending approval that has no item, or whose *)
(* closed item is of an older revision.                                    *)
Reopens(a, i) == i.state = "none" \/ (Terminal(i) /\ i.revision < a.version)

upsert_source_attention ==
    LET n == mirror.n
        a == mirror.list[n]
    IN /\ a.state = "pending" /\ Reopens(a, mirror.seen)
       /\ item' = [item EXCEPT ![n] = [state |-> "open", revision |-> a.version, version |-> 1]]
       /\ NextApproval

resolve_attention_from_source ==
    LET n == mirror.n
        a == mirror.list[n]
    IN /\ a.state # "pending" /\ Shown(mirror.seen)
       /\ \/ /\ item[n].version = mirror.seen.version
             /\ item' = [item EXCEPT ![n].version = @ + 1, ![n].state =
                   IF a.decision \in {"decline", "cancel"} THEN "declined" ELSE "resolved"]
             /\ NextApproval
          \/ /\ item[n].version # mirror.seen.version
             /\ mirror' = IdleMirror       \* Conflict ends the pass
             /\ UNCHANGED item

attention_unchanged ==
    LET a == mirror.list[mirror.n]
    IN /\ IF a.state = "pending" THEN ~Reopens(a, mirror.seen)
          ELSE ~Shown(mirror.seen)
       /\ NextApproval
       /\ UNCHANGED item

Mirror ==
    /\ \/ refresh_approval_attention /\ UNCHANGED item
       \/ mirror.pc = "act"
          /\ (upsert_source_attention \/ resolve_attention_from_source \/ attention_unchanged)
    /\ UNCHANGED <<ask, inbox, alive, process, owned, answers, approval, session, handoff,
                   worktree, decider, pump, spent>>

\* Presentation state only: Open -> Acknowledged.
acknowledge_attention(n) ==
    /\ item[n].state = "open" /\ spent.faults < MaxFaults
    /\ item' = [item EXCEPT ![n].state = "acknowledged", ![n].version = @ + 1]
    /\ spent' = [spent EXCEPT !.faults = @ + 1]
    /\ UNCHANGED <<ask, inbox, alive, process, owned, answers, approval, session, handoff,
                   worktree, decider, mirror, pump>>

-----------------------------------------------------------------------------
(* Faults                                                                  *)
\* Only a change while an approval is pending can be told.
WorktreeChanges ==
    /\ \E n \in DOMAIN ask : Pending(n)
    /\ spent.faults < MaxFaults /\ worktree' = worktree + 1
    /\ spent' = [spent EXCEPT !.faults = @ + 1]
    /\ UNCHANGED <<ask, inbox, alive, process, owned, answers, approval, session, handoff,
                   decider, item, mirror, pump>>

AppServerExits ==
    /\ alive /\ spent.faults < MaxFaults
    /\ alive' = FALSE
    /\ spent' = [spent EXCEPT !.faults = @ + 1]
    /\ UNCHANGED <<ask, inbox, process, owned, answers, approval, session, handoff, worktree,
                   decider, item, mirror, pump>>

(* The pump reconciles and restarts once it has handled the events the     *)
(* dead process left; pending approvals are kept for the operator.         *)
restart_active ==
    /\ ~alive /\ inbox = <<>> /\ pump = 0
    /\ alive' = TRUE /\ process' = process + 1 /\ owned' = {}
    /\ session' = "STALLED"
    /\ UNCHANGED <<ask, inbox, answers, approval, handoff, worktree, decider, item, mirror,
                   pump, spent>>

\* Only the store survives.
DaemonCrash ==
    /\ spent.faults < MaxFaults
    /\ spent' = [spent EXCEPT !.faults = @ + 1]
    /\ alive' = TRUE /\ process' = process + 1 /\ owned' = {} /\ inbox' = <<>>
    /\ session' = "STALLED" /\ pump' = 0
    /\ decider' = [d \in Deciders |-> IdleDecider] /\ mirror' = IdleMirror
    /\ UNCHANGED <<ask, answers, approval, handoff, worktree, item>>

-----------------------------------------------------------------------------
Init ==
    /\ ask = <<>> /\ inbox = <<>> /\ alive = TRUE /\ process = 1
    /\ owned = {} /\ answers = {} /\ approval = [n \in Asks |-> NoApproval]
    /\ session = "RUNNING" /\ handoff = {} /\ worktree = 0 /\ pump = 0
    /\ decider = [d \in Deciders |-> IdleDecider]
    /\ item = [n \in Asks |-> NoItem] /\ mirror = IdleMirror
    /\ spent = [decisions |-> [d \in Deciders |-> 0], faults |-> 0]

Next ==
    \/ \E c \in Classes : reader_request(c)
    \/ handle_server_request \/ agent_waits \/ Mirror
    \/ \E d \in Deciders, n \in DOMAIN ask, x \in {"accept", "decline"} :
          decide_approval(d, n, x)
    \/ \E d \in Deciders : Decide(d)
    \/ \E n \in DOMAIN ask : acknowledge_attention(n)
    \/ WorktreeChanges \/ AppServerExits \/ restart_active \/ DaemonCrash

Spec == Init /\ [][Next]_brokerVars

(* An open console polls: every poll runs to its end and is followed by    *)
(* another one.  Calls of decide_approval finish: respond_rpc is bounded   *)
(* by the client's time limit.                                             *)
Fairness ==
    /\ WF_brokerVars(Mirror)
    /\ \A d \in Deciders : WF_brokerVars(Decide(d))
FairSpec == Spec /\ Fairness

-----------------------------------------------------------------------------
\* Values the state may take.
TypeOK ==
    /\ owned \subseteq Asks /\ process \in 1..(MaxFaults + 1)
    /\ \A n \in Asks : /\ approval[n].state \in {"none", "pending", "delivering", "resolved"}
                       /\ item[n].state \in {"none", "open", "acknowledged", "resolved", "declined"}

(* A pending approval whose process still waits can be answered: its id is *)
(* owned, whatever deliveries were refused before.                         *)
PendingAnswerable ==
    \A n \in DOMAIN ask :
        (/\ Pending(n) /\ alive /\ ask[n].process = process
         /\ \A a \in answers : <<a[1], a[2]>> # <<process, Rpc(n)>>) => Owned(Rpc(n))

(* With an open console a pending approval is shown as an active attention *)
(* item until it is decided, also after a failed delivery has made it      *)
(* pending again, and a decided one leaves attention.                      *)
Unshown(n) == Pending(n) /\ ~Shown(item[n])
Overstays(n) == approval[n].state = "resolved" /\ Shown(item[n])
AttentionFollowsApproval ==
    \A n \in Asks : (Unshown(n) ~> ~Unshown(n)) /\ (Overstays(n) ~> ~Overstays(n))

(* What reconcile_orphaned_sessions says of the approvals it keeps: a      *)
(* decision is source-bound, so it answers the request it was made for.    *)
AnswerSourceBound == \A a \in answers : a[1] = ask[a[4]].process
=============================================================================
