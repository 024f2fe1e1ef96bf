----------------------------- MODULE MCRuntime -----------------------------
(***************************************************************************)
(* The components between the daemon and the App Server, each on a small   *)
(* instance: the client and its account switches, the broker of approvals  *)
(* and user input, and investigation tasks. Each is checked by itself: the *)
(* initial state chooses the component. The broker and investigations      *)
(* share one pool of variables, of which each instance names those it      *)
(* uses; the client's variables keep their first value meanwhile.          *)
(***************************************************************************)
EXTENDS CodexLink

VARIABLES
    focus,   \* the component that runs; it never changes
    slot1, slot2, slot3, slot4, slot5, slot6, slot7, slot8, slot9, slot10,
    slot11, slot12, slot13, slot14, slot15

Broker == INSTANCE ApprovalBroker WITH
    ask <- slot1, inbox <- slot2, alive <- slot3, process <- slot4,
    owned <- slot5, answers <- slot6, approval <- slot7, session <- slot8,
    handoff <- slot9, worktree <- slot10, decider <- slot11, item <- slot12,
    mirror <- slot13, pump <- slot14, spent <- slot15,
    Deciders <- {"tab", "stop"}, MaxAsks <- 1, MaxDecisions <- 1,
    MaxFaults <- 1
Inv == INSTANCE Investigation WITH
    run <- slot1, task <- slot2, attempt <- slot3, agent <- slot4,
    turn <- slot5, wire <- slot6, worktree <- slot7, deadline <- slot8,
    artifact <- slot9, receipts <- slot10, overruled <- slot11,
    lock <- slot12, pc <- slot13, spent <- slot14, Answers <- {"a1", "a2"},
    MaxAnswers <- 2, MaxFaults <- 2, MaxCommands <- 2

\* The slots from the n-th on, and their value while no component uses them.
From15 == <<slot15>>
Free15 == slot15 = "free"
From1 == <<slot1, slot2, slot3, slot4, slot5, slot6, slot7, slot8, slot9,
    slot10, slot11, slot12, slot13, slot14, From15>>
Free1 == slot1 = "free" /\ slot2 = "free" /\ slot3 = "free" /\ slot4 = "free"
    /\ slot5 = "free" /\ slot6 = "free" /\ slot7 = "free" /\ slot8 = "free" /\
    slot9 = "free" /\ slot10 = "free" /\ slot11 = "free" /\ slot12 = "free" /\
    slot13 = "free" /\ slot14 = "free" /\ Free15

MCInit ==
    /\ Init
    /\ \/ focus = "link" /\ Free1
       \/ focus = "broker" /\ Broker!Init
       \/ focus = "investigation" /\ Inv!Init /\ Free15

LinkStep == focus = "link" /\ Next /\ UNCHANGED <<focus, From1>>
BrokerStep ==
    focus = "broker" /\ Broker!Next /\ UNCHANGED <<focus, linkVars>>
InvestigationStep ==
    focus = "investigation" /\ Inv!Next /\ UNCHANGED <<focus, linkVars, From15>>

MCNext ==
    \/ LinkStep \/ BrokerStep \/ InvestigationStep

(* The Fairness of the component that runs: a condition on a disjunction   *)
(* of guarded actions is the condition on the one whose guard holds.       *)
Conditions == <<linkVars, From1>>
MCFairness ==
    /\ WF_Conditions(\/ focus = "link" /\ Program("pump") /\ UNCHANGED From1
                     \/ focus = "broker" /\ Broker!Mirror /\ UNCHANGED linkVars
                     \/ focus = "investigation" /\ Inv!Pump /\ UNCHANGED <<linkVars, From15>>)
    /\ WF_Conditions(\/ focus = "link" /\ Program("user") /\ UNCHANGED From1
                     \/ focus = "broker" /\ Broker!Decide("tab") /\ UNCHANGED linkVars
                     \/ focus = "investigation" /\ Inv!Enforce("maintenance")
                           /\ UNCHANGED <<linkVars, From15>>)
    /\ WF_Conditions(\/ focus = "link" /\ event_pump /\ UNCHANGED From1
                     \/ focus = "broker" /\ Broker!Decide("stop") /\ UNCHANGED linkVars)
    /\ WF_linkVars(focus = "link" /\ restart_after_exit)
    /\ \A p \in Callers : SF_linkVars(focus = "link" /\ start(p))
    /\ \A g \in 1..MaxServers :
          WF_linkVars(focus = "link" /\ g \in DOMAIN server /\ child_watcher(g))

MCSpec == MCInit /\ [][MCNext]_<<focus, linkVars, From1>> /\ MCFairness

-----------------------------------------------------------------------------
(* A pending approval of the running process can still be answered.        *)
PendingAnswerable == focus = "broker" => Broker!TypeOK /\ Broker!PendingAnswerable

(* A task is closed exactly when an artifact proves it, and the deadline   *)
(* never overrules an artifact that was recorded in time.                  *)
InvestigationCustody == focus = "investigation" => Inv!InvestigationCustody

(* What waits is served.  Every request returns, and with it the pump,     *)
(* however full the event channel is, whoever holds the lock and whether   *)
(* the process answers; with an open console a pending approval is shown   *)
(* and a decided one leaves attention; an artifact once recorded ends with *)
(* every lifecycle row completed, without faults and commands.             *)
Waiting ==
    CASE focus = "link" -> \E p \in Callers : Busy(p)
      [] focus = "broker" -> Broker!Unshown(1) \/ Broker!Overstays(1)
      [] focus = "investigation" -> Inv!Unconverged
(* And an exit of the active process is followed by a running one or by    *)
(* the recorded end of the restart limit (with one exit).                  *)
RuntimeServes == (Waiting ~> ~Waiting) /\ ExitHandled
=============================================================================
