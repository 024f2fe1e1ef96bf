--------------------------- MODULE MCAgentCustody ---------------------------
(***************************************************************************)
(* The components that keep an agent's work in custody, each on a small    *)
(* instance: governors and their children, budgets, supervision, the       *)
(* candidate a governor leaves, validator processes and Codex accounts.    *)
(* They meet in the store, each through transactions its module models, so *)
(* each is checked by itself: the initial state chooses the component. All *)
(* but the governor share one pool of variables, of which each instance    *)
(* names those it uses; the governor's variables keep their first value    *)
(* meanwhile.                                                              *)
(***************************************************************************)
EXTENDS Governor, TLC

VARIABLES
    focus,   \* the component that runs; it never changes
    slot1, slot2, slot3, slot4, slot5, slot6, slot7, slot8, slot9, slot10,
    slot11, slot12, slot13, slot14, slot15, slot16

Native == INSTANCE NativeChildren WITH
    provider <- slot1, parent <- slot2, runs <- slot3, packets <- slot4,
    child <- slot5, receipts <- slot6, contained <- slot7, paused <- slot8,
    task <- slot9, step <- slot10, ceiling <- slot11, spent <- slot12,
    Children <- {"c1", "c2"}, Capacity <- 1, MaxPackets <- 2,
    MaxFailures <- 2
Budget == INSTANCE TokenBudget WITH
    actual <- slot1, wire <- slot2, raw <- slot3, sample <- slot4,
    turn <- slot5, agent <- slot6, keys <- slot7, run <- slot8,
    work <- slot9, refused <- slot10, lost <- slot11, spent <- slot12,
    call <- slot13, late <- slot14,
    SessionBudget <- 3, Checkpoint <- 2, RunBudget <- 2, Allowance <- 1,
    Operators <- {"o1"}, CallSizes <- {1, 2}, MaxTurns <- 2, MaxCalls <- 2,
    MaxRepeats <- 1, MaxCommands <- 2, MaxCrashes <- 1
Super == INSTANCE Supervision WITH
    events <- slot1, cursor <- slot2, snaps <- slot3, review <- slot4,
    latest <- slot5, turn <- slot6, action <- slot7, expert <- slot8,
    enabled <- slot9, facts <- slot10, run <- slot11, paused <- slot12,
    lock <- slot13, pc <- slot14, lateStart <- slot15, spent <- slot16,
    Tabs <- {"tab1", "tab2"}, MaxEvents <- 2, MaxSnapshots <- 2,
    MaxFaults <- 1
Cand == INSTANCE CandidateCustody WITH
    tree <- slot1, stage <- slot2, candidate <- slot3, seen <- slot4,
    verified <- slot5, commit_sha <- slot6, review <- slot7, print <- slot8,
    proof <- slot9, raced <- slot10, copied <- slot11, edits <- slot12,
    strays <- slot13, faults <- slot14, MaxFiles <- 2, MaxEdits <- 1,
    MaxStrays <- 1, MaxFaults <- 1
Run == INSTANCE Runner WITH
    run <- slot1, child <- slot2, forked <- slot3, fed <- slot4,
    pipe <- slot5, artifact <- slot6, staged <- slot7,
    Commands <- {"lint", "grade"}, Isolated <- {"grade"}, Fed <- {"lint"},
    Slots <- 1, PipeSize <- 1, MaxOutput <- 2
Acct == INSTANCE CodexAccounts WITH
    home <- slot1, profile <- slot2, selected <- slot3, agents <- slot4,
    login <- slot5, discovery <- slot6, telemetry <- slot7, chooser <- slot8,
    removed <- slot9, spent <- slot10, External <- {"main"},
    Managed <- {"m1"}, Fresh <- {"n1"}, SignIns <- {"l1"}, MaxReadings <- 2,
    MaxCommands <- 1

\* The slots from the n-th on, and their value while no component uses them.
From15 == <<slot15, slot16>>
Free15 == slot15 = "free" /\ slot16 = "free"
From13 == <<slot13, slot14, From15>>
Free13 == slot13 = "free" /\ slot14 = "free" /\ Free15
From11 == <<slot11, slot12, From13>>
Free11 == slot11 = "free" /\ slot12 = "free" /\ Free13
From8 == <<slot8, slot9, slot10, From11>>
Free8 == slot8 = "free" /\ slot9 = "free" /\ slot10 = "free" /\ Free11
From1 == <<slot1, slot2, slot3, slot4, slot5, slot6, slot7, From8>>
Free1 == slot1 = "free" /\ slot2 = "free" /\ slot3 = "free" /\ slot4 = "free"
    /\ slot5 = "free" /\ slot6 = "free" /\ slot7 = "free" /\ Free8

MCInit ==
    /\ Init
    /\ \/ focus = "governor" /\ Free1
       \/ focus = "children" /\ Native!Init /\ Free13
       \/ focus = "budget" /\ Budget!Init /\ Free15
       \/ focus = "supervision" /\ Super!Init
       \/ focus = "candidate" /\ Cand!Init /\ Free15
       \/ focus = "runner" /\ Run!Init /\ Free8
       \/ focus = "accounts" /\ Acct!Init /\ Free11

GovernorStep == focus = "governor" /\ Next /\ UNCHANGED <<focus, From1>>
ChildrenStep ==
    focus = "children" /\ Native!Next /\ UNCHANGED <<focus, governorVars, From13>>
BudgetStep ==
    focus = "budget" /\ Budget!Next /\ UNCHANGED <<focus, governorVars, From15>>
SupervisionStep ==
    focus = "supervision" /\ Super!Next /\ UNCHANGED <<focus, governorVars>>
CandidateStep ==
    focus = "candidate" /\ Cand!Next /\ UNCHANGED <<focus, governorVars, From15>>
RunnerStep ==
    focus = "runner" /\ Run!Next /\ UNCHANGED <<focus, governorVars, From8>>
AccountsStep ==
    focus = "accounts" /\ Acct!Next /\ UNCHANGED <<focus, governorVars, From11>>

MCNext ==
    \/ GovernorStep \/ ChildrenStep \/ BudgetStep \/ SupervisionStep
    \/ CandidateStep \/ RunnerStep \/ AccountsStep

MCSpec == MCInit /\ [][MCNext]_<<focus, governorVars, From1>>

MCSymmetry == Permutations(Planned) \cup Permutations(Texts)

-----------------------------------------------------------------------------
(* Usage is counted once however its reports arrive, no agent goes on past *)
(* its ceiling, and a child that is not permitted, or is one too many, is  *)
(* contained before its governor's work may go on.                         *)
BudgetCustody ==
    /\ focus = "budget" => Budget!TypeOK /\ Budget!UsageExact /\ Budget!CeilingsHeld
    /\ focus = "children" => Native!NativeChildrenContained

(* A consultation is applied to the state it was about, by whoever applies *)
(* it, and none is started while supervision is off.                       *)
ConsultationCurrent ==
    focus = "supervision" => Super!TypeOK /\ Super!ConsultationCurrent

(* What the controller commits, shows the reviewer and validates is what   *)
(* it inspected, unless another process wrote meanwhile.                   *)
CandidateSound == focus = "candidate" => Cand!CandidateSound

(* Validators run within their permits, on the artifact that was checked,  *)
(* and their result is that of the process.                                *)
RunnerCustody == focus = "runner" => Run!TypeOK /\ Run!RunnerCustody

(* No account in use is lost, every sign-in settles, and rotation goes by  *)
(* telemetry that is fresh.                                                *)
AccountCustody == focus = "accounts" => Acct!AccountCustody
=============================================================================
