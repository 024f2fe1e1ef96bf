-------------------------- MODULE MCRecordCustody --------------------------
(***************************************************************************)
(* The components that keep the durable record, each on a small instance:  *)
(* outcomes, knowledge, evidence and its retention, evaluations, what the  *)
(* operator is shown, liveness episodes, external conditions,              *)
(* reconciliation, the admission of runs and the registry of projects.     *)
(* They meet in the store, each through transactions its module models, so *)
(* each is checked by itself: the initial state chooses the component      *)
(* ("assertions" are the operator's steps of Outcomes). All but Outcomes   *)
(* share one pool of variables, of which each instance names those it      *)
(* uses; the variables of Outcomes keep their first value meanwhile.       *)
(***************************************************************************)
EXTENDS Outcomes

VARIABLES
    focus,   \* the component that runs; it never changes
    slot1, slot2, slot3, slot4, slot5, slot6, slot7, slot8, slot9, slot10,
    slot11, slot12, slot13, slot14, slot15, slot16, slot17, slot18, slot19

Know == INSTANCE Knowledge WITH
    now <- slot1, runs <- slot2, live <- slot3, obs <- slot4, recon <- slot5,
    artifact <- slot6, proposal <- slot7, revisions <- slot8,
    decisions <- slot9, Runs <- {"r1", "r2"},
    Trigger <- [r1 |-> "restart", r2 |-> "restart"], Restricted <- {"r2"},
    Reviewers <- {"s1", "s2"}, RevalidateAfter <- 1, MaxEpisodes <- 2,
    MaxTime <- 2, MaxRecords <- 2, MaxEvidence <- 4, MaxCandidates <- 1
Evid == INSTANCE EvidenceStore WITH
    run <- slot1, blobs <- slot2, artifact <- slot3, command <- slot4,
    validation <- slot5, evidence <- slot6, link <- slot7, binding <- slot8,
    transcript <- slot9, job <- slot10, refused <- slot11, ids <- slot12,
    jobs <- slot13, faults <- slot14, Runs <- {"a", "b"},
    Evaluations <- {"e"}, Contents <- {"empty"}, MaxJobs <- 2, MaxFaults <- 1
Eval == INSTANCE Evaluation WITH
    att <- slot1, controller <- slot2, tree <- slot3, row <- slot4,
    overlay <- slot5, sealed <- slot6, ev <- slot7, wires <- slot8,
    member <- slot9, evaluation <- slot10, sample <- slot11,
    receipt <- slot12, faults <- slot13, Attempts <- {"i1", "i2"},
    MaxFaults <- 2
View == INSTANCE OperatorView WITH
    approval <- slot1, item <- slot2, attention <- slot3, events <- slot4,
    records <- slot5, classified <- slot6, presence <- slot7,
    deliveries <- slot8, presented <- slot9, snapshots <- slot10,
    batches <- slot11, cursor <- slot12, tab <- slot13, view <- slot14,
    purge <- slot15, changes <- slot16, requests <- slot17,
    Approvals <- {1, 2}, Own <- {1}, Sources <- {"reconciliation"},
    Amended <- {"reconciliation"}, Tabs <- Tabs, PageSize <- 1,
    ClassifierLimit <- 1, MaxVersion <- 3, MaxChanges <- 3, MaxRequests <- 2
Live == INSTANCE Liveness WITH
    clock <- slot1, episode <- slot2, log <- slot3, receipts <- slot4,
    run <- slot5, reader <- slot6, request <- slot7, Observers <- {"worker"},
    Operators <- {"tab1", "tab2"}, Delay <- 1, MaxTime <- 2, MaxVersion <- 3
Cond == INSTANCE ExternalConditions WITH
    now <- slot1, identity <- slot2, cond <- slot3, events <- slot4,
    scan <- slot5, scans <- slot6, faults <- slot7, TimeGates <- {1, 3},
    CapacityGates <- {2}, NotBefore <- 1, Deadline <- 2,
    Scanners <- {"tick", "maintenance"}, PageSize <- 1, MaxTime <- 2,
    MaxScans <- 2, MaxFaults <- 1
Recon == INSTANCE Reconciliation WITH
    task <- slot1, attempt <- slot2, agent <- slot3, writer <- slot4,
    worktree <- slot5, lease <- slot6, episode <- slot7, pass <- slot8,
    up <- slot9, proof <- slot10, retry <- slot11, call <- slot12,
    losses <- slot13, MaxAttempts <- 2, Consumers <- {"op1"}, MaxLosses <- 2
Adm == INSTANCE RunAdmission WITH
    provider <- slot1, config <- slot2, pending <- slot3, root <- slot4,
    clean <- slot5, other <- slot6, run <- slot7, route <- slot8,
    dir <- slot9, gone <- slot10, row <- slot11, bound <- slot12,
    thread <- slot13, at <- slot14, arg <- slot15, held <- slot16,
    raced <- slot17, faults <- slot18, busy <- slot19, Runs <- {"r1"},
    MaxFaults <- 2, MaxBusy <- 1
Reg == INSTANCE ProjectRegistry WITH
    dir <- slot1, kept <- slot2, staging <- slot3, root <- slot4,
    state <- slot5, at <- slot6, kind <- slot7, goal <- slot8, seen <- slot9,
    crashed <- slot10, user <- slot11, faults <- slot12,
    Requests <- {"q1", "q2"}, MaxUser <- 2, MaxFaults <- 1

\* The slots from the n-th on, and their value while no component uses them.
From18 == <<slot18, slot19>>
Free18 == slot18 = "free" /\ slot19 = "free"
From15 == <<slot15, slot16, slot17, From18>>
Free15 == slot15 = "free" /\ slot16 = "free" /\ slot17 = "free" /\ Free18
From14 == <<slot14, From15>>
Free14 == slot14 = "free" /\ Free15
From13 == <<slot13, From14>>
Free13 == slot13 = "free" /\ Free14
From10 == <<slot10, slot11, slot12, From13>>
Free10 == slot10 = "free" /\ slot11 = "free" /\ slot12 = "free" /\ Free13
From8 == <<slot8, slot9, From10>>
Free8 == slot8 = "free" /\ slot9 = "free" /\ Free10
From1 == <<slot1, slot2, slot3, slot4, slot5, slot6, slot7, From8>>
Free1 == slot1 = "free" /\ slot2 = "free" /\ slot3 = "free" /\ slot4 = "free"
    /\ slot5 = "free" /\ slot6 = "free" /\ slot7 = "free" /\ Free8

MCInit ==
    /\ Init
    /\ \/ focus \in {"outcomes", "assertions"} /\ Free1
       \/ focus = "knowledge" /\ Know!Init /\ Free10
       \/ focus = "evidence" /\ Evid!Init /\ Free15
       \/ focus = "evaluation" /\ Eval!Init /\ Free14
       \/ focus = "view" /\ View!Init /\ Free18
       \/ focus = "liveness" /\ Live!Init /\ Free8
       \/ focus = "conditions" /\ Cond!Init /\ Free8
       \/ focus = "reconciliation" /\ Recon!Init /\ Free14
       \/ focus = "admission" /\ Adm!Init
       \/ focus = "registry" /\ Reg!Init /\ Free13

OutcomesStep == focus = "outcomes" /\ ObserverNext /\ UNCHANGED <<focus, From1>>
AssertionsStep == focus = "assertions" /\ TabNext /\ UNCHANGED <<focus, From1>>
KnowledgeStep ==
    focus = "knowledge" /\ Know!Next /\ UNCHANGED <<focus, vars, From10>>
EvidenceStep ==
    focus = "evidence" /\ Evid!Next /\ UNCHANGED <<focus, vars, From15>>
EvaluationStep ==
    focus = "evaluation" /\ Eval!Next /\ UNCHANGED <<focus, vars, From14>>
ViewStep ==
    focus = "view" /\ View!Next /\ UNCHANGED <<focus, vars, From18>>
LivenessStep ==
    focus = "liveness" /\ Live!Next /\ UNCHANGED <<focus, vars, From8>>
ConditionsStep ==
    focus = "conditions" /\ Cond!Next /\ UNCHANGED <<focus, vars, From8>>
ReconciliationStep ==
    focus = "reconciliation" /\ Recon!Next /\ UNCHANGED <<focus, vars, From14>>
AdmissionStep ==
    focus = "admission" /\ Adm!Next /\ UNCHANGED <<focus, vars>>
RegistryStep ==
    focus = "registry" /\ Reg!Next /\ UNCHANGED <<focus, vars, From13>>

MCNext ==
    \/ OutcomesStep \/ AssertionsStep \/ KnowledgeStep \/ EvidenceStep
    \/ EvaluationStep \/ ViewStep \/ LivenessStep \/ ConditionsStep
    \/ ReconciliationStep \/ AdmissionStep \/ RegistryStep

\* The tabs of Outcomes and of OperatorView.
MCSymmetry == Permutations(Tabs)

MCSpec == MCInit /\ [][MCNext]_<<focus, vars, From1>>

-----------------------------------------------------------------------------
(* A reviewed record rests on evidence that still says what it cited, from *)
(* runs it may use, and a decision is about the exact candidate shown.     *)
KnowledgeCustody == focus = "knowledge" => Know!KnowledgeCustody

(* Whatever is swept, purged or lost in a crash, every row that remains    *)
(* finds what it refers to.                                                *)
EvidenceCustody == focus = "evidence" => Evid!EvidenceCustody

(* A completed evaluation rests on one attempt's own evidence of both arms *)
(* on the frozen task set, also after retries of interrupted attempts.     *)
EvaluationCustody == focus = "evaluation" => Eval!EvaluationCustody

(* What the operator is shown, told of and acknowledges is what happened,  *)
(* and an intervention applies to the episode revision it was asked for.   *)
OperatorCustody ==
    /\ focus = "view" => View!ViewCustody
    /\ focus = "liveness" => Live!InterventionsBindRevision

(* After a crash or an exit an attempt is replaced only once its work is   *)
(* preserved and its writer gone; a condition is decided once, on what was *)
(* registered, however the scans of it interleave.                         *)
RecoveryCustody ==
    /\ focus = "reconciliation" => Recon!TypeOK /\ Recon!CustodyPreserved
    /\ focus = "conditions" => Cond!ConditionCustody

(* Runs, provider switches, checkouts and projects keep out of each        *)
(* other's way.                                                            *)
AdmissionCustody ==
    /\ focus = "admission" => Adm!AdmissionSound
    /\ focus = "registry" => Reg!RegistrySound
=============================================================================
