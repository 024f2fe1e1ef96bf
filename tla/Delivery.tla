------------------------------ MODULE Delivery ------------------------------
(***************************************************************************)
(* From the prepared integration candidate to a finished run: integration  *)
(* approval, validation and acceptance on the integrated head, the final   *)
(* audit, human signoff, the draft pull request, required CI, stopping,    *)
(* archiving and the removal of worktrees                                  *)
(* (crates/harness-orchestrator/src/lib.rs: approve_integration,           *)
(* launch_final_auditor, apply_final_audit_verdict, approve_signoff,       *)
(* attest_acceptance, request_signoff_changes, publish_draft_pr,           *)
(* refresh_draft_pr_ci, stop_run, archive_run, preserve_worktree,          *)
(* reconcile_completed_run_hygiene_locked).                                *)
(*                                                                         *)
(* None of these operations holds a lock across its awaits: the API calls  *)
(* of the operator, the CI poll of the maintenance loop and the event pump *)
(* interleave at every transaction, and only the version of the run row    *)
(* decides between them.  It is the module's subject whether that is       *)
(* enough.                                                                 *)
(*                                                                         *)
(* The integrated head never changes once it is prepared: the remediation  *)
(* that would replace it is refused (automatic_fresh_attempt_authorization *)
(* is unavailable).  What can change is the checkout of the worktree and   *)
(* the branch on the remote; both are "head" while they are at the         *)
(* integrated commit and "other" when they are elsewhere.                  *)
(***************************************************************************)
EXTENDS Naturals, FiniteSets

CONSTANTS
    Operators,    \* concurrent API calls of the operator
    Profiles,     \* configurations of a run: publication mode, required CI, attestation
    NTasks,       \* tasks of the run, in the order of list_tasks
    Commands,     \* the operator commands considered besides the delivery itself
    MaxCommands,  \* bound: such commands
    MaxMoves,     \* bound: changes of the integration checkout from outside
    MaxPushes,    \* bound: foreign pushes to the branch of the pull request
    MaxFailures   \* bound: App Server exits and daemon restarts

Maintenance == "maintenance"
Pump == "pump"

ASSUME DeliveryAssumption ==
    /\ Operators # {} /\ IsFiniteSet(Operators)
    /\ {Maintenance, Pump, "hygiene", "free"} \cap Operators = {}
    /\ Profiles \subseteq [mode : {"local_only", "draft_pr"}, ci : BOOLEAN, attest : BOOLEAN]
    /\ \A r \in Profiles : r.mode = "local_only" => ~ r.ci
    /\ NTasks \in Nat \ {0}
    /\ Commands \subseteq {"stop", "drain", "archive", "preserve", "pause"}
    /\ {MaxCommands, MaxMoves, MaxPushes, MaxFailures} \subseteq Nat

Procs == Operators \cup {Maintenance, Pump}
Tasks == 1 .. NTasks
Heads == {"head", "other"}

VARIABLES
    \* ---- durable: the database
    run,            \* runs.state
    version,        \* runs.version
    paused,         \* runs.scheduler_paused
    task,           \* tasks.state
    worktree,       \* worktrees.state of the integration worktree
    pinned,         \* its explicit preservation by the operator
    validation,     \* integration-validation:<run>
    acceptance,     \* acceptance-automation:<run>
    attested,       \* acceptance-attestation:<run>:<head>:<id>
    audit,          \* final-audit-verdict:<run>
    evidence,       \* evidence records
    decision,       \* human-signoff:<run>
    publication,    \* draft-pr:<run> names the integrated head
    auditor,        \* agent_sessions.state of the final auditor
    audits,         \* how many final auditor turns were started
    eligible,       \* run-hygiene-eligibility:<run>
    hygiene,        \* run-hygiene:<run>
    \* ---- the run's configuration, fixed at creation
    profile,
    \* ---- volatile: the tasks of the daemon
    pc,             \* where each call is
    ver,            \* the run version it read
    loc,            \* its other local variables
    lock,           \* Orchestrator::hygiene_lock
    cleanup,        \* where the spawned hygiene task is
    \* ---- external
    turn,           \* the auditor's turn in the App Server
    checkout,       \* HEAD of the integration worktree
    remote,         \* the branch on the remote
    pr,             \* the draft pull request exists
    checks,         \* required checks of each commit
    \* ---- bounds
    commands, moves, pushes, failures

runVars   == <<run, version, paused>>
proofVars == <<validation, acceptance, attested, audit, evidence>>
treeVars  == <<worktree, pinned, eligible, hygiene, lock, cleanup>>
agentVars == <<auditor, audits, turn>>
hubVars   == <<remote, pr, checks, publication>>
procVars  == <<pc, ver, loc>>
bounds    == <<moves, pushes, commands, failures>>
vars == <<runVars, task, proofVars, decision, treeVars, agentVars, profile,
          procVars, checkout, hubVars, bounds>>

-----------------------------------------------------------------------------
(* The run and task state machines, restricted to this phase               *)
RunTerminal == {"COMPLETED", "CANCELED", "ARCHIVED"}
RunProgress ==
    {<<"INTEGRATION_READY", "INTEGRATING">>,
     <<"INTEGRATING", "INTEGRATION_VERIFICATION">>,
     <<"INTEGRATION_VERIFICATION", "FINAL_AUDIT">>,
     <<"FINAL_AUDIT", "HUMAN_REVIEW">>, <<"HUMAN_REVIEW", "PUBLICATION_READY">>,
     <<"PUBLICATION_READY", "DRAFT_PR_CREATED">>,
     <<"PUBLICATION_READY", "COMPLETED">>, <<"DRAFT_PR_CREATED", "COMPLETED">>,
     <<"COMPLETED", "ARCHIVED">>, <<"CANCELED", "ARCHIVED">>}
RunStates ==
    {"INTEGRATION_READY", "INTEGRATING", "INTEGRATION_VERIFICATION", "FINAL_AUDIT",
     "HUMAN_REVIEW", "PUBLICATION_READY", "DRAFT_PR_CREATED", "BLOCKED", "STOPPING"}
        \cup RunTerminal

RunMay(s, n) == \/ s = n
                \/ n \in {"BLOCKED", "STOPPING", "CANCELED"} /\ s \notin RunTerminal
                \/ <<s, n>> \in RunProgress

TaskTerminal == {"CLOSED", "CANCELED"}
TaskMay(s, n) == \/ s = n
                 \/ n = "CANCELED" /\ s \notin TaskTerminal
                 \/ <<s, n>> \in {<<"INTEGRATED", "CI_PROVEN">>,
                                  <<"INTEGRATED", "CLOSED">>,
                                  <<"CI_PROVEN", "CLOSED">>}

(* integration_worktree: an active record of the integrated head            *)
WorktreeActive == worktree \notin {"PRESERVED", "REMOVED"}

-----------------------------------------------------------------------------
(* The signoff packet.  assemble_signoff_packet collects it from the        *)
(* records; its digest stands for its contents.                             *)
NoPacket == [none |-> TRUE]
Packet ==
    [validation |-> validation, acceptance |-> acceptance, attested |-> attested,
     audit |-> audit, evidence |-> {e \in evidence : e.head = "head"},
     decided |-> decision # NoPacket, tasks |-> task]

(* its unproved_claims: of evidence at the exact head, of acceptance that   *)
(* did not pass and of attestations still pending                           *)
Unproved(p) ==
    \/ \E e \in p.evidence : ~ e.proved
    \/ p.acceptance # "success"
    \/ profile.attest /\ ~ p.attested

Claim(c, h, ok) == [claim |-> c, head |-> h, proved |-> ok]

-----------------------------------------------------------------------------
(* Control of a call                                                        *)
NoLoc == [i |-> 1, kind |-> "none", seen |-> NoPacket, before |-> "none",
          observed |-> "none"]

Goto(p, l) == pc' = [pc EXCEPT ![p] = l]
(* its loop counter, and the command or verdict it is about                 *)
Count(p, n) == loc' = [loc EXCEPT ![p].i = n]
Name(p, k) == loc' = [loc EXCEPT ![p].kind = k]
(* a call ends; what its caller reviewed is reviewed anew before another    *)
Return(p) == /\ pc' = [pc EXCEPT ![p] = "idle"]
             /\ ver' = [ver EXCEPT ![p] = 0]
             /\ loc' = [loc EXCEPT ![p] = NoLoc]

(* Mutant: the expected version is not compared.                            *)
transition_run_unversioned(p, next, l) ==
    IF RunMay(run, next)
    THEN /\ run' = next /\ version' = version + 1
         /\ ver' = [ver EXCEPT ![p] = version + 1]
         /\ Goto(p, l) /\ UNCHANGED <<paused, loc>>
    ELSE Return(p) /\ UNCHANGED runVars

(* transition_run with the version the call holds: it takes the run to next *)
(* and the call to l, or fails and ends the call                            *)
transition_run(p, next, l) ==
    IF version = ver[p] /\ RunMay(run, next)
    THEN /\ run' = next /\ version' = version + 1
         /\ ver' = [ver EXCEPT ![p] = version + 1]
         /\ Goto(p, l) /\ UNCHANGED <<paused, loc>>
    ELSE Return(p) /\ UNCHANGED runVars

(* the same as the last statement of the call                               *)
transition_run_last(p, next) ==
    /\ IF version = ver[p] /\ RunMay(run, next)
       THEN run' = next /\ version' = version + 1
       ELSE UNCHANGED <<run, version>>
    /\ Return(p) /\ UNCHANGED paused

Read(p, l) == /\ ver' = [ver EXCEPT ![p] = version]
              /\ Goto(p, l)

notRun     == <<task, proofVars, decision, treeVars, agentVars, profile,
                checkout, hubVars, bounds>>
notProc    == <<runVars, notRun>>
Idle(p)    == pc[p] = "idle"

(* the operator gives a further command                                     *)
Command(c) == /\ c \in Commands /\ commands < MaxCommands
              /\ commands' = commands + 1
otherBounds == <<moves, pushes, failures>>

(* one iteration of a loop over list_tasks that sets every task to s; an    *)
(* illegal transition ends the call, the end of the list leads to l         *)
ForEachTask(p, s, l) ==
    LET i == loc[p].i IN
    IF i > NTasks
    THEN /\ Count(p, 1)
         /\ Goto(p, l) /\ UNCHANGED <<task, ver>>
    ELSE IF TaskMay(task[i], s)
         THEN /\ task' = [task EXCEPT ![i] = s]
              /\ Count(p, i + 1)
              /\ UNCHANGED <<pc, ver>>
         ELSE Return(p) /\ UNCHANGED task

notTask == <<runVars, proofVars, decision, treeVars, agentVars, profile,
             checkout, hubVars, bounds>>

(* the last loop of a completing call: every task CLOSED                    *)
CloseTasks(p) ==
    /\ pc[p] = "close"
    /\ IF loc[p].i > NTasks THEN Return(p) /\ UNCHANGED task
                            ELSE ForEachTask(p, "CLOSED", "close")
    /\ UNCHANGED notTask

-----------------------------------------------------------------------------
(* approve_integration.  The call checks run, head and worktree record ...  *)
ApproveIntegration(p) ==
    /\ Idle(p) /\ run = "INTEGRATION_READY" /\ WorktreeActive
    /\ Read(p, "i_approve") /\ UNCHANGED <<loc, notProc>>

(* ... the checkout after an await, and moves the run on ...                *)
IntegrationApproved(p) ==
    /\ pc[p] = "i_approve"
    /\ IF checkout = "head" THEN transition_run(p, "INTEGRATING", "i_integrating")
                            ELSE Return(p) /\ UNCHANGED runVars
    /\ UNCHANGED notRun

IntegrationVerification(p) ==
    /\ pc[p] = "i_integrating"
    /\ transition_run(p, "INTEGRATION_VERIFICATION", "i_validate")
    /\ UNCHANGED notRun

(* run_integration_validation_gate and run_automated_acceptance: both       *)
(* require the exact clean head, and execute_validator compares the         *)
(* checkout before and after the command.  No validator selected, manual    *)
(* prerequisites and a moved checkout are errors without a record.          *)
ProofStarts(p) ==
    /\ pc[p] \in {"i_validate", "i_accept"}
    /\ \/ /\ checkout = "head"
          /\ Goto(p, IF pc[p] = "i_validate" THEN "i_validating" ELSE "i_accepting")
       \/ Goto(p, "i_block")
    /\ UNCHANGED <<ver, loc, notProc>>

Outcome(ok) == IF ok THEN "success" ELSE "failure"

(* Mutant: a failed validator does not stop the gate.                       *)
ValidationEndsAdvisory(p) ==
    /\ pc[p] = "i_validating"
    /\ \E ok \in {FALSE, checkout = "head"} :
          /\ validation' = [result |-> Outcome(ok), on |-> checkout]
          /\ evidence' = evidence \cup {Claim("validators", "head", ok)}
          /\ Goto(p, "i_accept")
    /\ UNCHANGED <<ver, loc, acceptance, attested, audit, runVars, task, decision,
                   treeVars, agentVars, profile, checkout, hubVars, bounds>>

(* on is the commit the command really ran on when it ended                 *)
ValidationEnds(p) ==
    /\ pc[p] = "i_validating"
    /\ \E ok \in {FALSE, checkout = "head"} :
          /\ validation' = [result |-> Outcome(ok), on |-> checkout]
          /\ evidence' = evidence \cup {Claim("validators", "head", ok)}
          /\ Goto(p, IF ok THEN "i_accept" ELSE "i_block")
    /\ UNCHANGED <<ver, loc, acceptance, attested, audit, runVars, task, decision,
                   treeVars, agentVars, profile, checkout, hubVars, bounds>>

AcceptanceEnds(p) ==
    /\ pc[p] = "i_accepting"
    /\ \E ok \in {FALSE, checkout = "head"} :
          /\ acceptance' = Outcome(ok)
          /\ evidence' = evidence \cup {Claim("acceptance", "head", ok)}
          /\ Goto(p, IF ok THEN "i_final" ELSE "i_block")
    /\ UNCHANGED <<ver, loc, validation, attested, audit, runVars, task, decision,
                   treeVars, agentVars, profile, checkout, hubVars, bounds>>

(* a failed gate, or a checkout that moved, blocks the run                  *)
IntegrationBlocked(p) ==
    /\ pc[p] = "i_block" \/ (pc[p] = "i_final" /\ checkout # "head")
    /\ transition_run_last(p, "BLOCKED")
    /\ UNCHANGED notRun

EnterFinalAudit(p) ==
    /\ pc[p] = "i_final" /\ checkout = "head"
    /\ transition_run(p, "FINAL_AUDIT", "i_launch")
    /\ UNCHANGED notRun

(* every task must be INTEGRATED; launch_final_auditor then needs a slot,   *)
(* the run in FINAL_AUDIT and the checkout at the head, and creates the     *)
(* session                                                                  *)
LaunchFinalAuditor(p) ==
    /\ pc[p] = "i_launch"
    /\ \/ /\ \E t \in Tasks : task[t] # "INTEGRATED"
          /\ Return(p) /\ UNCHANGED auditor
       \/ /\ \A t \in Tasks : task[t] = "INTEGRATED"
          /\ \/ /\ run = "FINAL_AUDIT" /\ checkout = "head"
                /\ auditor' = "STARTING" /\ Goto(p, "i_start")
             \/ Goto(p, "i_unavailable") /\ UNCHANGED auditor
          /\ UNCHANGED <<ver, loc>>
    /\ UNCHANGED <<audits, turn, runVars, task, proofVars, decision, treeVars,
                   profile, checkout, hubVars, bounds>>

(* start_agent, by its outcome: an error means that no turn runs            *)
StartFinalAuditor(p) ==
    /\ pc[p] = "i_start"
    /\ \/ /\ auditor' = "RUNNING" /\ turn' = "open" /\ audits' = audits + 1
          /\ Return(p)
       \/ /\ auditor' = "FAILED" /\ Goto(p, "i_unavailable")
          /\ UNCHANGED <<turn, audits, ver, loc>>
    /\ UNCHANGED <<runVars, task, proofVars, decision, treeVars, profile,
                   checkout, hubVars, bounds>>

(* the failed launch blocks the run at whatever version it now has          *)
AuditUnavailable(p) ==
    \/ /\ pc[p] = "i_unavailable"
       /\ Read(p, "i_block") /\ UNCHANGED <<loc, notProc>>

-----------------------------------------------------------------------------
(* apply_final_audit_verdict, in the event pump.  A verdict for a run that  *)
(* is not in FINAL_AUDIT is ignored.                                        *)
AuditVerdict ==
    /\ Idle(Pump) /\ turn = "open"
    /\ turn' = "answered"
    /\ IF run = "FINAL_AUDIT"
       THEN /\ Read(Pump, "v_record")
            /\ \E v \in {"accept", "reject"} : Name(Pump, v)
       ELSE UNCHANGED procVars
    /\ UNCHANGED <<runVars, auditor, audits, task, proofVars, decision, treeVars,
                   profile, checkout, hubVars, bounds>>

(* After the await: the head must not have moved and the verdict must be    *)
(* well formed; then verdict, evidence and the auditor's state are stored.  *)
AuditVerdictRecorded ==
    /\ pc[Pump] = "v_record"
    /\ \/ /\ WorktreeActive /\ checkout = "head"
          /\ audit' = loc[Pump].kind
          /\ evidence' = evidence \cup {Claim("audit", "head", loc[Pump].kind = "accept")}
          /\ auditor' = "COMPLETED"
          /\ Goto(Pump, "v_decide") /\ UNCHANGED <<ver, loc>>
       \/ Return(Pump) /\ UNCHANGED <<audit, evidence, auditor>>
    /\ UNCHANGED <<validation, acceptance, attested, runVars, audits, turn, task,
                   decision, treeVars, profile, checkout, hubVars, bounds>>

(* An accepted head goes to human review; a rejected one is blocked, since  *)
(* schedule_execution_signoff_remediation always refuses.                   *)
AuditDecided ==
    /\ pc[Pump] = "v_decide"
    /\ transition_run_last(Pump, IF audit = "accept" THEN "HUMAN_REVIEW" ELSE "BLOCKED")
    /\ UNCHANGED notRun

(* Mutant: only a failed turn blocks the run.                               *)
AuditorTurnCompletedTrusted ==
    /\ Idle(Pump) /\ turn \in {"open", "answered"}
    /\ turn' = "over"
    /\ \E status \in {"completed", "failed"} :
       /\ auditor' = CASE run = "STOPPING"     -> "CANCELED"
                       [] status = "failed"    -> "FAILED"
                       [] OTHER                -> "TURN_COMPLETE"
       /\ CASE run = "STOPPING"    -> Goto(Pump, "s_idle") /\ UNCHANGED ver
            [] run = "FINAL_AUDIT" /\ status = "failed" -> Read(Pump, "i_block")
            [] OTHER               -> UNCHANGED <<pc, ver>>
    /\ UNCHANGED <<loc, runVars, audits, task, proofVars, decision, treeVars,
                   profile, checkout, hubVars, bounds>>

(* turn/completed of the auditor: a stopping run finishes stopping; in      *)
(* FINAL_AUDIT a failed turn, or one without a valid verdict, blocks.       *)
AuditorTurnCompleted ==
    /\ Idle(Pump) /\ turn \in {"open", "answered"}
    /\ turn' = "over"
    /\ \E status \in {"completed", "failed"} :
       /\ auditor' = CASE run = "STOPPING"     -> "CANCELED"
                       [] status = "failed"    -> "FAILED"
                       [] run = "FINAL_AUDIT"  -> "FAILED"
                       [] OTHER                -> "TURN_COMPLETE"
       /\ CASE run = "STOPPING"    -> Goto(Pump, "s_idle") /\ UNCHANGED ver
            [] run = "FINAL_AUDIT" -> Read(Pump, "i_block")
            [] OTHER               -> UNCHANGED <<pc, ver>>
    /\ UNCHANGED <<loc, runVars, audits, task, proofVars, decision, treeVars,
                   profile, checkout, hubVars, bounds>>

-----------------------------------------------------------------------------
(* The operator reads the packet that a decision will name by its digest.   *)
ReviewPacket(p) ==
    /\ Idle(p) /\ run = "HUMAN_REVIEW" /\ loc[p].seen # Packet
    /\ loc' = [loc EXCEPT ![p].seen = Packet]
    /\ UNCHANGED <<pc, ver, notProc>>

(* approve_signoff, attest_acceptance and request_signoff_changes begin     *)
(* alike: HUMAN_REVIEW, the integrated head, an active worktree record      *)
SignoffCall(p) ==
    /\ Idle(p) /\ run = "HUMAN_REVIEW" /\ WorktreeActive
    /\ loc[p].seen # NoPacket
    /\ \E l \in {"h_sign", "h_attest", "h_reject"} : Read(p, l)
    /\ UNCHANGED <<loc, notProc>>

(* Mutant: the digest of the packet is not compared.                        *)
checked_signoff_packet_head_only(p) == checkout = "head"

(* checked_signoff_packet, after the await                                  *)
checked_signoff_packet(p) == checkout = "head" /\ Packet = loc[p].seen

(* approve_signoff: nothing unproved; the decision is stored first ...      *)
SignoffApproved(p) ==
    /\ pc[p] = "h_sign"
    /\ IF checked_signoff_packet(p) /\ ~ Unproved(Packet)
       THEN /\ decision' = loc[p].seen
            /\ Goto(p, "h_ready") /\ UNCHANGED <<ver, loc>>
       ELSE Return(p) /\ UNCHANGED decision
    /\ UNCHANGED <<runVars, task, proofVars, treeVars, agentVars, profile,
                   checkout, hubVars, bounds>>

(* ... then the run is ready for publication, or complete if it is local    *)
PublicationReady(p) ==
    /\ pc[p] = "h_ready"
    /\ IF profile.mode = "local_only"
       THEN transition_run(p, "PUBLICATION_READY", "complete")
       ELSE transition_run_last(p, "PUBLICATION_READY")
    /\ UNCHANGED notRun

(* the transition to COMPLETED of a signed, published or proven run         *)
Complete(p) ==
    /\ pc[p] = "complete"
    /\ transition_run(p, "COMPLETED", "close")
    /\ UNCHANGED notRun

(* attest_acceptance: only a pending required attestation                   *)
AcceptanceAttested(p) ==
    /\ pc[p] = "h_attest"
    /\ IF checked_signoff_packet(p) /\ profile.attest /\ ~ attested
       THEN /\ attested' = TRUE
            /\ evidence' = evidence \cup {Claim("attestation", "head", TRUE)}
       ELSE UNCHANGED <<attested, evidence>>
    /\ Return(p)
    /\ UNCHANGED <<validation, acceptance, audit, runVars, task, decision, treeVars,
                   agentVars, profile, checkout, hubVars, bounds>>

(* request_signoff_changes: the human action is recorded, the remediation   *)
(* that should follow is refused, and the run stays in HUMAN_REVIEW         *)
SignoffChangesRefused(p) ==
    /\ pc[p] = "h_reject"
    /\ Return(p) /\ UNCHANGED notProc

-----------------------------------------------------------------------------
(* publish_draft_pr                                                         *)
PublishDraftPr(p) ==
    /\ Idle(p) /\ run = "PUBLICATION_READY" /\ profile.mode = "draft_pr"
    /\ WorktreeActive
    /\ Read(p, "p_check") /\ UNCHANGED <<loc, notProc>>

(* push_exact compares HEAD with the reviewed head ...                      *)
PushChecked(p) ==
    /\ pc[p] = "p_check"
    /\ IF checkout = "head" THEN Goto(p, "p_push") /\ UNCHANGED <<ver, loc>>
                            ELSE Return(p)
    /\ UNCHANGED notProc

(* ... and pushes whatever HEAD is by then, as a fast-forward               *)
Push(p) ==
    /\ pc[p] = "p_push"
    /\ \/ /\ remote = "other" => checkout = "other"
          /\ remote' = checkout
          /\ Goto(p, "p_create") /\ UNCHANGED <<ver, loc>>
       \/ Return(p) /\ UNCHANGED remote
    /\ UNCHANGED <<pr, checks, publication, runVars, task, proofVars, decision, treeVars,
                   agentVars, profile, checkout, bounds>>

(* gh pr create: one pull request per branch; it may fail, also after the   *)
(* request was made on the other side                                       *)
CreateDraftPr(p) ==
    /\ pc[p] = "p_create"
    /\ \/ /\ ~ pr /\ pr' = TRUE
          /\ \/ Goto(p, "p_record") /\ UNCHANGED <<ver, loc>>
             \/ Return(p)
       \/ Return(p) /\ UNCHANGED pr
    /\ UNCHANGED <<remote, checks, publication, runVars, task, proofVars, decision,
                   treeVars, agentVars, profile, checkout, bounds>>

PublicationRecorded(p) ==
    /\ pc[p] = "p_record"
    /\ publication' = TRUE
    /\ Goto(p, "p_created") /\ UNCHANGED <<ver, loc>>
    /\ UNCHANGED <<remote, pr, checks, runVars, task, proofVars, decision, treeVars,
                   agentVars, profile, checkout, bounds>>

(* DRAFT_PR_CREATED; without required CI the run completes at once          *)
DraftPrCreated(p) ==
    /\ pc[p] = "p_created"
    /\ IF profile.ci THEN transition_run_last(p, "DRAFT_PR_CREATED")
                     ELSE transition_run(p, "DRAFT_PR_CREATED", "complete")
    /\ UNCHANGED notRun

-----------------------------------------------------------------------------
(* refresh_draft_pr_ci, called by the operator and polled by maintenance    *)
RefreshCi(p) ==
    /\ Idle(p) /\ run = "DRAFT_PR_CREATED" /\ profile.ci
    /\ p = Maintenance => ~ paused
    /\ publication /\ WorktreeActive
    /\ Read(p, "c_head")
    /\ loc' = [loc EXCEPT ![p].before = checkout]
    /\ UNCHANGED notProc

(* the command asks first for the head of the pull request ...              *)
CiHeadObserved(p) ==
    /\ pc[p] = "c_head"
    /\ \E h \in {remote, "none"} : loc' = [loc EXCEPT ![p].observed = h]
    /\ Goto(p, "c_checks") /\ UNCHANGED <<ver, notProc>>

(* Mutant: only a failed check counts against the head.                     *)
classify_pending_as_pass(p) ==
    CASE loc[p].before # checkout      -> "source_mutated"
      [] loc[p].observed = "none"      -> "remote_head_unavailable"
      [] loc[p].observed # "head"      -> "head_mismatch"
      [] OTHER                         -> IF checks[remote] = "fail" THEN "fail" ELSE "pass"

(* classify_required_ci_observation: an unchanged checkout, the integrated  *)
(* head on the remote and every required check passed                       *)
classify_required_ci_observation(p) ==
    CASE loc[p].before # checkout      -> "source_mutated"
      [] loc[p].observed = "none"      -> "remote_head_unavailable"
      [] loc[p].observed # "head"      -> "head_mismatch"
      [] OTHER                         -> checks[remote]

(* ... and then for its checks.  The evidence record of the observation is  *)
(* not read again in this phase.                                            *)
CiChecksObserved(p) ==
    /\ pc[p] = "c_checks"
    /\ IF classify_required_ci_observation(p) = "pass"
       THEN Goto(p, "c_prove") /\ UNCHANGED <<ver, loc>>
       ELSE Return(p)
    /\ UNCHANGED notProc

(* a success marks every task CI_PROVEN before it completes the run         *)
CiProven(p) ==
    /\ pc[p] = "c_prove"
    /\ ForEachTask(p, "CI_PROVEN", "complete")
    /\ UNCHANGED notTask

-----------------------------------------------------------------------------
(* stop_run ("stop" interrupts turns, "drain" lets them end), also as the   *)
(* first half of archive_run on a live run                                  *)
StopRun(p) ==
    /\ Idle(p) /\ run \notin RunTerminal
    /\ \E k \in {"stop", "drain", "archive"} :
          Command(k) /\ Name(p, k)
    /\ Read(p, "s_stop")
    /\ UNCHANGED <<runVars, task, proofVars, decision, treeVars, agentVars,
                   profile, checkout, hubVars, otherBounds>>

Stopping(p) ==
    /\ pc[p] = "s_stop"
    /\ transition_run(p, "STOPPING", "s_pause") /\ UNCHANGED notRun

(* set_scheduler_paused returns the version that the rest relies on         *)
StopPauses(p) ==
    /\ pc[p] = "s_pause"
    /\ paused' = TRUE /\ version' = version + 1
    /\ ver' = [ver EXCEPT ![p] = version + 1]
    /\ Goto(p, IF loc[p].kind = "drain" THEN "s_idle" ELSE "s_interrupt")
    /\ UNCHANGED <<run, loc, notRun>>

(* interrupt_agent on the auditor's active turn; failures are logged        *)
StopInterrupts(p) ==
    /\ pc[p] = "s_interrupt"
    /\ auditor' \in {auditor} \cup (IF turn \in {"open", "answered"}
                                    THEN {"INTERRUPTED"} ELSE {})
    /\ Goto(p, "s_cancel")
    /\ UNCHANGED <<ver, loc, runVars, audits, turn, task, proofVars, decision, treeVars,
                   profile, checkout, hubVars, bounds>>

(* finish_stopping_run_if_idle: only a stopping run without active turns    *)
FinishStoppingIfIdle(p) ==
    /\ pc[p] = "s_idle"
    /\ IF run = "STOPPING" /\ turn \notin {"open", "answered"}
       THEN Read(p, "s_cancel") /\ UNCHANGED loc
       ELSE Return(p)
    /\ UNCHANGED notProc

(* Mutant: only tasks that are not yet integrated are canceled.             *)
CancelSkipsProven(s) == s = "CI_PROVEN" \/ s \in TaskTerminal

CancelSkips(s) == s \in TaskTerminal

(* cancel_run_work: every task that is not terminal, one at a time ...      *)
CancelTask(p) ==
    /\ pc[p] = "s_cancel" /\ loc[p].i <= NTasks
    /\ LET i == loc[p].i
       IN task' = [task EXCEPT ![i] = IF CancelSkips(@) THEN @ ELSE "CANCELED"]
    /\ Count(p, loc[p].i + 1)
    /\ UNCHANGED <<pc, ver, notTask>>

(* Mutant: worktrees are marked as the tasks are.                           *)
CancelWorktreesAsTasks(p) ==
    /\ pc[p] = "s_cancel" /\ loc[p].i > NTasks
    /\ worktree' = IF worktree = "REMOVED" THEN worktree ELSE "CANCELED"
    /\ Goto(p, "s_canceled")
    /\ UNCHANGED <<ver, loc, pinned, eligible, hygiene, lock, cleanup, runVars, task,
                   proofVars, decision, agentVars, profile, checkout, hubVars, bounds>>

(* ... and then the worktrees                                               *)
CancelWorktrees(p) ==
    /\ pc[p] = "s_cancel" /\ loc[p].i > NTasks
    /\ worktree' = IF worktree = "REMOVED" THEN worktree ELSE "PRESERVED"
    /\ Goto(p, "s_canceled")
    /\ UNCHANGED <<ver, loc, pinned, eligible, hygiene, lock, cleanup, runVars, task,
                   proofVars, decision, agentVars, profile, checkout, hubVars,
                   bounds>>

Canceled(p) ==
    /\ pc[p] = "s_canceled"
    /\ IF loc[p].kind = "archive" THEN transition_run(p, "CANCELED", "a_archive")
                                  ELSE transition_run_last(p, "CANCELED")
    /\ UNCHANGED notRun

(* archive_run on a finished run                                            *)
ArchiveRun(p) ==
    /\ Idle(p) /\ Command("archive") /\ run \in {"COMPLETED", "CANCELED"}
    /\ Read(p, "a_archive")
    /\ UNCHANGED <<loc, runVars, task, proofVars, decision, treeVars, agentVars,
                   profile, checkout, hubVars, otherBounds>>

(* Mutant: the hygiene eligibility of a completed run is not kept.          *)
ArchivedUnmarked(p) ==
    /\ pc[p] = "a_archive"
    /\ transition_run_last(p, "ARCHIVED")
    /\ UNCHANGED notRun

(* a completed run keeps its claim to be cleaned up, then it is archived    *)
Archived(p) ==
    /\ pc[p] = "a_archive"
    /\ eligible' = (eligible \/ run = "COMPLETED")
    /\ transition_run_last(p, "ARCHIVED")
    /\ UNCHANGED <<worktree, pinned, hygiene, lock, cleanup, task, proofVars, decision,
                   agentVars, profile, checkout, hubVars, bounds>>

(* set_scheduler_paused and resume_scheduler                                *)
PauseScheduler ==
    /\ Command("pause")
    /\ paused' = ~ paused /\ version' = version + 1
    /\ UNCHANGED <<run, task, proofVars, decision, treeVars, agentVars, profile,
                   procVars, checkout, hubVars, otherBounds>>

-----------------------------------------------------------------------------
(* preserve_worktree, under hygiene_lock: the record ...                    *)
PreserveWorktree(p) ==
    /\ Idle(p) /\ Command("preserve") /\ lock = "free" /\ ~ pinned
    /\ worktree # "REMOVED"
    /\ lock' = p /\ worktree' = "PRESERVED"
    /\ Goto(p, "w_pin")
    /\ UNCHANGED <<ver, loc, pinned, eligible, hygiene, cleanup, runVars, task,
                   proofVars, decision, agentVars, profile, checkout, hubVars,
                   otherBounds>>

(* ... then the marker that hygiene respects                                *)
PinWorktree(p) ==
    /\ pc[p] = "w_pin"
    /\ pinned' = TRUE /\ lock' = "free"
    /\ Return(p)
    /\ UNCHANGED <<worktree, eligible, hygiene, cleanup, runVars, task, proofVars,
                   decision, agentVars, profile, checkout, hubVars, bounds>>

(* run_is_hygiene_eligible, for a run created with the hygiene policy       *)
HygieneEligible == run = "COMPLETED" \/ (run = "ARCHIVED" /\ eligible)
HygieneDone == hygiene \in {"clean", "attention_required"}

(* schedule_completed_run_hygiene: spawned at completion and by every       *)
(* maintenance tick; it gives up when the lock is taken                     *)
HygieneStarts ==
    /\ cleanup = "idle" /\ lock = "free"
    /\ HygieneEligible /\ ~ HygieneDone
    /\ lock' = "hygiene" /\ cleanup' = "removing" /\ hygiene' = "running"
    /\ UNCHANGED <<worktree, pinned, eligible, procVars, runVars, task, proofVars,
                   decision, agentVars, profile, checkout, hubVars, bounds>>

ActiveAuditor == auditor \in {"STARTING", "RUNNING"}

(* Mutant: the operator's preservation is not looked up.                    *)
KeptUnlessActive == ActiveAuditor \/ checkout # "head"

(* remove_disposable_worktrees keeps a worktree that is explicitly          *)
(* preserved, owned by an active agent or at an unrecorded commit           *)
Kept == pinned \/ ActiveAuditor \/ checkout # "head"

HygieneRemoves ==
    /\ cleanup = "removing"
    /\ \/ /\ worktree = "REMOVED" \/ Kept
          /\ cleanup' = IF worktree # "REMOVED" /\ ~ pinned THEN "retained" ELSE "report"
          /\ UNCHANGED worktree
       \/ /\ worktree # "REMOVED" /\ ~ Kept
          /\ \/ worktree' = "REMOVED" /\ cleanup' = "report"
             \/ UNCHANGED worktree /\ cleanup' = "retained"
    /\ UNCHANGED <<pinned, eligible, hygiene, lock, procVars, runVars, task, proofVars,
                   decision, agentVars, profile, checkout, hubVars, bounds>>

(* the report: clean only if nothing was retained and the primary checkout  *)
(* is clean                                                                 *)
HygieneReports ==
    /\ cleanup \in {"report", "retained"}
    /\ hygiene' \in IF cleanup = "report" THEN {"clean", "attention_required"}
                                          ELSE {"attention_required"}
    /\ lock' = "free" /\ cleanup' = "idle"
    /\ UNCHANGED <<worktree, pinned, eligible, procVars, runVars, task, proofVars,
                   decision, agentVars, profile, checkout, hubVars, bounds>>

(* an error while the primary checkout is inspected leaves the status       *)
(* "running" for a later tick; errors of one worktree only retain it        *)
HygieneFails ==
    /\ cleanup \in {"report", "retained"}
    /\ lock' = "free" /\ cleanup' = "idle"
    /\ UNCHANGED <<worktree, pinned, eligible, hygiene, procVars, runVars, task,
                   proofVars, decision, agentVars, profile, checkout, hubVars,
                   bounds>>

-----------------------------------------------------------------------------
(* reconcile_orphaned_sessions: a session that had not ended is STALLED     *)
Orphaned(a) == IF a \in {"STARTING", "RUNNING"} THEN "STALLED" ELSE a

ServerExit ==
    /\ failures < MaxFailures /\ Idle(Pump)
    /\ failures' = failures + 1
    /\ auditor' = Orphaned(auditor)
    /\ turn' = IF turn = "none" THEN turn ELSE "over"
    /\ UNCHANGED <<audits, procVars, runVars, task, proofVars, decision, treeVars,
                   profile, checkout, hubVars, moves, pushes, commands>>

(* a restart of the daemon ends every call and releases every lock          *)
CrashRestart ==
    /\ failures < MaxFailures
    /\ failures' = failures + 1
    /\ auditor' = Orphaned(auditor)
    /\ turn' = IF turn = "none" THEN turn ELSE "over"
    /\ pc' = [p \in Procs |-> "idle"] /\ ver' = [p \in Procs |-> 0]
    /\ loc' = [p \in Procs |-> NoLoc]
    /\ lock' = "free" /\ cleanup' = "idle"
    /\ UNCHANGED <<audits, worktree, pinned, eligible, hygiene, runVars, task, proofVars,
                   decision, profile, checkout, hubVars, moves, pushes, commands>>

(* External: somebody commits in, or resets, the integration worktree.      *)
MoveCheckout ==
    /\ moves < MaxMoves /\ worktree # "REMOVED"
    /\ moves' = moves + 1
    /\ checkout' \in Heads \ {checkout}
    /\ UNCHANGED <<procVars, runVars, task, proofVars, decision, treeVars, agentVars,
                   profile, hubVars, pushes, commands, failures>>

(* External: somebody pushes another commit to the pull request's branch.   *)
(* Without required CI nothing looks at branch and checks any more.         *)
ForeignPush ==
    /\ pushes < MaxPushes /\ pr /\ remote = "head" /\ profile.ci
    /\ pushes' = pushes + 1
    /\ remote' = "other"
    /\ UNCHANGED <<pr, checks, publication, procVars, runVars, task, proofVars, decision,
                   treeVars, agentVars, profile, checkout, moves, commands, failures>>

(* External: the required checks of the pull request's head finish.         *)
ChecksFinish ==
    /\ pr /\ profile.ci /\ checks[remote] = "pending"
    /\ \E r \in {"pass", "fail"} : checks' = [checks EXCEPT ![remote] = r]
    /\ UNCHANGED <<remote, pr, publication, procVars, runVars, task, proofVars, decision,
                   treeVars, agentVars, profile, checkout, bounds>>

-----------------------------------------------------------------------------
Init ==
    /\ run = "INTEGRATION_READY" /\ version = 0 /\ paused = FALSE
    /\ task = [t \in Tasks |-> "INTEGRATED"]
    /\ worktree = "REVIEW_READY" /\ pinned = FALSE
    /\ validation = [result |-> "none", on |-> "none"] /\ acceptance = "none"
    /\ attested = FALSE /\ audit = "none" /\ evidence = {} /\ decision = NoPacket
    /\ publication = FALSE /\ auditor = "none" /\ audits = 0
    /\ eligible = FALSE /\ hygiene = "none"
    /\ profile \in Profiles
    /\ pc = [p \in Procs |-> "idle"] /\ ver = [p \in Procs |-> 0]
    /\ loc = [p \in Procs |-> NoLoc]
    /\ lock = "free" /\ cleanup = "idle"
    /\ turn = "none" /\ checkout = "head" /\ remote = "none" /\ pr = FALSE
    /\ checks = [h \in Heads |-> "pending"]
    /\ moves = 0 /\ pushes = 0 /\ commands = 0 /\ failures = 0

IntegrationStep(p) ==
    \/ IntegrationApproved(p) \/ IntegrationVerification(p) \/ ProofStarts(p)
    \/ ValidationEnds(p) \/ AcceptanceEnds(p) \/ IntegrationBlocked(p)
    \/ EnterFinalAudit(p) \/ LaunchFinalAuditor(p) \/ StartFinalAuditor(p)
    \/ AuditUnavailable(p)

DeliveryStep(p) ==
    \/ SignoffApproved(p) \/ PublicationReady(p) \/ AcceptanceAttested(p)
    \/ SignoffChangesRefused(p) \/ PushChecked(p) \/ Push(p) \/ CreateDraftPr(p)
    \/ PublicationRecorded(p) \/ DraftPrCreated(p) \/ CiHeadObserved(p)
    \/ CiChecksObserved(p) \/ CiProven(p) \/ Complete(p) \/ CloseTasks(p)

StopStep(p) ==
    \/ Stopping(p) \/ StopPauses(p) \/ StopInterrupts(p) \/ FinishStoppingIfIdle(p)
    \/ CancelTask(p) \/ CancelWorktrees(p) \/ Canceled(p) \/ Archived(p)

(* a call that was begun goes on                                            *)
CallStep(p) == IntegrationStep(p) \/ DeliveryStep(p) \/ StopStep(p) \/ PinWorktree(p)

OperatorCall(p) ==
    \/ ApproveIntegration(p) \/ ReviewPacket(p) \/ SignoffCall(p) \/ PublishDraftPr(p)
    \/ RefreshCi(p) \/ StopRun(p) \/ ArchiveRun(p) \/ PreserveWorktree(p)

PumpStep == AuditVerdict \/ AuditVerdictRecorded \/ AuditDecided \/ AuditorTurnCompleted

HygieneTask == HygieneStarts \/ HygieneRemoves \/ HygieneReports \/ HygieneFails

Environment ==
    \/ ServerExit \/ CrashRestart \/ MoveCheckout \/ ForeignPush \/ ChecksFinish

Next ==
    \/ \E p \in Operators : OperatorCall(p)
    \/ RefreshCi(Maintenance)
    \/ PauseScheduler
    \/ \E p \in Procs : CallStep(p)
    \/ PumpStep
    \/ HygieneTask
    \/ Environment

Spec == Init /\ [][Next]_vars

(* Begun calls and the pump go on (tokio), the auditor's turn ends, the     *)
(* maintenance loop schedules hygiene for ever and Git does not fail for    *)
(* ever.  The operator, the remote and the outside world owe nothing.       *)
FairSpec ==
    /\ Spec
    /\ \A p \in Procs : WF_vars(CallStep(p))
    /\ WF_vars(PumpStep)
    /\ SF_vars(HygieneStarts) /\ WF_vars(HygieneRemoves) /\ SF_vars(HygieneReports)

-----------------------------------------------------------------------------
Locs ==
    {"idle", "i_approve", "i_integrating", "i_validate", "i_validating", "i_accept",
     "i_accepting", "i_block", "i_final", "i_launch", "i_start", "i_unavailable",
     "v_record", "v_decide", "h_sign", "h_attest", "h_reject", "h_ready", "complete",
     "close", "p_check", "p_push", "p_create", "p_record", "p_created", "c_head",
     "c_checks", "c_prove", "s_stop", "s_pause", "s_interrupt", "s_idle", "s_cancel",
     "s_canceled", "a_archive", "w_pin"}
TaskStates  == {"INTEGRATED", "CI_PROVEN", "CLOSED", "CANCELED"}
Results     == {"none", "success", "failure"}
Validations == [result : Results, on : Heads \cup {"none"}]
Verdicts    == {"none", "accept", "reject"}
Claims      == [claim : {"validators", "acceptance", "audit", "attestation"},
                head : Heads, proved : BOOLEAN]
Packets ==
    [validation : Validations, acceptance : Results, attested : BOOLEAN,
     audit : Verdicts, evidence : SUBSET Claims, decided : BOOLEAN,
     tasks : [Tasks -> TaskStates]]
Locals ==
    [i : Nat \ {0}, kind : Verdicts \cup {"stop", "drain", "archive"},
     seen : Packets \cup {NoPacket}, before : Heads \cup {"none"},
     observed : Heads \cup {"none"}]

RunTypes ==
    /\ run \in RunStates /\ version \in Nat /\ paused \in BOOLEAN
    /\ task \in [Tasks -> TaskStates] /\ profile \in Profiles
    /\ audits \in Nat /\ turn \in {"none", "open", "answered", "over"}
    /\ auditor \in {"none", "STARTING", "RUNNING", "COMPLETED", "TURN_COMPLETE", "FAILED",
                    "STALLED", "CANCELED", "INTERRUPTED"}
    /\ commands \in Nat /\ moves \in Nat /\ pushes \in Nat /\ failures \in Nat

ProofTypes ==
    /\ validation \in Validations /\ acceptance \in Results /\ audit \in Verdicts
    /\ attested \in BOOLEAN /\ evidence \in SUBSET Claims
    /\ decision \in Packets \cup {NoPacket}

TreeTypes ==
    /\ worktree \in {"REVIEW_READY", "PRESERVED", "REMOVED"}
    /\ pinned \in BOOLEAN /\ eligible \in BOOLEAN
    /\ hygiene \in {"none", "running", "clean", "attention_required"}
    /\ lock \in {"free", "hygiene"} \cup Operators
    /\ cleanup \in {"idle", "removing", "retained", "report"}
    /\ checkout \in Heads /\ remote \in Heads \cup {"none"}
    /\ pr \in BOOLEAN /\ publication \in BOOLEAN
    /\ checks \in [Heads -> {"pending", "pass", "fail"}]

(* a call holds a version the run has had, the pump no command              *)
CallTypes ==
    /\ pc \in [Procs -> Locs] /\ ver \in [Procs -> Nat] /\ loc \in [Procs -> Locals]
    /\ \A p \in Procs : ver[p] <= version
    /\ loc[Pump].kind \in Verdicts

(* Every variable has its type: states are states of the domain, no call    *)
(* holds a version the run has not had, and a packet is made of records.    *)
TypeOK == RunTypes /\ ProofTypes /\ TreeTypes /\ CallTypes

Reviewed == {"HUMAN_REVIEW", "PUBLICATION_READY", "DRAFT_PR_CREATED", "COMPLETED"}
Signed == {"PUBLICATION_READY", "DRAFT_PR_CREATED", "COMPLETED"}

(* FINAL_AUDIT and everything after it means that validators and automated  *)
(* acceptance succeeded on the integrated head itself, whatever happened to *)
(* the checkout while they ran (approve_integration, execute_validator).    *)
AuditedHeadProven ==
    run \in {"FINAL_AUDIT"} \cup Reviewed =>
        /\ validation = [result |-> "success", on |-> "head"]
        /\ acceptance = "success"

(* A run is ready for publication, published or complete only with an       *)
(* accepting audit and a human decision on a packet without unproved        *)
(* claims that already contained that audit (approve_signoff).              *)
SignedPacketProven ==
    run \in Signed =>
        /\ audit = "accept"
        /\ decision # NoPacket
        /\ decision.audit = "accept" /\ ~ Unproved(decision)

(* Concurrent approvals of one candidate start at most one final auditor.   *)
OneFinalAudit == audits <= 1

(* Whatever stop, CI poll, publication and signoff do at the same time, run *)
(* and tasks tell one story: a canceled run has only canceled tasks, a      *)
(* completed one has none, and no task is CLOSED outside a completed run.   *)
RunAndTasksAgree ==
    /\ run = "CANCELED" => \A t \in Tasks : task[t] = "CANCELED"
    /\ run = "COMPLETED" => \A t \in Tasks : task[t] # "CANCELED"
    /\ (\E t \in Tasks : task[t] = "CLOSED") => run \in {"COMPLETED", "ARCHIVED"}

(* Hygiene never removes a worktree the operator has preserved.             *)
PreservedNeverRemoved == pinned => worktree # "REMOVED"

(* Tasks are CI_PROVEN, and a run that requires CI is complete, only if the *)
(* required checks passed on the integrated head: "the controller must      *)
(* observe the draft PR still points at the integration SHA and every       *)
(* required check passes on that SHA".                                      *)
CiProvenOnHead ==
    (\E t \in Tasks : task[t] = "CI_PROVEN") \/ (run = "COMPLETED" /\ profile.ci)
        => checks["head"] = "pass"

(* As long as nobody else moves branch or checkout, that is so.             *)
CiProvenUndisturbed == moves = 0 /\ pushes = 0 => CiProvenOnHead

(* The state of a delivery is consistent whoever else acts on the run: one  *)
(* audit, one story of run and tasks, CI proven on the integrated head.     *)
DeliveryConsistent == OneFinalAudit /\ RunAndTasksAgree /\ CiProvenUndisturbed

(* What is audited and what is kept is what was meant, although checkout    *)
(* and branch move: audited heads are proven, preserved worktrees survive.  *)
HeadsKept == AuditedHeadProven /\ PreservedNeverRemoved /\ RunAndTasksAgree

(* the call that would block the run holds a version that has moved         *)
BlockOvertaken == \E p \in Procs : pc[p] = "i_block" /\ ver[p] # version

(* A final audit ends, with a verdict or BLOCKED, unless a restart ends the *)
(* call that launches it or its session is lost with the App Server (the    *)
(* code draws no conclusion from either, reconcile_orphaned_sessions), or a *)
(* pause or resume moves the version between the read and the transition    *)
(* to BLOCKED, which then fails and is not tried again.                     *)
AuditEnds ==
    (run = "FINAL_AUDIT" /\ \E p \in Procs : pc[p] = "i_launch")
        ~> (run # "FINAL_AUDIT" \/ failures > 0 \/ BlockOvertaken)

(* Refuted: a pause at that moment leaves the run in FINAL_AUDIT for ever.  *)
AuditAlwaysEnds == (run = "FINAL_AUDIT") ~> (run # "FINAL_AUDIT" \/ failures > 0)

(* The worktree of a completed run is tidied up, also if the run is         *)
(* archived first, the operator holds the lock or an attempt fails.         *)
CompletedRunTidied == (run = "COMPLETED") ~> HygieneDone

(* Neither an audit nor the tidying of a completed run is left undone.      *)
DeliveryEnds == AuditEnds /\ CompletedRunTidied
=============================================================================
