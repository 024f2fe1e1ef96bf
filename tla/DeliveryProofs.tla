--------------------------- MODULE DeliveryProofs ---------------------------
(***************************************************************************)
(* A delivery is consistent for every number of concurrent operator calls, *)
(* tasks, commands and failures.  No call holds a lock across its awaits;  *)
(* what the proofs rest on is that the run row moves forward only, that    *)
(* one approval can win the version of INTEGRATION_READY, and that stop    *)
(* and completion exclude each other through the run's state.              *)
(*                                                                         *)
(* First, how a step moves the run row, the calls and the records, and     *)
(* that every variable keeps its type: the invariants are proved from      *)
(* these facts alone, not from the sixty actions.                          *)
(***************************************************************************)
EXTENDS Delivery, TLAPS

Early    == {"INTEGRATION_READY", "INTEGRATING", "INTEGRATION_VERIFICATION", "FINAL_AUDIT"}
Dying    == {"STOPPING", "BLOCKED", "CANCELED", "ARCHIVED"}
Finished == {"COMPLETED", "ARCHIVED"}
Proving  == {"i_integrating", "i_validate", "i_validating", "i_accept", "i_accepting", "i_final"}
Chain    == Proving \cup {"i_launch", "i_start"}
Verdict  == {"v_record", "v_decide"}
StopLocs == {"s_pause", "s_interrupt", "s_idle", "s_cancel", "s_canceled"}
Counting == {"c_prove", "close", "s_cancel", "s_canceled", "a_archive"}


(* Another call keeps its place, unless the daemon restarts.                *)
Same(q) == pc'[q] = pc[q] /\ ver'[q] = ver[q] /\ loc'[q] = loc[q]

-----------------------------------------------------------------------------
(* How the state moves, whatever the step.                                  *)

(* Who writes the records of the proofs, the decision, the tasks, the count *)
(* of audits, the worktree and what is outside.                             *)
LEMMA Writers ==
    ASSUME Next
    PROVE  /\ UNCHANGED profile
           /\ \/ UNCHANGED <<validation, acceptance>>
              \/ \E p \in Procs : ValidationEnds(p) \/ AcceptanceEnds(p)
           /\ UNCHANGED audit \/ AuditVerdictRecorded
           /\ UNCHANGED <<attested, evidence>> \/ AuditVerdictRecorded
              \/ \E p \in Procs : ValidationEnds(p) \/ AcceptanceEnds(p) \/ AcceptanceAttested(p)
           /\ UNCHANGED decision \/ \E p \in Procs : SignoffApproved(p)
           /\ UNCHANGED audits \/ \E p \in Procs : StartFinalAuditor(p)
           /\ UNCHANGED task \/ \E p \in Procs : CiProven(p) \/ CloseTasks(p) \/ CancelTask(p)
           /\ \/ UNCHANGED <<worktree, pinned, lock, cleanup>> \/ HygieneTask \/ CrashRestart
              \/ \E p \in Procs : CancelWorktrees(p) \/ PinWorktree(p) \/ PreserveWorktree(p)
           /\ \/ UNCHANGED <<checkout, remote, checks, moves, pushes>>
              \/ MoveCheckout \/ ForeignPush \/ ChecksFinish \/ \E p \in Procs : Push(p)
  <1> USE DEF runVars, proofVars, treeVars, agentVars, hubVars, bounds, otherBounds, notRun,
              notProc, notTask, Procs
  <1> DEFINE Quiet == UNCHANGED <<profile, proofVars, decision, audits, task, worktree, pinned,
                                  lock, cleanup, checkout, remote, checks, moves, pushes>>
  <1>1. ASSUME NEW p \in Procs, IntegrationStep(p)
        PROVE  \/ Quiet
               \/ /\ ValidationEnds(p) \/ AcceptanceEnds(p)
                  /\ UNCHANGED <<profile, audit, decision, audits, task, treeVars, checkout,
                                 hubVars, bounds>>
               \/ /\ StartFinalAuditor(p)
                  /\ UNCHANGED <<profile, proofVars, decision, task, treeVars, checkout,
                                 hubVars, bounds>>
    BY <1>1 DEF IntegrationStep, IntegrationApproved, IntegrationVerification, ProofStarts,
         ValidationEnds, AcceptanceEnds, IntegrationBlocked, EnterFinalAudit,
         LaunchFinalAuditor, StartFinalAuditor, AuditUnavailable
  <1>2. ASSUME NEW p \in Procs, DeliveryStep(p)
        PROVE  \/ Quiet
               \/ /\ SignoffApproved(p)
                  /\ UNCHANGED <<profile, proofVars, audits, task, treeVars, checkout, hubVars,
                                 bounds>>
               \/ /\ AcceptanceAttested(p)
                  /\ UNCHANGED <<profile, validation, acceptance, audit, decision, audits, task,
                                 treeVars, checkout, hubVars, bounds>>
               \/ /\ Push(p)
                  /\ UNCHANGED <<profile, proofVars, decision, audits, task, treeVars>>
               \/ /\ CiProven(p) \/ CloseTasks(p)
                  /\ UNCHANGED <<profile, proofVars, decision, audits, treeVars, checkout,
                                 hubVars, bounds>>
    BY <1>2 DEF DeliveryStep, SignoffApproved, PublicationReady, AcceptanceAttested,
         SignoffChangesRefused, PushChecked, Push, CreateDraftPr, PublicationRecorded,
         DraftPrCreated, CiHeadObserved, CiChecksObserved, CiProven, Complete, CloseTasks
  <1>3. ASSUME NEW p \in Procs, StopStep(p) \/ PinWorktree(p) \/ OperatorCall(p)
        PROVE  \/ Quiet
               \/ /\ CancelTask(p)
                  /\ UNCHANGED <<profile, proofVars, decision, audits, treeVars, checkout,
                                 hubVars, bounds>>
               \/ /\ CancelWorktrees(p) \/ PinWorktree(p) \/ PreserveWorktree(p)
                  /\ UNCHANGED <<profile, proofVars, decision, audits, task, checkout,
                                 hubVars, otherBounds>>
    BY <1>3 DEF StopStep, Stopping, StopPauses, StopInterrupts, FinishStoppingIfIdle,
         CancelTask, CancelWorktrees, Canceled, Archived, PinWorktree, OperatorCall,
         ApproveIntegration, ReviewPacket, SignoffCall, PublishDraftPr, RefreshCi, StopRun,
         ArchiveRun, PreserveWorktree
  <1>4. CASE RefreshCi(Maintenance) \/ PauseScheduler \/ PumpStep
    <2>1. \/ Quiet
          \/ /\ AuditVerdictRecorded
             /\ UNCHANGED <<profile, validation, acceptance, attested, decision, audits, task,
                            treeVars, checkout, hubVars, bounds>>
      BY <1>4 DEF RefreshCi, PauseScheduler, PumpStep, AuditVerdict, AuditVerdictRecorded,
           AuditDecided, AuditorTurnCompleted
    <2> QED BY <2>1
  <1>5. CASE HygieneTask
    BY <1>5 DEF HygieneTask, HygieneStarts, HygieneRemoves, HygieneReports, HygieneFails
  <1>6. CASE Environment
    BY <1>6 DEF Environment, ServerExit, CrashRestart, MoveCheckout, ForeignPush, ChecksFinish
  <1>7. ASSUME NEW p \in Operators, OperatorCall(p) PROVE p \in Procs
    OBVIOUS
  <1> QED BY <1>1, <1>2, <1>3, <1>4, <1>5, <1>6, <1>7 DEF Next, CallStep

(* The run row moves by one versioned transition of one call, and each      *)
(* state is entered by one of them only.                                    *)
LEMMA RunMoves ==
    ASSUME TypeOK, Next
    PROVE  \/ run' = run /\ version' >= version
           \/ /\ RunMay(run, run') /\ version' = version + 1
              /\ run' # "INTEGRATION_READY"
              /\ \/ run' \in {"BLOCKED", "STOPPING", "ARCHIVED", "DRAFT_PR_CREATED",
                              "INTEGRATION_VERIFICATION"}
                 \/ /\ run' = "INTEGRATING"
                    /\ \E p \in Procs : IntegrationApproved(p) /\ ver[p] = version
                 \/ run' = "FINAL_AUDIT" /\ \E p \in Procs : EnterFinalAudit(p)
                 \/ run' = "HUMAN_REVIEW" /\ AuditDecided /\ audit = "accept"
                 \/ run' = "PUBLICATION_READY" /\ \E p \in Procs : PublicationReady(p)
                 \/ run' = "COMPLETED" /\ \E p \in Procs : Complete(p)
                 \/ run' = "CANCELED" /\ \E p \in Procs : Canceled(p)
  <1> USE DEF runVars, notRun, notProc, notTask, Procs
  <1> DEFINE Still == run' = run /\ version' >= version
             Moved(n) == run' = n /\ RunMay(run, run') /\ version' = version + 1
  <1>a. version \in Nat
    BY DEF TypeOK, RunTypes
  <1>1. ASSUME NEW p \in Procs, NEW n, NEW l, transition_run(p, n, l)
        PROVE  Still \/ (Moved(n) /\ ver[p] = version)
    BY <1>a, <1>1 DEF transition_run
  <1>2. ASSUME NEW p \in Procs, NEW n, transition_run_last(p, n)
        PROVE  Still \/ (Moved(n) /\ ver[p] = version)
    BY <1>a, <1>2 DEF transition_run_last
  <1> HIDE DEF Still, Moved
  <1>b. ASSUME UNCHANGED <<run, version>> PROVE Still
    BY <1>a, <1>b DEF Still
  <1>3. ASSUME NEW p \in Procs, IntegrationStep(p)
        PROVE  \/ Still \/ Moved("BLOCKED") \/ Moved("INTEGRATION_VERIFICATION")
               \/ Moved("INTEGRATING") /\ IntegrationApproved(p) /\ ver[p] = version
               \/ Moved("FINAL_AUDIT") /\ EnterFinalAudit(p)
    BY <1>1, <1>2, <1>3, <1>b DEF IntegrationStep, IntegrationApproved, IntegrationVerification,
         ProofStarts, ValidationEnds, AcceptanceEnds, IntegrationBlocked, EnterFinalAudit,
         LaunchFinalAuditor, StartFinalAuditor, AuditUnavailable
  <1>4. ASSUME NEW p \in Procs, DeliveryStep(p)
        PROVE  \/ Still \/ Moved("DRAFT_PR_CREATED")
               \/ Moved("PUBLICATION_READY") /\ PublicationReady(p)
               \/ Moved("COMPLETED") /\ Complete(p)
    BY <1>1, <1>2, <1>4, <1>b DEF DeliveryStep, SignoffApproved, PublicationReady,
         AcceptanceAttested, SignoffChangesRefused, PushChecked, Push, CreateDraftPr,
         PublicationRecorded, DraftPrCreated, CiHeadObserved, CiChecksObserved, CiProven,
         Complete, CloseTasks
  <1>5. ASSUME NEW p \in Procs, StopStep(p)
        PROVE  \/ Still \/ Moved("STOPPING") \/ Moved("ARCHIVED")
               \/ Moved("CANCELED") /\ Canceled(p)
    <2>1. CASE StopPauses(p)
      BY <1>a, <2>1 DEF StopPauses, Still
    <2>2. CASE Stopping(p) \/ Canceled(p) \/ Archived(p)
      BY <1>1, <1>2, <2>2 DEF Stopping, Canceled, Archived
    <2> QED BY <1>5, <1>b, <2>1, <2>2 DEF StopStep, StopInterrupts, FinishStoppingIfIdle,
              CancelTask, CancelWorktrees
  <1>6. ASSUME NEW p \in Procs, PinWorktree(p) \/ OperatorCall(p) PROVE Still
    BY <1>6, <1>b DEF PinWorktree, OperatorCall, ApproveIntegration, ReviewPacket,
         SignoffCall, PublishDraftPr, RefreshCi, StopRun, ArchiveRun, PreserveWorktree
  <1>7. ASSUME PauseScheduler \/ RefreshCi(Maintenance) \/ HygieneTask \/ Environment
        PROVE  Still
    <2>1. CASE PauseScheduler
      BY <1>a, <2>1 DEF PauseScheduler, Still
    <2>2. CASE RefreshCi(Maintenance) \/ HygieneTask \/ Environment
      BY <2>2, <1>b DEF RefreshCi, HygieneTask, HygieneStarts, HygieneRemoves,
           HygieneReports, HygieneFails, Environment, ServerExit, CrashRestart, MoveCheckout,
           ForeignPush, ChecksFinish
    <2> QED BY <1>7, <2>1, <2>2
  <1>8. CASE PumpStep
    <2>1. \/ Still \/ Moved("BLOCKED")
          \/ Moved("HUMAN_REVIEW") /\ AuditDecided /\ audit = "accept"
      <3>1. CASE AuditDecided /\ audit = "accept"
        <4>1. transition_run_last(Pump, "HUMAN_REVIEW")
          BY <3>1 DEF AuditDecided
        <4> QED BY <1>2, <3>1, <4>1
      <3>2. CASE AuditDecided /\ audit # "accept"
        <4>1. transition_run_last(Pump, "BLOCKED")
          BY <3>2 DEF AuditDecided
        <4> QED BY <1>2, <4>1
      <3> QED BY <1>8, <1>b, <3>1, <3>2 DEF PumpStep, AuditVerdict, AuditVerdictRecorded,
                AuditorTurnCompleted
    <2> QED BY <2>1 DEF Still, Moved
  <1> QED BY <1>3, <1>4, <1>5, <1>6, <1>7, <1>8 DEF Next, CallStep, Still, Moved

(* A run that is given up or finished stays so, and none goes back.         *)
LEMMA RunForward ==
    ASSUME TypeOK, Next
    PROVE  /\ run \in Dying => run' \in Dying
           /\ run \in Finished => run' \in Finished
           /\ run \notin Early => run' \notin Early
           /\ run' \in Reviewed => run \in {"FINAL_AUDIT"} \cup Reviewed
           /\ run' \in Signed => run \in {"HUMAN_REVIEW"} \cup Signed
  BY RunMoves DEF RunMay, RunProgress, RunTerminal, Dying, Finished, Early, Reviewed, Signed,
       TypeOK, RunTypes, RunStates

(* Every call but the one that moves keeps its place.                       *)
LEMMA CallMoves ==
    ASSUME TypeOK, Next, NEW q \in Procs
    PROVE  \/ Same(q)
           \/ CallStep(q) \/ OperatorCall(q) \/ RefreshCi(q)
           \/ q = Pump /\ PumpStep
           \/ CrashRestart /\ pc'[q] = "idle" /\ ver'[q] = 0 /\ loc'[q] = NoLoc
  <1> USE DEF procVars, notProc, notRun, notTask
  <1>a. DOMAIN pc = Procs /\ DOMAIN ver = Procs /\ DOMAIN loc = Procs /\ Pump \in Procs
    BY DEF TypeOK, CallTypes, Procs
  <1>1. ASSUME NEW p \in Procs \ {q}, Return(p) \/ \E l : Goto(p, l) /\ UNCHANGED <<ver, loc>>
        PROVE  Same(q)
    BY <1>a, <1>1 DEF Same, Return, Goto
  <1>2. ASSUME NEW p \in Procs \ {q}, NEW l, Read(p, l),
               \/ UNCHANGED loc \/ loc' = [loc EXCEPT ![p].before = checkout]
               \/ \E k : Name(p, k)
        PROVE  Same(q)
    BY <1>a, <1>2 DEF Same, Read, Goto, Name
  <1>3. ASSUME NEW p \in Procs \ {q}, NEW n, NEW l, transition_run(p, n, l) PROVE Same(q)
    BY <1>a, <1>1, <1>3 DEF Same, transition_run, Goto
  <1>4. ASSUME NEW p \in Procs \ {q}, NEW s, NEW l, ForEachTask(p, s, l) PROVE Same(q)
    BY <1>a, <1>1, <1>4 DEF Same, ForEachTask, Goto, Count
  <1>5. ASSUME NEW p \in Procs \ {q}, IntegrationStep(p) PROVE Same(q)
    BY <1>1, <1>2, <1>3, <1>5 DEF IntegrationStep, IntegrationApproved,
         IntegrationVerification, ProofStarts, ValidationEnds, AcceptanceEnds,
         IntegrationBlocked, EnterFinalAudit, LaunchFinalAuditor, StartFinalAuditor,
         AuditUnavailable, transition_run_last
  <1>6. ASSUME NEW p \in Procs \ {q}, DeliveryStep(p) PROVE Same(q)
    <2>1. CASE CiHeadObserved(p)
      BY <1>a, <2>1 DEF CiHeadObserved, Same, Goto
    <2>2. CASE CiProven(p) \/ CloseTasks(p)
      BY <1>1, <1>4, <2>2 DEF CiProven, CloseTasks
    <2>3. CASE PublicationReady(p) \/ DraftPrCreated(p) \/ Complete(p)
      BY <1>1, <1>3, <2>3 DEF PublicationReady, DraftPrCreated, Complete, transition_run_last
    <2> QED BY <1>1, <1>6, <2>1, <2>2, <2>3 DEF DeliveryStep, SignoffApproved,
              AcceptanceAttested, SignoffChangesRefused, PushChecked, Push, CreateDraftPr,
              PublicationRecorded, CiChecksObserved
  <1>7. ASSUME NEW p \in Procs \ {q}, StopStep(p) \/ PinWorktree(p) PROVE Same(q)
    <2>1. CASE StopPauses(p) \/ CancelTask(p)
      BY <1>a, <2>1 DEF StopPauses, CancelTask, Same, Goto, Count
    <2>2. CASE Stopping(p) \/ Canceled(p) \/ Archived(p)
      BY <1>1, <1>3, <2>2 DEF Stopping, Canceled, Archived, transition_run_last
    <2> QED BY <1>1, <1>2, <1>7, <2>1, <2>2 DEF StopStep, StopInterrupts,
              FinishStoppingIfIdle, CancelWorktrees, PinWorktree
  <1>8. ASSUME NEW p \in Procs \ {q}, OperatorCall(p) \/ RefreshCi(p) PROVE Same(q)
    <2>1. CASE ReviewPacket(p)
      BY <1>a, <2>1 DEF ReviewPacket, Same
    <2> QED BY <1>1, <1>2, <1>8, <2>1 DEF OperatorCall, ApproveIntegration, SignoffCall,
              PublishDraftPr, RefreshCi, StopRun, ArchiveRun, PreserveWorktree
  <1>9. ASSUME PumpStep, q # Pump PROVE Same(q)
    <2>1. CASE AuditDecided \/ AuditVerdictRecorded
      BY <1>a, <1>1, <1>9, <2>1 DEF AuditDecided, AuditVerdictRecorded, transition_run_last
    <2>2. CASE AuditVerdict
      BY <1>a, <1>2, <1>9, <2>2 DEF AuditVerdict, Same
    <2>3. CASE AuditorTurnCompleted
      BY <1>a, <1>9, <2>3 DEF AuditorTurnCompleted, Read, Goto, Same
    <2> QED BY <1>9, <2>1, <2>2, <2>3 DEF PumpStep
  <1>10. CASE PauseScheduler \/ HygieneTask \/ Environment
    BY <1>10 DEF Same, PauseScheduler, HygieneTask, HygieneStarts, HygieneRemoves,
         HygieneReports, HygieneFails, Environment, ServerExit, CrashRestart, MoveCheckout,
         ForeignPush, ChecksFinish
  <1>11. Operators \subseteq Procs /\ Maintenance \in Procs
    BY DEF Procs
  <1> QED BY <1>5, <1>6, <1>7, <1>8, <1>9, <1>10, <1>11 DEF Next, CallStep

(* How a call gets where it is.                                             *)
LEMMA Entered ==
    ASSUME TypeOK, Next, NEW q \in Procs
    PROVE  /\ pc'[q] = "i_approve" => Same(q) \/ (ApproveIntegration(q) /\ ver'[q] = version)
           /\ pc'[q] \in Chain =>
                \/ Same(q)
                \/ IntegrationApproved(q) /\ ver[q] = version /\ run' = "INTEGRATING"
                \/ pc[q] \in Chain /\ (pc'[q] \in Proving => pc[q] \in Proving)
           /\ pc'[q] = "i_accept" => Same(q) \/ ValidationEnds(q)
           /\ pc'[q] = "i_accepting" => Same(q) \/ pc[q] = "i_accept"
           /\ pc'[q] = "i_final" => Same(q) \/ AcceptanceEnds(q)
           /\ pc'[q] \in Verdict =>
                \/ Same(q)
                \/ q = Pump /\ AuditVerdict /\ run = "FINAL_AUDIT"
                \/ q = Pump /\ AuditVerdictRecorded
           /\ pc'[q] = "h_sign" => Same(q) \/ SignoffCall(q)
           /\ pc'[q] = "h_ready" => Same(q) \/ SignoffApproved(q)
           /\ pc'[q] = "close" =>
                Same(q) \/ pc[q] = "close" \/ (Complete(q) /\ run' = "COMPLETED")
           /\ pc'[q] \in StopLocs =>
                \/ Same(q) \/ pc[q] \in StopLocs
                \/ Stopping(q) /\ run' = "STOPPING"
                \/ q = Pump /\ AuditorTurnCompleted /\ run = "STOPPING"
           /\ pc'[q] = "s_cancel" =>
                \/ Same(q) \/ CancelTask(q)
                \/ pc[q] \in {"s_interrupt", "s_idle"} /\ loc'[q] = loc[q]
           /\ pc'[q] = "s_canceled" => Same(q) \/ CancelWorktrees(q)
           /\ pc'[q] = "c_checks" => Same(q) \/ CiHeadObserved(q)
           /\ pc'[q] = "c_prove" => Same(q) \/ CiChecksObserved(q) \/ CiProven(q)
           /\ pc'[q] = "complete" => Same(q) \/ pc[q] = "c_prove" \/ ~ profile.ci
           /\ pc'[q] = "w_pin" => Same(q) \/ PreserveWorktree(q)
           /\ pc'[q] \notin Counting => \/ pc[q] \notin Counting /\ loc'[q].i = loc[q].i
                                        \/ loc'[q].i = 1
  <1> USE DEF procVars, notProc, notRun, notTask, runVars, Chain, Proving, Verdict, StopLocs,
              Counting
  <1>a. /\ pc[q] \in Locs /\ loc[q] \in Locals
        /\ DOMAIN pc = Procs /\ DOMAIN ver = Procs /\ DOMAIN loc = Procs
    BY DEF TypeOK, CallTypes
  <1>b. ASSUME Return(q) PROVE pc'[q] = "idle" /\ loc'[q].i = 1
    BY <1>a, <1>b DEF Return, NoLoc
  <1>c. ASSUME NEW l, Goto(q, l) PROVE pc'[q] = l
    BY <1>a, <1>c DEF Goto
  <1>d. ASSUME NEW n, NEW l, transition_run(q, n, l)
        PROVE  \/ pc'[q] = l /\ loc'[q] = loc[q] /\ run' = n /\ ver[q] = version
               \/ pc'[q] = "idle" /\ loc'[q].i = 1
    BY <1>a, <1>b, <1>d DEF transition_run, Goto
  <1>e. ASSUME NEW s, NEW l, ForEachTask(q, s, l)
        PROVE  \/ pc'[q] = l /\ loc'[q].i = 1
               \/ pc'[q] = pc[q]
               \/ pc'[q] = "idle" /\ loc'[q].i = 1
    BY <1>a, <1>b, <1>c, <1>e DEF ForEachTask, Count, Locals
  <1>1. CASE Same(q)
    <2>1. pc'[q] = pc[q] /\ loc'[q] = loc[q]
      BY <1>1 DEF Same
    <2> QED BY <1>1, <2>1
  <1>2. CASE IntegrationStep(q)
    <2>1. CASE IntegrationApproved(q) \/ IntegrationVerification(q) \/ EnterFinalAudit(q)
      BY <1>b, <1>d, <2>1 DEF IntegrationApproved, IntegrationVerification, EnterFinalAudit
    <2>2. CASE ProofStarts(q) \/ ValidationEnds(q) \/ AcceptanceEnds(q)
      BY <1>c, <2>2 DEF ProofStarts, ValidationEnds, AcceptanceEnds
    <2>3. CASE IntegrationBlocked(q) \/ LaunchFinalAuditor(q)
               \/ StartFinalAuditor(q) \/ AuditUnavailable(q)
      BY <1>b, <1>c, <2>3 DEF IntegrationBlocked, LaunchFinalAuditor, StartFinalAuditor,
           AuditUnavailable,
          transition_run_last, Read
    <2> QED BY <1>2, <2>1, <2>2, <2>3 DEF IntegrationStep
  <1>3. CASE DeliveryStep(q)
    <2>1. CASE PublicationReady(q) \/ DraftPrCreated(q) \/ Complete(q)
      <3>1. profile.mode = "local_only" => ~ profile.ci
        BY DeliveryAssumption DEF TypeOK, RunTypes
      <3> QED BY <1>b, <1>d, <2>1, <3>1 DEF PublicationReady, DraftPrCreated, Complete,
           transition_run_last
    <2>2. CASE CiProven(q) \/ CloseTasks(q)
      BY <1>b, <1>e, <2>2 DEF CiProven, CloseTasks
    <2>3. CASE CiHeadObserved(q)
      BY <1>a, <1>c, <2>3 DEF CiHeadObserved, Locals
    <2>4. CASE SignoffApproved(q) \/ AcceptanceAttested(q) \/ SignoffChangesRefused(q)
               \/ PushChecked(q) \/ Push(q)
      BY <1>b, <1>c, <2>4 DEF SignoffApproved, AcceptanceAttested, SignoffChangesRefused,
           PushChecked,
              Push
    <2>5. CASE CreateDraftPr(q) \/ PublicationRecorded(q) \/ CiChecksObserved(q)
      BY <1>b, <1>c, <2>5 DEF CreateDraftPr,
              PublicationRecorded, CiChecksObserved
    <2> QED BY <1>3, <2>1, <2>2, <2>3, <2>4, <2>5 DEF DeliveryStep
  <1>4. CASE StopStep(q) \/ PinWorktree(q)
    <2>1. CASE Stopping(q) \/ Canceled(q) \/ Archived(q)
      BY <1>b, <1>d, <2>1 DEF Stopping, Canceled, Archived, transition_run_last
    <2>2. CASE CancelTask(q)
      BY <1>a, <2>2 DEF CancelTask
    <2>3. CASE StopPauses(q) \/ StopInterrupts(q) \/ FinishStoppingIfIdle(q)
      BY <1>b, <1>c, <2>3 DEF StopPauses, StopInterrupts, FinishStoppingIfIdle, Read
    <2>4. CASE CancelWorktrees(q) \/ PinWorktree(q)
      BY <1>b, <1>c, <2>4 DEF CancelWorktrees, PinWorktree
    <2> QED BY <1>4, <2>1, <2>2, <2>3, <2>4 DEF StopStep
  <1>5. CASE OperatorCall(q) \/ RefreshCi(q)
    <2>1. CASE ReviewPacket(q)
      BY <1>a, <2>1 DEF ReviewPacket, Idle, Locals
    <2>2. CASE RefreshCi(q)
      BY <1>a, <1>c, <2>2 DEF RefreshCi, Idle, Locals, Read
    <2>3. CASE StopRun(q)
      BY <1>a, <1>c, <2>3 DEF StopRun, Name, Idle, Locals, Read
    <2>4. CASE \/ ApproveIntegration(q) \/ SignoffCall(q) \/ PublishDraftPr(q)
               \/ ArchiveRun(q) \/ PreserveWorktree(q)
      BY <1>a, <2>4 DEF ApproveIntegration, SignoffCall, PublishDraftPr, ArchiveRun,
           PreserveWorktree, Read, Goto, Idle
    <2> QED BY <1>5, <2>1, <2>2, <2>3, <2>4 DEF OperatorCall
  <1>6. CASE q = Pump /\ PumpStep
    <2>1. CASE AuditDecided \/ AuditVerdictRecorded
      BY <1>6, <1>b, <1>c, <2>1 DEF AuditDecided, AuditVerdictRecorded, transition_run_last
    <2>2. CASE AuditVerdict
      BY <1>6, <1>a, <1>c, <2>2 DEF AuditVerdict, Idle, Read, Name, Locals
    <2>3. CASE AuditorTurnCompleted
      BY <1>6, <1>a, <1>c, <2>3 DEF AuditorTurnCompleted, Idle, Read
    <2> QED BY <1>6, <2>1, <2>2, <2>3 DEF PumpStep
  <1>7. CASE CrashRestart /\ pc'[q] = "idle" /\ ver'[q] = 0 /\ loc'[q] = NoLoc
    BY <1>7 DEF NoLoc
  <1> QED BY <1>1, <1>2, <1>3, <1>4, <1>5, <1>6, <1>7, CallMoves DEF CallStep

(* A task is marked by the loop of one call, which leaves terminal tasks    *)
(* alone.                                                                   *)
LEMMA TaskMoves ==
    ASSUME TypeOK, Next, NEW t \in Tasks
    PROVE  \/ task'[t] = task[t]
           \/ /\ task'[t] = "CI_PROVEN" /\ \E p \in Procs : CiProven(p)
              /\ task[t] = "INTEGRATED"
           \/ /\ task'[t] = "CLOSED" /\ \E p \in Procs : CloseTasks(p)
              /\ task[t] \in {"INTEGRATED", "CI_PROVEN"}
           \/ /\ task'[t] = "CANCELED" /\ \E p \in Procs : CancelTask(p)
              /\ task[t] \in {"INTEGRATED", "CI_PROVEN"}
  <1>a. task \in [Tasks -> TaskStates] /\ task[t] \in TaskStates
    BY DEF TypeOK, RunTypes
  <1>1. ASSUME NEW p \in Procs, NEW s, NEW l, ForEachTask(p, s, l)
        PROVE  task'[t] = task[t] \/ (task'[t] = s /\ TaskMay(task[t], s))
    BY <1>1, <1>a DEF ForEachTask
  <1>2. ASSUME NEW p \in Procs, CancelTask(p)
        PROVE  task'[t] = task[t] \/ (task'[t] = "CANCELED" /\ ~ CancelSkips(task[t]))
    BY <1>2, <1>a DEF CancelTask
  <1>3. ASSUME NEW p \in Procs, CiProven(p)
        PROVE  task'[t] = task[t] \/ (task'[t] = "CI_PROVEN" /\ TaskMay(task[t], "CI_PROVEN"))
    BY <1>1, <1>3 DEF CiProven
  <1>4. ASSUME NEW p \in Procs, CloseTasks(p)
        PROVE  task'[t] = task[t] \/ (task'[t] = "CLOSED" /\ TaskMay(task[t], "CLOSED"))
    BY <1>1, <1>4 DEF CloseTasks
  <1> QED BY <1>a, <1>2, <1>3, <1>4, Writers DEF TaskMay, CancelSkips, TaskTerminal, TaskStates

-----------------------------------------------------------------------------
(* Types.                                                                   *)
LEMMA RunTypesStep ==
    ASSUME TypeOK, Next
    PROVE  RunTypes'
  <1> USE DEF runVars, proofVars, treeVars, agentVars, hubVars, procVars, bounds, otherBounds,
              notRun, notProc, notTask
  <1>a. RunTypes /\ CallTypes
    BY DEF TypeOK
  <1>1. ASSUME NEW p \in Procs, NEW next \in RunStates,
               \/ \E l : transition_run(p, next, l)
               \/ transition_run_last(p, next),
               UNCHANGED <<task, profile, agentVars, bounds>>
        PROVE  RunTypes'
    BY <1>a, <1>1 DEF RunTypes, transition_run, transition_run_last, Return
  <1>2. ASSUME NEW p \in Procs, NEW s \in TaskStates, NEW l, ForEachTask(p, s, l),
               UNCHANGED <<runVars, profile, agentVars, bounds>>
        PROVE  RunTypes'
    BY <1>a, <1>2 DEF RunTypes, ForEachTask
  <1>3. ASSUME NEW p \in Procs, IntegrationStep(p) PROVE RunTypes'
    <2>1. CASE \/ IntegrationApproved(p) \/ IntegrationVerification(p)
               \/ IntegrationBlocked(p) \/ EnterFinalAudit(p)
      BY <1>1, <1>a, <2>1 DEF RunStates, RunTypes, IntegrationApproved,
           IntegrationVerification, IntegrationBlocked, EnterFinalAudit
    <2>2. CASE LaunchFinalAuditor(p) \/ StartFinalAuditor(p)
      BY <1>a, <2>2 DEF RunTypes, LaunchFinalAuditor, StartFinalAuditor
    <2>3. CASE ProofStarts(p) \/ AuditUnavailable(p) \/ ValidationEnds(p) \/ AcceptanceEnds(p)
      BY <1>a, <2>3 DEF RunTypes, ProofStarts, AuditUnavailable, ValidationEnds,
           AcceptanceEnds
    <2> QED BY <1>3, <2>1, <2>2, <2>3 DEF IntegrationStep
  <1>4. ASSUME NEW p \in Procs, DeliveryStep(p) PROVE RunTypes'
    <2>1. CASE PublicationReady(p) \/ Complete(p) \/ DraftPrCreated(p)
      BY <1>1, <1>a, <2>1 DEF RunStates, RunTerminal, PublicationReady, Complete,
           DraftPrCreated
    <2>2. CASE CiProven(p) \/ CloseTasks(p)
      BY <1>2, <1>a, <2>2 DEF TaskStates, CiProven, CloseTasks, RunTypes
    <2>3. CASE \/ SignoffApproved(p) \/ AcceptanceAttested(p) \/ SignoffChangesRefused(p)
               \/ PushChecked(p) \/ Push(p) \/ CreateDraftPr(p) \/ PublicationRecorded(p)
               \/ CiHeadObserved(p) \/ CiChecksObserved(p)
      BY <1>a, <2>3 DEF RunTypes, SignoffApproved, AcceptanceAttested,
           SignoffChangesRefused, PushChecked, Push, CreateDraftPr, PublicationRecorded,
           CiHeadObserved, CiChecksObserved
    <2> QED BY <1>4, <2>1, <2>2, <2>3 DEF DeliveryStep
  <1>5. ASSUME NEW p \in Procs, StopStep(p) PROVE RunTypes'
    <2>1. CASE Stopping(p) \/ Canceled(p) \/ Archived(p)
      BY <1>1, <1>a, <2>1 DEF RunStates, RunTerminal, Stopping, Canceled, Archived
    <2>2. CASE CancelTask(p)
      <3>1. loc[p].i \in Tasks
        BY <1>a, <2>2, DeliveryAssumption DEF CancelTask, CallTypes, Locals, Tasks
      <3>2. task' \in [Tasks -> TaskStates]
        BY <1>a, <2>2, <3>1 DEF TaskStates, CancelTask, RunTypes
      <3> QED BY <1>a, <2>2, <3>2 DEF CancelTask, RunTypes
    <2>3. CASE StopPauses(p)
      BY <1>a, <2>3 DEF RunTypes, StopPauses
    <2>4. CASE StopInterrupts(p) \/ FinishStoppingIfIdle(p) \/ CancelWorktrees(p)
      BY <1>a, <2>4 DEF RunTypes, StopInterrupts, FinishStoppingIfIdle, CancelWorktrees
    <2> QED BY <1>5, <2>1, <2>2, <2>3, <2>4 DEF StopStep
  <1>6. ASSUME NEW p \in Procs, PinWorktree(p) \/ OperatorCall(p) PROVE RunTypes'
    BY <1>a, <1>6 DEF RunTypes, PinWorktree, OperatorCall, ApproveIntegration, ReviewPacket,
         SignoffCall, PublishDraftPr, RefreshCi, StopRun, ArchiveRun, PreserveWorktree, Command
  <1>7. CASE PauseScheduler \/ RefreshCi(Maintenance)
    <2>1. paused' \in BOOLEAN
      BY <1>a, <1>7, Zenon DEF RunTypes, PauseScheduler, RefreshCi
    <2> QED BY <1>a, <1>7, <2>1 DEF RunTypes, PauseScheduler, RefreshCi, Command
  <1>8. CASE PumpStep
    <2>1. CASE AuditVerdict \/ AuditVerdictRecorded \/ AuditorTurnCompleted
      BY <1>a, <2>1 DEF RunTypes, AuditVerdict, AuditVerdictRecorded, AuditorTurnCompleted
    <2>2. CASE AuditDecided
      BY <1>1, <1>a, <2>2 DEF RunStates, AuditDecided, Procs
    <2> QED BY <1>8, <2>1, <2>2 DEF PumpStep
  <1>9. CASE HygieneTask
    BY <1>a, <1>9 DEF RunTypes, HygieneTask, HygieneStarts, HygieneRemoves, HygieneReports,
         HygieneFails
  <1>10. CASE Environment
    BY <1>a, <1>10 DEF RunTypes, Environment, ServerExit, CrashRestart, MoveCheckout,
         ForeignPush, ChecksFinish, Orphaned
  <1> QED BY <1>3, <1>4, <1>5, <1>6, <1>7, <1>8, <1>9, <1>10 DEF Next, CallStep, Procs

LEMMA ProofTypesStep ==
    ASSUME TypeOK, Next
    PROVE  ProofTypes'
  <1>a. /\ ProofTypes /\ checkout \in Heads /\ loc[Pump].kind \in Verdicts
        /\ \A p \in Procs : loc[p].seen \in Packets \cup {NoPacket}
    BY DEF TypeOK, TreeTypes, CallTypes, Locals
  <1>1. \A c \in {"validators", "acceptance", "audit", "attestation"}, ok \in BOOLEAN :
           Claim(c, "head", ok) \in Claims
    BY DEF Claim, Claims, Heads
  <1>3. validation' \in Validations /\ acceptance' \in Results
    <2>1. ASSUME NEW p \in Procs, ValidationEnds(p) PROVE validation' \in Validations
      BY <1>a, <2>1 DEF ValidationEnds, Validations, Outcome, Results
    <2>2. ASSUME NEW p \in Procs, AcceptanceEnds(p) PROVE acceptance' \in Results
      BY <1>a, <2>2 DEF AcceptanceEnds, Outcome, Results
    <2> QED BY <1>a, <2>1, <2>2, Writers DEF ProofTypes, ValidationEnds, AcceptanceEnds
  <1>4. audit' \in Verdicts
    BY <1>a, Writers DEF ProofTypes, AuditVerdictRecorded
  <1>5. attested' \in BOOLEAN
    BY <1>a, Writers DEF ProofTypes, ValidationEnds, AcceptanceEnds, AcceptanceAttested,
         AuditVerdictRecorded
  <1>6. evidence' \in SUBSET Claims
    <2>1. ASSUME NEW p \in Procs, ValidationEnds(p) \/ AcceptanceEnds(p)
          PROVE  evidence' \in SUBSET Claims
      <3>1. PICK ok \in {FALSE, checkout = "head"} :
                evidence' \in {evidence \cup {Claim("validators", "head", ok)},
                              evidence \cup {Claim("acceptance", "head", ok)}}
        BY <2>1 DEF ValidationEnds, AcceptanceEnds
      <3>2. ok \in BOOLEAN
        BY <3>1
      <3> QED BY <1>1, <1>a, <3>1, <3>2 DEF ProofTypes
    <2>2. CASE AuditVerdictRecorded
      <3>1. (loc[Pump].kind = "accept") \in BOOLEAN
        OBVIOUS
      <3> QED BY <1>1, <1>a, <2>2, <3>1 DEF ProofTypes, AuditVerdictRecorded
    <2>3. ASSUME NEW p \in Procs, AcceptanceAttested(p) PROVE evidence' \in SUBSET Claims
      BY <1>1, <1>a, <2>3 DEF ProofTypes, AcceptanceAttested
    <2> QED BY <1>a, <2>1, <2>2, <2>3, Writers DEF ProofTypes
  <1>7. decision' \in Packets \cup {NoPacket}
    BY <1>a, Writers DEF ProofTypes, SignoffApproved
  <1> QED BY <1>3, <1>4, <1>5, <1>6, <1>7 DEF ProofTypes

LEMMA TreeTypesStep ==
    ASSUME TypeOK, Next
    PROVE  TreeTypes'
  <1> USE DEF runVars, proofVars, treeVars, agentVars, hubVars, bounds, otherBounds, notRun,
              notProc, notTask
  <1>a. TreeTypes
    BY DEF TypeOK
  <1>1. ASSUME NEW p \in Procs, IntegrationStep(p) PROVE TreeTypes'
    <2>1. UNCHANGED <<treeVars, checkout, hubVars>>
      BY <1>1 DEF IntegrationStep, IntegrationApproved, IntegrationVerification, ProofStarts,
           ValidationEnds, AcceptanceEnds, IntegrationBlocked, EnterFinalAudit,
           LaunchFinalAuditor, StartFinalAuditor, AuditUnavailable
    <2> QED BY <1>a, <2>1 DEF TreeTypes
  <1>2. ASSUME NEW p \in Procs, DeliveryStep(p) PROVE TreeTypes'
    <2>1. CASE Push(p) \/ CreateDraftPr(p) \/ PublicationRecorded(p)
      <3>1. remote' \in Heads \cup {"none"} /\ pr' \in BOOLEAN /\ publication' \in BOOLEAN
        BY <1>a, <2>1 DEF TreeTypes, Push, CreateDraftPr, PublicationRecorded
      <3>2. UNCHANGED <<treeVars, checkout, checks>>
        BY <2>1 DEF Push, CreateDraftPr, PublicationRecorded
      <3> QED BY <1>a, <3>1, <3>2 DEF TreeTypes
    <2>2. \/ Push(p) \/ CreateDraftPr(p) \/ PublicationRecorded(p)
          \/ UNCHANGED <<treeVars, checkout, hubVars>>
      BY <1>2 DEF DeliveryStep, SignoffApproved, PublicationReady, AcceptanceAttested,
         SignoffChangesRefused, PushChecked,
         DraftPrCreated, CiHeadObserved, CiChecksObserved, CiProven, Complete, CloseTasks
    <2> QED BY <1>a, <2>1, <2>2 DEF TreeTypes
  <1>3. ASSUME NEW p \in Procs, StopStep(p) \/ PinWorktree(p) \/ RefreshCi(p) PROVE TreeTypes'
    <2>1. CASE CancelWorktrees(p) \/ PinWorktree(p)
      BY <1>a, <2>1 DEF TreeTypes, CancelWorktrees, PinWorktree
    <2>2. CASE Archived(p)
      <3>1. eligible' \in BOOLEAN
        BY <1>a, <2>2, Zenon DEF TreeTypes, Archived
      <3> QED BY <1>a, <2>2, <3>1 DEF TreeTypes, Archived
    <2>3. \/ CancelWorktrees(p) \/ PinWorktree(p) \/ Archived(p)
          \/ UNCHANGED <<treeVars, checkout, hubVars>>
      BY <1>3 DEF StopStep, Stopping, StopPauses, StopInterrupts, FinishStoppingIfIdle,
         CancelTask, Canceled, RefreshCi
    <2> QED BY <1>a, <2>1, <2>2, <2>3 DEF TreeTypes
  <1>4. ASSUME NEW p \in Operators, OperatorCall(p) PROVE TreeTypes'
    <2>1. CASE PreserveWorktree(p)
      BY <1>a, <2>1 DEF TreeTypes, PreserveWorktree
    <2>2. PreserveWorktree(p) \/ UNCHANGED <<treeVars, checkout, hubVars>>
      BY <1>4 DEF OperatorCall,
         ApproveIntegration, ReviewPacket, SignoffCall, PublishDraftPr, RefreshCi, StopRun,
         ArchiveRun
    <2> QED BY <1>a, <2>1, <2>2 DEF TreeTypes
  <1>5. CASE PauseScheduler \/ PumpStep
    <2>1. UNCHANGED <<treeVars, checkout, hubVars>>
      BY <1>5 DEF PauseScheduler, PumpStep, AuditVerdict, AuditVerdictRecorded, AuditDecided,
           AuditorTurnCompleted
    <2> QED BY <1>a, <2>1 DEF TreeTypes
  <1>6. CASE HygieneTask
    BY <1>a, <1>6 DEF TreeTypes, HygieneTask, HygieneStarts, HygieneRemoves, HygieneReports,
         HygieneFails
  <1>7. CASE Environment
    <2>1. CASE ChecksFinish
      <3>1. checks' \in [Heads -> {"pending", "pass", "fail"}]
        BY <1>a, <2>1 DEF TreeTypes, ChecksFinish
      <3>2. UNCHANGED <<treeVars, checkout, remote, pr, publication>>
        BY <2>1 DEF ChecksFinish
      <3> QED BY <1>a, <3>1, <3>2 DEF TreeTypes
    <2> QED BY <1>a, <1>7, <2>1 DEF TreeTypes, Environment, ServerExit, CrashRestart,
         MoveCheckout,
              ForeignPush, Heads
  <1> QED BY <1>1, <1>2, <1>3, <1>4, <1>5, <1>6, <1>7 DEF Next, CallStep, Procs

LEMMA CallTypesStep ==
    ASSUME TypeOK, Next
    PROVE  CallTypes'
  <1> USE DEF runVars, procVars, notRun, notProc, notTask
  <1>a. CallTypes /\ version \in Nat /\ version' \in Nat /\ version' >= version /\ Pump \in Procs
    BY RunMoves, RunTypesStep DEF TypeOK, RunTypes, Procs
  <1>b. Packet \in Packets
    <2>1. \A e \in evidence : e \in Claims
      BY DEF TypeOK, ProofTypes
    <2>2. {e \in evidence : e.head = "head"} \in SUBSET Claims
      BY <2>1
    <2>3. (decision # NoPacket) \in BOOLEAN
      OBVIOUS
    <2> HIDE DEF NoPacket
    <2> QED BY <2>2, <2>3 DEF Packet, Packets, TypeOK, ProofTypes, RunTypes
  <1>c. NoLoc \in Locals
    BY DEF NoLoc, Locals, Verdicts
  <1>d. ASSUME NEW l, NEW p \in Procs, l \in Locals, loc' = [loc EXCEPT ![p] = l],
               p = Pump => l.kind \in Verdicts
        PROVE  loc' \in [Procs -> Locals] /\ loc'[Pump].kind \in Verdicts
    BY <1>a, <1>d DEF CallTypes
  <1>1. ASSUME NEW p \in Procs, Return(p) PROVE CallTypes'
    <2>1. NoLoc.kind \in Verdicts
      BY DEF NoLoc, Verdicts
    <2>2. loc' \in [Procs -> Locals] /\ loc'[Pump].kind \in Verdicts
      BY <1>1, <1>c, <1>d, <2>1 DEF Return
    <2> QED BY <1>a, <1>1, <2>2 DEF CallTypes, Return, Locs
  <1>2. ASSUME NEW p \in Procs, NEW l \in Locs, Goto(p, l), UNCHANGED <<ver, loc>>
        PROVE  CallTypes'
    BY <1>a, <1>2 DEF CallTypes, Goto
  <1>3. ASSUME NEW p \in Procs, NEW l \in Locs, Read(p, l),
               loc' \in [Procs -> Locals] /\ loc'[Pump].kind \in Verdicts
        PROVE  CallTypes'
    BY <1>a, <1>3 DEF CallTypes, Read, Goto
  <1>4. ASSUME NEW p \in Procs, NEW n, NEW l \in Locs, transition_run(p, n, l)
        PROVE  CallTypes'
    BY <1>a, <1>1, <1>4 DEF CallTypes, transition_run, Goto
  <1>5. ASSUME NEW p \in Procs, NEW k, Count(p, k), k \in Nat \ {0}
        PROVE  loc' \in [Procs -> Locals] /\ loc'[Pump].kind \in Verdicts
    BY <1>a, <1>5 DEF CallTypes, Count, Locals
  <1>6. ASSUME NEW p \in Procs, NEW s, NEW l \in Locs, ForEachTask(p, s, l) PROVE CallTypes'
    <2>1. loc[p].i \in Nat \ {0} /\ loc[p].i + 1 \in Nat \ {0}
      BY <1>a DEF CallTypes, Locals
    <2>2. CASE Return(p)
      BY <1>1, <2>2
    <2>3. CASE /\ Count(p, 1) \/ Count(p, loc[p].i + 1)
               /\ Goto(p, l) \/ UNCHANGED pc
               /\ UNCHANGED ver
      <3>1. loc' \in [Procs -> Locals] /\ loc'[Pump].kind \in Verdicts
        BY <1>5, <2>1, <2>3
      <3> QED BY <1>a, <2>3, <3>1 DEF CallTypes, Goto
    <2> QED BY <1>6, <2>2, <2>3 DEF ForEachTask
  <1>7. ASSUME UNCHANGED procVars PROVE CallTypes'
    BY <1>a, <1>7 DEF CallTypes
  <1>e. ASSUME UNCHANGED loc PROVE loc' \in [Procs -> Locals] /\ loc'[Pump].kind \in Verdicts
    BY <1>a, <1>e DEF CallTypes
  <1>8. ASSUME NEW p \in Procs, IntegrationStep(p) PROVE CallTypes'
    <2>1. CASE IntegrationApproved(p) \/ IntegrationVerification(p) \/ EnterFinalAudit(p)
      BY <1>1, <1>4, <2>1 DEF IntegrationApproved, IntegrationVerification, EnterFinalAudit,
           Locs
    <2>2. CASE ProofStarts(p) \/ ValidationEnds(p) \/ AcceptanceEnds(p)
      BY <1>2, <2>2 DEF ProofStarts, ValidationEnds, AcceptanceEnds, Locs
    <2>3. CASE IntegrationBlocked(p) \/ LaunchFinalAuditor(p) \/ StartFinalAuditor(p)
      BY <1>1, <1>2, <2>3 DEF IntegrationBlocked, LaunchFinalAuditor, StartFinalAuditor,
           transition_run_last, Locs
    <2>4. CASE AuditUnavailable(p)
      BY <1>3, <1>e, <2>4 DEF AuditUnavailable, Locs
    <2> QED BY <1>8, <2>1, <2>2, <2>3, <2>4 DEF IntegrationStep
  <1>9. ASSUME NEW p \in Procs, DeliveryStep(p) PROVE CallTypes'
    <2>1. CASE PublicationReady(p) \/ DraftPrCreated(p) \/ Complete(p)
      BY <1>1, <1>4, <2>1 DEF PublicationReady, DraftPrCreated, Complete, transition_run_last,
           Locs
    <2>2. CASE CiProven(p) \/ CloseTasks(p)
      BY <1>1, <1>6, <2>2 DEF CiProven, CloseTasks, Locs
    <2>3. CASE CiHeadObserved(p)
      <3>1. loc' \in [Procs -> Locals] /\ loc'[Pump].kind \in Verdicts
        <4>1. remote \in Heads \cup {"none"}
          BY DEF TypeOK, TreeTypes
        <4> QED BY <1>a, <2>3, <4>1 DEF CiHeadObserved, CallTypes, Locals
      <3> QED BY <1>a, <2>3, <3>1 DEF CiHeadObserved, CallTypes, Goto, Locs
    <2>4. CASE \/ SignoffApproved(p) \/ AcceptanceAttested(p) \/ SignoffChangesRefused(p)
               \/ PushChecked(p) \/ Push(p)
      BY <1>1, <1>2, <2>4 DEF SignoffApproved, AcceptanceAttested, SignoffChangesRefused,
           PushChecked, Push, Locs
    <2>5. CASE CreateDraftPr(p) \/ PublicationRecorded(p) \/ CiChecksObserved(p)
      BY <1>1, <1>2, <2>5 DEF CreateDraftPr, PublicationRecorded, CiChecksObserved, Locs
    <2> QED BY <1>9, <2>1, <2>2, <2>3, <2>4, <2>5 DEF DeliveryStep
  <1>10. ASSUME NEW p \in Procs, StopStep(p) \/ PinWorktree(p) PROVE CallTypes'
    <2>1. CASE Stopping(p) \/ Canceled(p) \/ Archived(p)
      BY <1>1, <1>4, <2>1 DEF Stopping, Canceled, Archived, transition_run_last, Locs
    <2>2. CASE CancelTask(p)
      <3>1. loc[p].i + 1 \in Nat \ {0}
        BY <1>a DEF CallTypes, Locals
      <3>2. loc' \in [Procs -> Locals] /\ loc'[Pump].kind \in Verdicts
        BY <1>5, <2>2, <3>1 DEF CancelTask
      <3> QED BY <1>a, <2>2, <3>2 DEF CancelTask, CallTypes
    <2>3. CASE StopPauses(p)
      BY <1>a, <2>3 DEF StopPauses, CallTypes, Goto, Locs
    <2>4. CASE StopInterrupts(p) \/ CancelWorktrees(p) \/ PinWorktree(p)
      BY <1>1, <1>2, <2>4 DEF StopInterrupts, CancelWorktrees, PinWorktree, Locs
    <2>5. CASE FinishStoppingIfIdle(p)
      BY <1>1, <1>3, <1>e, <2>5 DEF FinishStoppingIfIdle, Locs
    <2> QED BY <1>10, <2>1, <2>2, <2>3, <2>4, <2>5 DEF StopStep
  <1>11. ASSUME NEW p \in Procs, RefreshCi(p) PROVE CallTypes'
    <2>1. checkout \in Heads
      BY DEF TypeOK, TreeTypes
    <2>2. loc' \in [Procs -> Locals] /\ loc'[Pump].kind \in Verdicts
      BY <1>a, <1>11, <2>1 DEF RefreshCi, CallTypes, Locals
    <2> QED BY <1>3, <1>11, <2>2 DEF RefreshCi, Locs
  <1>12. ASSUME NEW p \in Operators, OperatorCall(p) PROVE CallTypes'
    <2>a. p \in Procs /\ p # Pump
      BY DeliveryAssumption DEF Procs
    <2>1. CASE ReviewPacket(p)
      <3>1. loc' \in [Procs -> Locals] /\ loc'[Pump].kind \in Verdicts
        BY <1>a, <1>b, <2>a, <2>1 DEF ReviewPacket, CallTypes, Locals
      <3> QED BY <1>a, <2>1, <3>1 DEF ReviewPacket, CallTypes
    <2>2. CASE StopRun(p)
      <3>1. loc' \in [Procs -> Locals] /\ loc'[Pump].kind \in Verdicts
        BY <1>a, <2>a, <2>2 DEF StopRun, Name, CallTypes, Locals
      <3> QED BY <1>3, <2>a, <2>2, <3>1 DEF StopRun, Locs
    <2>3. CASE \/ ApproveIntegration(p) \/ SignoffCall(p) \/ PublishDraftPr(p)
               \/ ArchiveRun(p)
      BY <1>3, <1>e, <2>a, <2>3 DEF ApproveIntegration, SignoffCall, PublishDraftPr,
           ArchiveRun, Locs
    <2>4. CASE PreserveWorktree(p)
      BY <1>2, <2>a, <2>4 DEF PreserveWorktree, Locs
    <2> QED BY <1>11, <1>12, <2>a, <2>1, <2>2, <2>3, <2>4 DEF OperatorCall
  <1>13. CASE PumpStep
    <2>1. CASE AuditDecided \/ AuditVerdictRecorded
      BY <1>a, <1>1, <1>2, <2>1 DEF AuditDecided, AuditVerdictRecorded, transition_run_last,
           Locs
    <2>2. CASE AuditVerdict
      <3>1. loc' \in [Procs -> Locals] /\ loc'[Pump].kind \in Verdicts
        BY <1>a, <2>2 DEF AuditVerdict, Name, CallTypes, Locals, Verdicts
      <3> QED BY <1>a, <1>3, <1>7, <2>2, <3>1 DEF AuditVerdict, Locs
    <2>3. CASE AuditorTurnCompleted
      BY <1>a, <2>3 DEF AuditorTurnCompleted, Read, Goto, CallTypes, Locs
    <2> QED BY <1>13, <2>1, <2>2, <2>3 DEF PumpStep
  <1>14. CASE CrashRestart
    BY <1>a, <1>c, <1>14 DEF CrashRestart, CallTypes, NoLoc, Verdicts, Locs
  <1>15. CASE PauseScheduler \/ HygieneTask \/ Environment
    BY <1>7, <1>14, <1>15 DEF PauseScheduler, HygieneTask, HygieneStarts, HygieneRemoves,
         HygieneReports, HygieneFails, Environment, ServerExit, MoveCheckout, ForeignPush,
         ChecksFinish
  <1> QED BY <1>8, <1>9, <1>10, <1>11, <1>12, <1>13, <1>15 DEF Next, CallStep, Procs

LEMMA TypesInit ==
    ASSUME Init
    PROVE  TypeOK
  <1> USE DEF Init
  <1>a. Pump \in Procs /\ NoLoc \in Locals /\ NoLoc.kind \in Verdicts
    BY DEF Procs, NoLoc, Locals, Verdicts
  <1>1. RunTypes
    BY DEF RunTypes, RunStates, TaskStates
  <1>2. ProofTypes
    BY DEF ProofTypes, Validations, Results, Verdicts
  <1>3. TreeTypes
    BY DEF TreeTypes, Heads
  <1>4. CallTypes
    BY <1>a DEF CallTypes, Locs
  <1> QED BY <1>1, <1>2, <1>3, <1>4 DEF TypeOK

LEMMA TypesStep ==
    ASSUME TypeOK, [Next]_vars
    PROVE  TypeOK'
  <1>1. CASE Next
    BY <1>1, RunTypesStep, ProofTypesStep, TreeTypesStep, CallTypesStep DEF TypeOK
  <1>2. CASE UNCHANGED vars
    BY <1>2 DEF TypeOK, RunTypes, ProofTypes, TreeTypes, CallTypes, vars, runVars, proofVars,
         treeVars, agentVars, hubVars, procVars, bounds
  <1> QED BY <1>1, <1>2

(* Every variable keeps its type: no call ever holds a version the run has  *)
(* not had, and a packet the operator decides on is made of the records.    *)
THEOREM TypeOKHolds == Spec => []TypeOK
  BY TypesInit, TypesStep, PTL DEF Spec

-----------------------------------------------------------------------------
(* Approvals of one candidate race for one version: whoever wins it is the  *)
(* only call between approval and audit, and no audit has begun before.     *)
OneChain ==
    /\ run = "INTEGRATION_READY" => audits = 0 /\ \A p \in Procs : pc[p] \notin Chain
    /\ \A p \in Procs : pc[p] = "i_approve" /\ ver[p] = version => run = "INTEGRATION_READY"
    /\ \A p, q \in Procs : pc[p] \in Chain /\ pc[q] \in Chain => p = q
    /\ \A p \in Procs : pc[p] \in Chain => audits = 0
    /\ audits <= 1

(* That call carries the proofs of the head until it enters the audit.      *)
HeadProven ==
    /\ \A p \in Procs : pc[p] \in {"i_accept", "i_accepting", "i_final"} =>
          validation = [result |-> "success", on |-> "head"]
    /\ \A p \in Procs : pc[p] = "i_final" => acceptance = "success"
    /\ run \in {"FINAL_AUDIT"} \cup Reviewed => \A p \in Procs : pc[p] \notin Proving
    /\ AuditedHeadProven

(* The verdict is written while the run is in FINAL_AUDIT or is given up,   *)
(* so it does not change under a signoff.                                   *)
VerdictOnce ==
    /\ run \in Reviewed => audit = "accept"
    /\ pc[Pump] \in Verdict => run \in {"FINAL_AUDIT"} \cup Dying
    /\ \A p \in Procs : pc[p] \in {"h_sign", "h_ready"} =>
          audit = "accept" /\ run \notin Early /\ pc[Pump] \notin Verdict

DecisionProven ==
    /\ decision # NoPacket => decision.audit = "accept" /\ ~ Unproved(decision)
    /\ \A p \in Procs : pc[p] = "h_sign" => loc[p].seen # NoPacket
    /\ \A p \in Procs : pc[p] = "h_ready" => decision # NoPacket
    /\ run \in Signed => decision # NoPacket

(* A call that stops the run and one that closes its tasks exclude each     *)
(* other through the state of the run.                                      *)
OneStory ==
    /\ \A p \in Procs : pc[p] \in StopLocs => run \in Dying
    /\ \A p \in Procs : pc[p] = "close" => run \in Finished
    /\ \A p, q \in Procs : ~ (pc[p] \in StopLocs /\ pc[q] = "close")
    /\ \A p \in Procs, t \in Tasks : pc[p] \in StopLocs => task[t] # "CLOSED"
    /\ \A p \in Procs : pc[p] \notin Counting => loc[p].i = 1
    /\ \A p \in Procs, t \in Tasks : pc[p] = "s_cancel" /\ t < loc[p].i => task[t] = "CANCELED"
    /\ \A p \in Procs, t \in Tasks : pc[p] = "s_canceled" => task[t] = "CANCELED"
    /\ \A t \in Tasks : task[t] = "CANCELED" => run \in Dying
    /\ \A t \in Tasks : task[t] = "CLOSED" => run \in Finished
    /\ run = "CANCELED" => \A t \in Tasks : task[t] = "CANCELED"

Undisturbed == moves = 0 /\ pushes = 0

(* While nobody moves checkout or branch, what the CI poll observed in two  *)
(* commands was the integrated head both times.                             *)
CiOnHead ==
    Undisturbed =>
      /\ checkout = "head" /\ remote \in {"none", "head"}
      /\ \A p \in Procs : pc[p] = "c_checks" /\ loc[p].observed = "head" => remote = "head"
      /\ \A p \in Procs : pc[p] = "c_prove" \/ (pc[p] = "complete" /\ profile.ci) =>
            checks["head"] = "pass"
      /\ CiProvenOnHead

(* Removal and preservation exclude each other by hygiene_lock.             *)
LockHeld ==
    /\ cleanup # "idle" => lock = "hygiene"
    /\ \A p \in Procs : pc[p] = "w_pin" => lock = p /\ worktree # "REMOVED"
    /\ PreservedNeverRemoved

DInv == /\ TypeOK /\ OneChain /\ HeadProven /\ VerdictOnce /\ DecisionProven /\ OneStory
        /\ CiOnHead /\ LockHeld

-----------------------------------------------------------------------------
(* The parts of the invariant, one by one.                                  *)
LEMMA OneChainStep ==
    ASSUME DInv, Next
    PROVE  OneChain'
  <1>a. TypeOK /\ OneChain
    BY DEF DInv
  <1>b. version \in Nat /\ audits \in Nat /\ \A p \in Procs : ver[p] \in Nat /\ ver[p] <= version
    BY <1>a DEF TypeOK, RunTypes, CallTypes
  <1>c. DOMAIN pc = Procs
    BY <1>a DEF TypeOK, CallTypes
  <1>1. run' = "INTEGRATION_READY" => run = "INTEGRATION_READY"
    BY <1>a, RunMoves
  (* whoever is in the chain was there before, or has just won the version *)
  <1>2. ASSUME NEW q \in Procs, pc'[q] \in Chain
        PROVE  \/ pc[q] \in Chain
               \/ /\ IntegrationApproved(q) /\ run = "INTEGRATION_READY" /\ run' = "INTEGRATING"
                  /\ UNCHANGED audits /\ \A p \in Procs \ {q} : pc'[p] = pc[p]
    <2>1. CASE Same(q) \/ pc[q] \in Chain
      BY <1>2, <2>1 DEF Same
    <2>2. CASE IntegrationApproved(q) /\ ver[q] = version /\ run' = "INTEGRATING"
      <3>1. pc[q] = "i_approve" /\ UNCHANGED audits
        BY <2>2 DEF IntegrationApproved, notRun, agentVars
      <3>2. \A p \in Procs \ {q} : pc'[p] = pc[p]
        BY <2>2, <1>c DEF IntegrationApproved, transition_run, Goto, Return
      <3> QED BY <1>a, <2>2, <3>1, <3>2 DEF OneChain
    <2> QED BY <1>2, <1>a, <2>1, <2>2, Entered
  <1>3. \/ UNCHANGED audits
        \/ \E p \in Procs : pc[p] = "i_start" /\ pc'[p] = "idle" /\ audits' = audits + 1
    <2>1. ASSUME NEW p \in Procs, StartFinalAuditor(p)
          PROVE  \/ UNCHANGED audits
                 \/ pc[p] = "i_start" /\ pc'[p] = "idle" /\ audits' = audits + 1
      BY <1>c, <2>1 DEF StartFinalAuditor, Return
    <2> QED BY <2>1, Writers
  <1>4. (run = "INTEGRATION_READY" => audits = 0 /\ \A p \in Procs : pc[p] \notin Chain)'
    BY <1>a, <1>1, <1>2, <1>3 DEF OneChain, Chain
  <1>5. ASSUME NEW q \in Procs, (pc[q] = "i_approve" /\ ver[q] = version)'
        PROVE  run' = "INTEGRATION_READY"
    <2>1. CASE ApproveIntegration(q)
      BY <2>1 DEF ApproveIntegration, notProc, runVars
    <2>2. CASE Same(q)
      <3>1. version' = version /\ run' = run
        BY <1>a, <1>b, <1>5, <2>2, RunMoves DEF Same
      <3> QED BY <1>a, <1>5, <2>2, <3>1 DEF OneChain, Same
    <2> QED BY <1>a, <1>5, <2>1, <2>2, Entered
  <1>6. ASSUME NEW p \in Procs, NEW q \in Procs, pc'[p] \in Chain, pc'[q] \in Chain
        PROVE  p = q
    <2>1. "i_approve" \notin Chain
      BY DEF Chain, Proving
    <2>2. \A r \in Procs : IntegrationApproved(r) => pc[r] = "i_approve"
      BY DEF IntegrationApproved
    <2> QED BY <1>a, <1>2, <1>6, <2>1, <2>2 DEF OneChain
  <1>7. ASSUME NEW q \in Procs, pc'[q] \in Chain PROVE audits' = 0
    <2>1. "idle" \notin Chain /\ "i_start" \in Chain
      BY DEF Chain, Proving
    <2> QED BY <1>a, <1>2, <1>3, <1>7, <2>1 DEF OneChain
  <1>8. audits' <= 1
    <2>1. "i_start" \in Chain
      BY DEF Chain
    <2> QED BY <1>a, <1>b, <1>3, <2>1 DEF OneChain
  <1> QED BY <1>4, <1>5, <1>6, <1>7, <1>8 DEF OneChain

LEMMA HeadProvenStep ==
    ASSUME DInv, Next
    PROVE  HeadProven'
  <1>a. TypeOK /\ OneChain /\ HeadProven
    BY DEF DInv
  <1> DEFINE Valid == [result |-> "success", on |-> "head"]
  <1>1. \/ UNCHANGED <<validation, acceptance>>
        \/ \E p \in Procs : /\ pc[p] = "i_validating" /\ ValidationEnds(p)
                            /\ UNCHANGED <<acceptance, run>>
        \/ \E p \in Procs : /\ pc[p] = "i_accepting" /\ AcceptanceEnds(p)
                            /\ UNCHANGED <<validation, run>>
    BY Writers DEF ValidationEnds, AcceptanceEnds, runVars
  (* the writer of a proof is alone in the chain *)
  <1>2. ASSUME NEW q \in Procs, pc[q] \in {"i_accept", "i_accepting", "i_final"}
        PROVE  UNCHANGED validation /\ (pc[q] = "i_final" => UNCHANGED acceptance)
    BY <1>a, <1>1, <1>2 DEF OneChain, Chain, Proving
  <1>3. ASSUME NEW q \in Procs, ValidationEnds(q), pc'[q] = "i_accept" PROVE validation' = Valid
    <2>1. DOMAIN pc = Procs
      BY <1>a DEF TypeOK, CallTypes
    <2> QED BY <1>3, <2>1 DEF ValidationEnds, Goto, Outcome
  <1>4. ASSUME NEW q \in Procs, AcceptanceEnds(q), pc'[q] = "i_final"
        PROVE  acceptance' = "success" /\ UNCHANGED validation /\ pc[q] = "i_accepting"
    <2>1. DOMAIN pc = Procs
      BY <1>a DEF TypeOK, CallTypes
    <2> QED BY <1>4, <2>1 DEF AcceptanceEnds, Goto, Outcome
  <1>5. ASSUME NEW q \in Procs, pc'[q] \in {"i_accept", "i_accepting", "i_final"}
        PROVE  validation' = Valid
    <2>1. CASE Same(q) \/ pc[q] = "i_accept"
      BY <1>a, <1>2, <1>5, <2>1 DEF HeadProven, Same
    <2>2. CASE pc'[q] = "i_final" /\ AcceptanceEnds(q)
      BY <1>a, <1>4, <2>2 DEF HeadProven
    <2> QED BY <1>3, <1>5, <1>a, <2>1, <2>2, Entered
  <1>6. ASSUME NEW q \in Procs, pc'[q] = "i_final" PROVE acceptance' = "success"
    BY <1>a, <1>2, <1>4, <1>6, Entered DEF HeadProven, Same
  (* the audit is entered by the call that holds both proofs *)
  <1>7. ASSUME run' \in {"FINAL_AUDIT"} \cup Reviewed
        PROVE  \/ run \in {"FINAL_AUDIT"} \cup Reviewed
               \/ \E p \in Procs : EnterFinalAudit(p) /\ pc'[p] \notin Proving
    <2>1. ASSUME NEW p \in Procs, EnterFinalAudit(p) PROVE pc'[p] \notin Proving
      <3>1. DOMAIN pc = Procs
        BY <1>a DEF TypeOK, CallTypes
      <3> QED BY <2>1, <3>1 DEF EnterFinalAudit, transition_run, Goto, Return, Proving
    <2> QED BY <1>7, <1>a, <2>1, RunMoves, RunForward
  <1>8. ASSUME run' \in {"FINAL_AUDIT"} \cup Reviewed, NEW q \in Procs, pc'[q] \in Proving
        PROVE  FALSE
    <2>1. pc[q] \in Proving
      <3>1. pc'[q] \in Chain /\ run' # "INTEGRATING"
        BY <1>8 DEF Chain, Reviewed
      <3> QED BY <1>8, <1>a, <3>1, Entered DEF Same
    <2>2. PICK p \in Procs : EnterFinalAudit(p) /\ pc'[p] \notin Proving
      BY <1>7, <1>8, <1>a, <2>1 DEF HeadProven
    <2>3. p = q
      BY <1>a, <2>1, <2>2 DEF OneChain, EnterFinalAudit, Chain, Proving
    <2> QED BY <1>8, <2>2, <2>3
  <1>9. AuditedHeadProven'
    <2>1. CASE run \in {"FINAL_AUDIT"} \cup Reviewed
      <3>1. UNCHANGED <<validation, acceptance>>
        BY <1>a, <1>1, <2>1 DEF HeadProven, Proving
      <3> QED BY <1>a, <2>1, <3>1 DEF HeadProven, AuditedHeadProven
    <2>2. ASSUME NEW p \in Procs, EnterFinalAudit(p) PROVE AuditedHeadProven'
      <3>1. pc[p] = "i_final" /\ UNCHANGED <<validation, acceptance>>
        BY <2>2 DEF EnterFinalAudit, notRun, proofVars
      <3> QED BY <1>a, <3>1 DEF HeadProven, AuditedHeadProven
    <2> QED BY <1>7, <2>1, <2>2 DEF AuditedHeadProven
  <1> QED BY <1>5, <1>6, <1>8, <1>9 DEF HeadProven

LEMMA VerdictOnceStep ==
    ASSUME DInv, Next
    PROVE  VerdictOnce'
  <1>a. TypeOK /\ VerdictOnce /\ Pump \in Procs /\ DOMAIN pc = Procs
    BY DEF DInv, TypeOK, CallTypes, Procs
  <1>1. \/ UNCHANGED audit
        \/ AuditVerdictRecorded /\ pc[Pump] = "v_record" /\ UNCHANGED run
    BY Writers DEF AuditVerdictRecorded, runVars
  <1>2. ASSUME run' \in Reviewed PROVE audit' = "accept"
    <2>1. CASE run \in Reviewed
      BY <1>a, <1>1, <2>1 DEF VerdictOnce, Verdict, Dying, Reviewed
    <2>2. CASE run = "FINAL_AUDIT"
      <3>1. AuditDecided /\ audit = "accept"
        BY <1>a, <1>2, <2>2, RunMoves DEF Reviewed, RunMay, RunProgress
      <3> QED BY <3>1 DEF AuditDecided, notRun, proofVars
    <2> QED BY <1>a, <1>2, <2>1, <2>2, RunForward
  <1>3. ASSUME pc'[Pump] \in Verdict PROVE run' \in {"FINAL_AUDIT"} \cup Dying
    <2>1. CASE AuditVerdict /\ run = "FINAL_AUDIT"
      BY <2>1 DEF AuditVerdict, runVars
    <2>2. CASE Same(Pump) \/ AuditVerdictRecorded
      <3>1. pc[Pump] \in Verdict /\ ~ (AuditDecided /\ run' # run)
        BY <1>a, <1>3, <2>2 DEF Same, AuditVerdictRecorded, AuditDecided, transition_run_last,
             Return, Verdict, runVars
      <3>2. run \in {"FINAL_AUDIT"} \cup Dying
        BY <1>a, <3>1 DEF VerdictOnce
      <3>3. CASE run \in Dying
        BY <1>a, <3>3, RunForward
      <3>4. CASE run = "FINAL_AUDIT"
        BY <1>a, <3>1, <3>4, RunMoves DEF RunMay, RunProgress, Dying
      <3> QED BY <3>2, <3>3, <3>4
    <2> QED BY <1>a, <1>3, <2>1, <2>2, Entered
  <1>4. ASSUME NEW p \in Procs, pc'[p] \in {"h_sign", "h_ready"}
        PROVE  (audit = "accept" /\ run \notin Early /\ pc[Pump] \notin Verdict)'
    <2>1. audit = "accept" /\ run \notin Early /\ pc[Pump] \notin Verdict
      <3>1. CASE Same(p) \/ SignoffApproved(p)
        BY <1>a, <1>4, <3>1 DEF VerdictOnce, Same, SignoffApproved
      <3>2. CASE SignoffCall(p)
        BY <1>a, <3>2 DEF SignoffCall, VerdictOnce, Reviewed, Early, Dying
      <3> QED BY <1>a, <1>4, <3>1, <3>2, Entered
    <2>2. audit' = "accept" /\ run' \notin Early
      BY <1>a, <1>1, <2>1, RunForward DEF Verdict
    <2>3. pc'[Pump] \notin Verdict
      <3>1. ~ AuditVerdictRecorded /\ run # "FINAL_AUDIT"
        BY <2>1 DEF AuditVerdictRecorded, Verdict, Early
      <3> QED BY <1>a, <2>1, <3>1, Entered DEF Same
    <2> QED BY <2>2, <2>3
  <1> QED BY <1>2, <1>3, <1>4 DEF VerdictOnce

LEMMA DecisionProvenStep ==
    ASSUME DInv, Next
    PROVE  DecisionProven'
  <1>a. TypeOK /\ VerdictOnce /\ DecisionProven
    BY DEF DInv
  <1>b. UNCHANGED profile
    BY Writers
  <1>c. DOMAIN pc = Procs /\ \A p \in Procs : loc[p] \in Locals
    BY <1>a DEF TypeOK, CallTypes
  <1>1. ASSUME NEW p \in Procs, SignoffApproved(p)
        PROVE  \/ UNCHANGED decision /\ pc'[p] = "idle"
               \/ /\ decision' # NoPacket /\ decision'.audit = "accept"
                  /\ ~ Unproved(decision)'
    <2>1. CASE UNCHANGED decision /\ Return(p)
      BY <1>c, <2>1 DEF Return
    <2>2. CASE decision' = loc[p].seen /\ Packet = loc[p].seen /\ ~ Unproved(Packet)
      <3>1. Packet.audit = audit
        BY DEF Packet
      <3>2. audit = "accept" /\ loc[p].seen # NoPacket
        BY <1>1, <1>a DEF SignoffApproved, VerdictOnce, DecisionProven
      <3>3. ~ Unproved(decision)'
        BY <1>b, <2>2 DEF Unproved
      <3> QED BY <2>2, <3>1, <3>2, <3>3
    <2> QED BY <1>1, <2>1, <2>2 DEF SignoffApproved, checked_signoff_packet
  <1>2. ASSUME decision' # NoPacket
        PROVE  decision'.audit = "accept" /\ ~ Unproved(decision)'
    <2>1. CASE UNCHANGED decision
      BY <1>2, <1>a, <1>b, <2>1 DEF DecisionProven, Unproved
    <2> QED BY <1>1, <1>2, <2>1, Writers
  <1>3. ASSUME decision # NoPacket PROVE decision' # NoPacket
    BY <1>1, <1>3, Writers
  <1>4. ASSUME NEW p \in Procs, pc'[p] = "h_sign" PROVE loc'[p].seen # NoPacket
    BY <1>4, <1>a, Entered DEF Same, SignoffCall, DecisionProven
  <1>5. ASSUME NEW p \in Procs, pc'[p] = "h_ready" PROVE decision' # NoPacket
    BY <1>1, <1>3, <1>5, <1>a, Entered DEF Same, DecisionProven
  <1>6. ASSUME run' \in Signed PROVE decision' # NoPacket
    <2>1. CASE run \in Signed
      BY <1>3, <1>a, <2>1 DEF DecisionProven
    <2>2. ASSUME NEW p \in Procs, PublicationReady(p) PROVE decision' # NoPacket
      BY <1>3, <1>a, <2>2 DEF DecisionProven, PublicationReady
    <2>3. CASE run = "HUMAN_REVIEW"
      <3>1. \E p \in Procs : PublicationReady(p)
        BY <1>6, <1>a, <2>3, RunMoves DEF Signed, RunMay, RunProgress
      <3> QED BY <2>2, <3>1
    <2> QED BY <1>6, <1>a, <2>1, <2>3, RunForward
  <1> QED BY <1>2, <1>4, <1>5, <1>6 DEF DecisionProven

LEMMA OneStoryStep ==
    ASSUME DInv, Next
    PROVE  OneStory'
  <1>a. TypeOK /\ OneStory
    BY DEF DInv
  <1>b. /\ DOMAIN pc = Procs /\ DOMAIN loc = Procs
        /\ run \in RunStates /\ Tasks' = Tasks
        /\ \A t \in Tasks : t \in Nat /\ t >= 1
        /\ \A p \in Procs : loc[p] \in Locals /\ loc[p].i \in Nat
    BY <1>a DEF TypeOK, RunTypes, CallTypes, Locals, Tasks
  (* a run begins to stop while it is not finished, and completes while it is not given up *)
  <1>1. ASSUME NEW p \in Procs, pc'[p] \in StopLocs
        PROVE  \/ pc[p] \in StopLocs
               \/ run' = "STOPPING" /\ run \notin Finished /\ UNCHANGED task
    <2>1. CASE Stopping(p) /\ run' = "STOPPING"
      <3>1. UNCHANGED task
        BY <2>1 DEF Stopping, notRun
      <3>2. run \notin Finished
        BY <1>a, <2>1, RunForward DEF Finished
      <3> QED BY <2>1, <3>1, <3>2
    <2>2. CASE AuditorTurnCompleted /\ run = "STOPPING"
      BY <2>2 DEF AuditorTurnCompleted, runVars, Finished
    <2> QED BY <1>1, <1>a, <2>1, <2>2, Entered DEF Same
  <1>2. ASSUME NEW p \in Procs, pc'[p] = "close"
        PROVE  pc[p] = "close" \/ (run' = "COMPLETED" /\ run \notin Dying)
    <2>1. ASSUME run' = "COMPLETED" PROVE run \notin Dying
      BY <1>a, <2>1, RunForward DEF Dying
    <2> QED BY <1>2, <1>a, <2>1, Entered DEF Same
  <1>3. ASSUME NEW p \in Procs, pc'[p] \in StopLocs PROVE run' \in Dying
    BY <1>1, <1>3, <1>a, RunForward DEF OneStory, Dying
  <1>4. ASSUME NEW p \in Procs, pc'[p] = "close" PROVE run' \in Finished
    BY <1>2, <1>4, <1>a, RunForward DEF OneStory, Finished
  <1>5. ASSUME NEW p \in Procs, NEW q \in Procs, pc'[p] \in StopLocs, pc'[q] = "close"
        PROVE  FALSE
    BY <1>1, <1>2, <1>5, <1>a DEF OneStory
  <1>6. ASSUME NEW t \in Tasks, task'[t] = "CLOSED" PROVE run' \in Finished
    <2>1. CASE task[t] = "CLOSED"
      BY <1>a, <2>1, RunForward DEF OneStory
    <2>2. ASSUME NEW p \in Procs, CloseTasks(p) PROVE run' \in Finished
      BY <1>a, <2>2 DEF CloseTasks, OneStory, notTask, runVars
    <2> QED BY <1>6, <1>a, <2>1, <2>2, TaskMoves
  <1>7. ASSUME NEW t \in Tasks, task'[t] = "CANCELED" PROVE run' \in Dying
    <2>1. CASE task[t] = "CANCELED"
      BY <1>a, <2>1, RunForward DEF OneStory
    <2>2. ASSUME NEW p \in Procs, CancelTask(p) PROVE run' \in Dying
      BY <1>a, <2>2 DEF CancelTask, OneStory, StopLocs, notTask, runVars
    <2> QED BY <1>7, <1>a, <2>1, <2>2, TaskMoves
  <1>8. ASSUME NEW p \in Procs, NEW t \in Tasks, pc'[p] \in StopLocs PROVE task'[t] # "CLOSED"
    <2>1. task[t] # "CLOSED"
      BY <1>1, <1>8, <1>a DEF OneStory
    <2>2. CASE pc[p] \in StopLocs
      <3>1. ASSUME NEW q \in Procs, CloseTasks(q) PROVE FALSE
        BY <1>a, <2>2, <3>1 DEF OneStory, CloseTasks
      <3> QED BY <1>a, <2>1, <3>1, TaskMoves
    <2> QED BY <1>1, <1>8, <2>1, <2>2
  <1>9. ASSUME NEW p \in Procs, pc'[p] \notin Counting PROVE loc'[p].i = 1
    BY <1>9, <1>a, Entered DEF OneStory
  <1>10. ASSUME NEW t \in Tasks, task[t] = "CANCELED" PROVE task'[t] = "CANCELED"
    BY <1>10, <1>a, TaskMoves
  (* the loop leaves a canceled prefix behind *)
  <1>11. ASSUME NEW p \in Procs, NEW t \in Tasks, pc'[p] = "s_cancel", t < loc'[p].i
         PROVE  task'[t] = "CANCELED"
    <2>1. CASE Same(p)
      BY <1>10, <1>11, <1>a, <2>1 DEF OneStory, Same
    <2>2. CASE pc[p] \in {"s_interrupt", "s_idle"} /\ loc'[p] = loc[p]
      BY <1>11, <1>a, <1>b, <2>2 DEF OneStory, Counting
    <2>3. CASE CancelTask(p)
      <3>1. pc[p] = "s_cancel" /\ loc'[p].i = loc[p].i + 1
        BY <1>b, <2>3 DEF CancelTask, Count, Locals
      <3>2. CASE t < loc[p].i
        BY <1>10, <1>a, <3>1, <3>2 DEF OneStory
      <3>3. CASE t = loc[p].i
        <4>1. task[t] # "CLOSED" /\ task \in [Tasks -> TaskStates]
          BY <1>a, <3>1 DEF OneStory, StopLocs, TypeOK, RunTypes
        <4> QED BY <2>3, <3>3, <4>1 DEF CancelTask, CancelSkips, TaskTerminal, TaskStates
      <3> QED BY <1>11, <1>b, <3>1, <3>2, <3>3
    <2> QED BY <1>11, <1>a, <2>1, <2>2, <2>3, Entered
  <1>12. ASSUME NEW p \in Procs, NEW t \in Tasks, pc'[p] = "s_canceled"
         PROVE  task'[t] = "CANCELED"
    <2>1. CASE Same(p)
      BY <1>10, <1>12, <1>a, <2>1 DEF OneStory, Same
    <2>2. CASE CancelWorktrees(p)
      <3>1. pc[p] = "s_cancel" /\ t < loc[p].i
        BY <1>b, <2>2, DeliveryAssumption DEF CancelWorktrees, Tasks
      <3> QED BY <1>10, <1>a, <3>1 DEF OneStory
    <2> QED BY <1>12, <1>a, <2>1, <2>2, Entered
  <1>13. ASSUME run' = "CANCELED", NEW t \in Tasks PROVE task'[t] = "CANCELED"
    <2>1. CASE run = "CANCELED"
      BY <1>10, <1>a, <2>1 DEF OneStory
    <2>2. ASSUME NEW p \in Procs, Canceled(p) PROVE task'[t] = "CANCELED"
      BY <1>10, <1>a, <2>2 DEF Canceled, OneStory
    <2> QED BY <1>13, <1>a, <2>1, <2>2, RunMoves
  <1> QED BY <1>b, <1>3, <1>4, <1>5, <1>6, <1>7, <1>8, <1>9, <1>11, <1>12, <1>13 DEF OneStory

LEMMA CiOnHeadStep ==
    ASSUME DInv, Next
    PROVE  CiOnHead'
  <1> SUFFICES ASSUME Undisturbed'
               PROVE  /\ checkout' = "head" /\ remote' \in {"none", "head"}
                      /\ \A p \in Procs : pc'[p] = "c_checks" /\ loc'[p].observed = "head" =>
                            remote' = "head"
                      /\ \A p \in Procs :
                            pc'[p] = "c_prove" \/ (pc'[p] = "complete" /\ profile'.ci)
                            => checks'["head"] = "pass"
                      /\ CiProvenOnHead'
    BY DEF CiOnHead
  <1>a. TypeOK /\ CiOnHead
    BY DEF DInv
  <1>b. /\ DOMAIN pc = Procs /\ DOMAIN loc = Procs /\ moves \in Nat /\ pushes \in Nat
        /\ \A p \in Procs : loc[p] \in Locals
        /\ checks \in [Heads -> {"pending", "pass", "fail"}]
    BY <1>a DEF TypeOK, RunTypes, TreeTypes, CallTypes
  <1>1. Undisturbed /\ ~ MoveCheckout /\ ~ ForeignPush
    <2>1. ~ MoveCheckout /\ ~ ForeignPush
      BY <1>b DEF Undisturbed, MoveCheckout, ForeignPush
    <2>2. UNCHANGED <<moves, pushes>>
      BY <2>1, Writers DEF Push, ChecksFinish, bounds
    <2> QED BY <2>1, <2>2 DEF Undisturbed
  <1>2. checkout = "head" /\ remote \in {"none", "head"}
    BY <1>a, <1>1 DEF CiOnHead
  <1>3. /\ checkout' = "head" /\ remote' \in {"none", "head"}
        /\ remote = "head" => remote' = "head"
    BY <1>1, <1>2, Writers DEF Push, ChecksFinish
  <1>4. checks["head"] = "pass" => checks'["head"] = "pass"
    <2>1. ASSUME ChecksFinish PROVE checks["head"] = "pass" => checks'["head"] = "pass"
      BY <1>b, <2>1 DEF ChecksFinish, Heads
    <2> QED BY <1>1, <2>1, Writers DEF Push
  <1>5. ASSUME NEW p \in Procs, pc'[p] = "c_checks", loc'[p].observed = "head"
        PROVE  remote' = "head"
    <2>1. CASE Same(p)
      BY <1>3, <1>5, <1>a, <1>1, <2>1 DEF CiOnHead, Same
    <2>2. CASE CiHeadObserved(p)
      BY <1>b, <1>3, <1>5, <2>2 DEF CiHeadObserved, Locals
    <2> QED BY <1>5, <1>a, <2>1, <2>2, Entered
  <1>6. ASSUME NEW p \in Procs, pc'[p] = "c_prove" PROVE checks'["head"] = "pass"
    <2>1. CASE Same(p) \/ CiProven(p)
      BY <1>4, <1>6, <1>a, <1>1, <2>1 DEF CiOnHead, Same, CiProven
    <2>2. CASE CiChecksObserved(p)
      <3>1. pc[p] = "c_checks" /\ classify_required_ci_observation(p) = "pass"
        BY <1>b, <1>6, <2>2 DEF CiChecksObserved, Return
      <3>2. loc[p].observed = "head" /\ checks[remote] = "pass"
        BY <3>1 DEF classify_required_ci_observation
      <3> QED BY <1>1, <1>4, <1>a, <3>1, <3>2 DEF CiOnHead
    <2> QED BY <1>6, <1>a, <2>1, <2>2, Entered
  <1>7. ASSUME NEW p \in Procs, pc'[p] = "complete", profile'.ci PROVE checks'["head"] = "pass"
    <2>1. profile.ci
      BY <1>7, Writers
    <2> QED BY <1>1, <1>4, <1>7, <1>a, <2>1, Entered DEF CiOnHead, Same
  <1>8. ASSUME NEW t \in Tasks, task'[t] = "CI_PROVEN" PROVE checks'["head"] = "pass"
    <2>1. CASE task[t] = "CI_PROVEN"
      BY <1>1, <1>4, <1>a, <2>1 DEF CiOnHead, CiProvenOnHead
    <2>2. ASSUME NEW p \in Procs, CiProven(p) PROVE checks'["head"] = "pass"
      BY <1>1, <1>4, <1>a, <2>2 DEF CiOnHead, CiProven
    <2> QED BY <1>8, <1>a, <2>1, <2>2, TaskMoves
  <1>9. ASSUME run' = "COMPLETED", profile'.ci PROVE checks'["head"] = "pass"
    <2>1. profile.ci
      BY <1>9, Writers
    <2>2. CASE run = "COMPLETED"
      BY <1>1, <1>4, <1>a, <2>1, <2>2 DEF CiOnHead, CiProvenOnHead
    <2>3. ASSUME NEW p \in Procs, Complete(p) PROVE checks'["head"] = "pass"
      BY <1>1, <1>4, <1>a, <2>1, <2>3 DEF CiOnHead, Complete
    <2> QED BY <1>9, <1>a, <2>2, <2>3, RunMoves
  <1>10. Tasks' = Tasks
    BY DEF Tasks
  <1> QED BY <1>3, <1>5, <1>6, <1>7, <1>8, <1>9, <1>10 DEF CiProvenOnHead

LEMMA LockHeldStep ==
    ASSUME DInv, Next
    PROVE  LockHeld'
  <1>a. TypeOK /\ LockHeld /\ DOMAIN pc = Procs
    BY DEF DInv, TypeOK, CallTypes
  <1>b. \A p \in Procs : p # "hygiene" /\ p # "free"
    BY DeliveryAssumption DEF Procs, Maintenance, Pump
  <1>c. ASSUME NEW p \in Procs, pc'[p] = "w_pin"
        PROVE  \/ pc[p] = "w_pin" /\ lock = p /\ worktree # "REMOVED"
               \/ PreserveWorktree(p)
    BY <1>a, <1>c, Entered DEF Same, LockHeld
  <1>1. CASE UNCHANGED <<worktree, pinned, lock, cleanup>>
    <2>1. \A p \in Procs : ~ PreserveWorktree(p)
      BY <1>1, <1>b DEF PreserveWorktree
    <2> QED BY <1>1, <1>a, <1>c, <2>1 DEF LockHeld, PreservedNeverRemoved
  <1>2. CASE HygieneTask
    <2>1. \A p \in Procs : ~ PreserveWorktree(p)
      BY <1>2, <1>a DEF HygieneTask, HygieneStarts, HygieneRemoves, HygieneReports,
           HygieneFails, PreserveWorktree, procVars, Goto, Idle
    <2>2. \A p \in Procs : pc'[p] # "w_pin"
      BY <1>2, <1>a, <1>b, <1>c, <2>1 DEF HygieneTask, HygieneStarts, HygieneRemoves,
           HygieneReports,
           HygieneFails, LockHeld
    <2>3. PreservedNeverRemoved'
      BY <1>2, <1>a DEF HygieneTask, HygieneStarts, HygieneRemoves, HygieneReports,
           HygieneFails, LockHeld, PreservedNeverRemoved, Kept
    <2>4. (cleanup # "idle" => lock = "hygiene")'
      BY <1>2, <1>a DEF HygieneTask, HygieneStarts, HygieneRemoves, HygieneReports,
           HygieneFails, LockHeld
    <2> QED BY <2>2, <2>3, <2>4 DEF LockHeld
  <1>3. CASE CrashRestart
    BY <1>3, <1>a DEF CrashRestart, LockHeld, PreservedNeverRemoved
  <1>4. ASSUME NEW p \in Procs, CancelWorktrees(p) PROVE LockHeld'
    <2>1. \A q \in Procs : ~ PreserveWorktree(q)
      BY <1>4, <1>b DEF PreserveWorktree, CancelWorktrees
    <2> QED BY <1>4, <1>a, <1>c, <2>1 DEF CancelWorktrees, LockHeld, PreservedNeverRemoved
  <1>5. ASSUME NEW p \in Procs, PinWorktree(p) PROVE LockHeld'
    <2>1. \A q \in Procs : ~ PreserveWorktree(q)
      BY <1>5, <1>b DEF PreserveWorktree, PinWorktree
    <2>2. pc'[p] = "idle"
      BY <1>5, <1>a DEF PinWorktree, Return
    <2>3. lock = p /\ worktree # "REMOVED" /\ UNCHANGED <<worktree, cleanup>>
      BY <1>5, <1>a DEF PinWorktree, LockHeld
    <2> QED BY <1>5, <1>a, <1>b, <1>c, <2>1, <2>2, <2>3 DEF LockHeld, PreservedNeverRemoved
  <1>6. ASSUME NEW p \in Procs, PreserveWorktree(p) PROVE LockHeld'
    <2>1. /\ lock = "free" /\ lock' = p /\ worktree' = "PRESERVED" /\ UNCHANGED cleanup
          /\ pc' = [pc EXCEPT ![p] = "w_pin"]
      BY <1>6 DEF PreserveWorktree, Goto
    <2> QED BY <1>a, <1>b, <2>1 DEF LockHeld, PreservedNeverRemoved
  <1> QED BY <1>1, <1>2, <1>3, <1>4, <1>5, <1>6, Writers

-----------------------------------------------------------------------------
LEMMA DInvInit ==
    ASSUME Init
    PROVE  DInv
  <1>1. TypeOK
    BY TypesInit
  <1>2. \A p \in Procs : pc[p] = "idle" /\ loc[p].i = 1
    BY DEF Init, NoLoc
  <1>3. /\ run = "INTEGRATION_READY" /\ audits = 0 /\ decision = NoPacket
        /\ \A t \in Tasks : task[t] = "INTEGRATED"
    BY DEF Init
  <1>4. OneChain /\ HeadProven /\ VerdictOnce
    <2>1. Pump \in Procs
      BY DEF Procs
    <2> QED BY <1>2, <1>3, <2>1 DEF OneChain, HeadProven, VerdictOnce, AuditedHeadProven,
         Chain, Proving,
             Verdict, Reviewed
  <1>5. DecisionProven /\ OneStory
    BY <1>2, <1>3 DEF DecisionProven, OneStory, Signed, StopLocs
  <1>6. CiOnHead /\ LockHeld
    BY <1>2, <1>3 DEF Init, CiOnHead, LockHeld, CiProvenOnHead, PreservedNeverRemoved
  <1> QED BY <1>1, <1>4, <1>5, <1>6 DEF DInv

LEMMA DInvStep ==
    ASSUME DInv, [Next]_vars
    PROVE  DInv'
  <1>1. CASE Next
    <2>1. TypeOK'
      BY <1>1, TypesStep DEF DInv
    <2> QED BY <1>1, <2>1, OneChainStep, HeadProvenStep, VerdictOnceStep, DecisionProvenStep,
              OneStoryStep, CiOnHeadStep, LockHeldStep DEF DInv
  <1>2. CASE UNCHANGED vars
    <2> USE <1>2 DEF vars, runVars, proofVars, treeVars, agentVars, hubVars, procVars, bounds
    <2>1. TypeOK'
      BY TypesStep DEF DInv
    <2>2. OneChain' /\ HeadProven' /\ VerdictOnce'
      BY DEF DInv, OneChain, HeadProven, VerdictOnce, AuditedHeadProven
    <2>3. DecisionProven' /\ OneStory'
      BY DEF DInv, DecisionProven, OneStory, Unproved, Tasks
    <2>4. CiOnHead' /\ LockHeld'
      BY DEF DInv, CiOnHead, Undisturbed, LockHeld, CiProvenOnHead, PreservedNeverRemoved, Tasks
    <2> QED BY <2>1, <2>2, <2>3, <2>4 DEF DInv
  <1> QED BY <1>1, <1>2

LEMMA DInvHolds == Spec => []DInv
  BY DInvInit, DInvStep, PTL DEF Spec

(* However approvals, signoff, publication and stop interleave, a run that  *)
(* is ready for publication or beyond has an accepting audit and a human    *)
(* decision on a packet that contained it and left nothing unproved.        *)
THEOREM SignedPacketProvenHolds == Spec => []SignedPacketProven
  <1>1. DInv => SignedPacketProven
    BY DEF DInv, VerdictOnce, DecisionProven, SignedPacketProven, Signed, Reviewed
  <1> QED BY <1>1, DInvHolds, PTL

(* At most one final auditor is started, run and tasks tell one story       *)
(* whatever stop, CI poll and publication do at once, and CI is proven on   *)
(* the integrated head as long as nobody else moves checkout or branch.     *)
THEOREM DeliveryConsistentHolds == Spec => []DeliveryConsistent
  <1>1. DInv => DeliveryConsistent
    <2> SUFFICES ASSUME DInv PROVE DeliveryConsistent
      OBVIOUS
    <2>1. OneFinalAudit /\ CiProvenUndisturbed
      BY DEF DInv, OneChain, CiOnHead, Undisturbed, OneFinalAudit, CiProvenUndisturbed
    <2>2. RunAndTasksAgree
      BY DEF DInv, OneStory, RunAndTasksAgree, Dying, Finished
    <2> QED BY <2>1, <2>2 DEF DeliveryConsistent
  <1> QED BY <1>1, DInvHolds, PTL

(* Although checkout and branch may move at any time, an audited head is    *)
(* one that validators and acceptance passed on, and hygiene never removes  *)
(* a worktree the operator preserved.                                       *)
THEOREM HeadsKeptHolds == Spec => []HeadsKept
  <1>1. DInv => HeadsKept
    BY DEF DInv, HeadProven, LockHeld, OneStory, HeadsKept, RunAndTasksAgree, Dying, Finished
  <1> QED BY <1>1, DInvHolds, PTL
=============================================================================
