----------------------------- MODULE PlanReview -----------------------------
(***************************************************************************)
(* Planning: intent interview, architecture, adversarial review, revision  *)
(* and approval of a plan (crates/harness-orchestrator/src/lib.rs from     *)
(* start_intent_interview to approve_plan) over the plan tables of the     *)
(* store.  The event pump, the maintenance loop and the operator run these *)
(* programs concurrently.  Most of them hold operation_lock; approve_plan, *)
(* submit_plan, the terminal callbacks and pausing do not.                 *)
(*                                                                         *)
(* A step is one store transaction, or a stretch of a program nobody else  *)
(* can observe.  transition_run is a compare-and-set on the run's version: *)
(* loc[p].fresh says that the version has not moved since p read the run.  *)
(* A plan's digest is its revision; worlds are the values of the base,     *)
(* profile and authority bindings of a certificate.                        *)
(***************************************************************************)
EXTENDS Naturals, Sequences, FiniteSets

CONSTANTS
    Findings,       \* blocking findings of a review: <<fingerprint, count>>
    Interviewed,    \* TRUE: the run was created with an intent interview
    Automatic,      \* TRUE: automatic plan approval was requested
    MaxRevisions,   \* bound on stored plan revisions
    MaxBriefs,      \* bound on interview turns
    MaxCommands,    \* bound on operator commands other than approval
    MaxFailures,    \* bound on failed turns and starts, exits and crashes
    MaxInvalid,     \* bound on answers that do not parse
    MaxWorlds       \* bound on changes of the bindings

VARIABLES
    run,        \* [state, paused]; the two BLOCKED phases are states here
    interview,  \* [status, turn, ending, draft, confirmed, shown]
    plan,       \* latest revision: [rev, state]
    cert,       \* its certificate: [rev, world, brief]; rev = 0 for none
    session,    \* architect and reviewer sessions, oldest first
    repair,     \* output repairs: [attempts, pending (a session or 0)]
    history,    \* plan review records: [rev, source, finding]
    gated,      \* revisions whose approval needs a human
    world,      \* current bindings
    queue,      \* operation_lock: its holder, then those waiting (tokio is FIFO)
    loc,        \* program counter and locals of each process
    used,       \* [commands, failures, invalid]: the bounds consumed
    reviewed,   \* a reviewer turn began since the plan was last (re)opened
    approved    \* [rev, by]: the decision that moved the run on

vars == <<run, interview, plan, cert, session, repair, history, gated, world,
          queue, loc, used, reviewed, approved>>

Procs == {"pump", "maint", "user"}
Accept == <<"accept", 0>>
NoMessage == <<"none", 0>>
Invalid == <<"invalid", 0>>
Valid == <<"plan", 0>>
\* What parsing, canonicalization and validation make of an architect's text.
PlanAnswers == {Valid, Invalid}
Verdicts == {Accept} \cup Findings
\* plan_review_blocking_fingerprint: findings up to order and whitespace.
Fingerprint(finding) == finding[1]
Idle == [pc |-> "idle", rev |-> 0, fresh |-> FALSE, msg |-> NoMessage, s |-> 0,
         resumed |-> FALSE]
Free == queue = <<>>
Holds(p) == queue # <<>> /\ Head(queue) = p
At(p, pc) == loc[p].pc = pc

\* agent_state_consumes_capacity
Active(s) == s.state \in {"STARTING", "RUNNING"}
Role(r) == {i \in DOMAIN session : session[i].role = r}
\* Mutant: reviewers of earlier revisions are considered too.
ReviewersOfAnyRevision == Role("reviewer")
\* The sessions named plan-review-r<revision> for the latest revision.
Reviewers == {i \in Role("reviewer") : session[i].rev = plan.rev}
Latest(S) == CHOOSE i \in S : \A j \in S : j <= i

NewSession(role, state, turn) ==
    [role |-> role, rev |-> plan.rev, state |-> state, turn |-> turn,
     msg |-> NoMessage, retried |-> FALSE]

(* Program points that wait for operation_lock, and those that keep what   *)
(* they hold.  A program that reaches any other point has dropped it; the  *)
(* next lock().await follows a drop without an await in between.           *)
Waiting == {"architecture", "revise", "launch", "reviewer", "apply",
            "ask_changes", "ask_resume"}
Holding == {"architect", "recover_architecture", "reviser", "certify", "certified",
            "changes", "resume", "submit", "submitted"}
(* p releases what it holds, if it does, and queues again where it waits.  *)
Requeue(p, pc) ==
    LET rest == IF Holds(p) THEN Tail(queue) ELSE queue
    IN queue' = IF pc \in Holding THEN queue
                ELSE IF pc \in Waiting THEN Append(rest, p) ELSE rest

(* Locals: go on, or return.  What a resumption of the operator calls in   *)
(* turn still returns to it.                                               *)
Goto(p, pc) == loc' = [loc EXCEPT ![p].pc = pc] /\ Requeue(p, pc)
Return(p) == loc' = [loc EXCEPT ![p] = Idle] /\ Requeue(p, "idle")
Begin(p, pc, rev, msg, s) ==
    /\ loc' = [loc EXCEPT ![p] = [pc |-> pc, rev |-> rev, fresh |-> TRUE, msg |-> msg,
                 s |-> s, resumed |-> (pc = "resume" \/ loc[p].resumed)]]
    /\ Requeue(p, pc)

Fail == used.failures < MaxFailures /\ used' = [used EXCEPT !.failures = @ + 1]
Answer(m) ==
    /\ m = Invalid => used.invalid < MaxInvalid
    /\ used' = [used EXCEPT !.invalid = @ + IF m = Invalid THEN 1 ELSE 0]
Command == used.commands < MaxCommands /\ used' = [used EXCEPT !.commands = @ + 1]

(* The run row moves to next (or is paused): its version rises, so every   *)
(* other process that read it fails its compare-and-set.  p continues at   *)
(* pc.                                                                     *)
Moved(p, pc) ==
    /\ loc' = [q \in Procs |->
                 IF q = p THEN [loc[p] EXCEPT !.pc = pc, !.fresh = FALSE]
                          ELSE [loc[q] EXCEPT !.fresh = FALSE]]
    /\ Requeue(p, pc)
MovedAndDone(p) ==
    /\ loc' = [q \in Procs |-> IF q = p THEN Idle ELSE [loc[q] EXCEPT !.fresh = FALSE]]
    /\ Requeue(p, "idle")
transition_run(next) == run' = [run EXCEPT !.state = next]

-----------------------------------------------------------------------------
(* Intent interview.  `turn' is the agent's active turn as the store sees  *)
(* it; `ending' says that the turn/completed of an answered turn is still  *)
(* to come.                                                                *)

Interviewing == run.state = "INTERVIEWING"
IvUnchanged == UNCHANGED <<plan, cert, session, repair, history, gated, world,
                           reviewed, approved>>

start_intent_interview ==
    /\ Free /\ Interviewing /\ interview.status \in {"NotStarted", "Failed"}
    /\ interview.draft < MaxBriefs
    /\ \/ /\ interview' = [interview EXCEPT !.status = "Running", !.turn = TRUE]
          /\ UNCHANGED used
       \/ interview' = [interview EXCEPT !.status = "Failed"] /\ Fail
    /\ UNCHANGED <<run, queue, loc>> /\ IvUnchanged

(* Refused while the interviewer has an active turn; a failed turn/start   *)
(* restores the prior snapshot.                                            *)
respond_to_intent_interview ==
    /\ Free /\ Interviewing
    /\ interview.status \in {"WaitingForHuman", "ReadyForConfirmation"}
    /\ ~interview.turn /\ interview.draft < MaxBriefs
    /\ interview' = [interview EXCEPT !.status = "Running", !.turn = TRUE]
    /\ UNCHANGED <<run, queue, loc, used>> /\ IvUnchanged

\* What parse_intent_interview_turn makes of the interviewer's text.
InterviewTurns == {"WaitingForHuman", "ReadyForConfirmation", "Failed"}

(* item/completed of the interviewer: a question, a ready brief or text    *)
(* that does not parse.  Ignored unless the interview is Running.          *)
apply_intent_interview_turn ==
    /\ At("pump", "idle") /\ Free /\ interview.turn
    /\ IF Interviewing /\ interview.status = "Running"
       THEN \E status \in InterviewTurns :
              interview' = [interview EXCEPT !.status = status, !.turn = FALSE,
                                             !.ending = TRUE, !.draft = @ + 1]
       ELSE interview' = [interview EXCEPT !.turn = FALSE, !.ending = TRUE]
    /\ UNCHANGED <<run, queue, loc, used>> /\ IvUnchanged

(* turn/completed of the interviewer.  It is not compared with the active  *)
(* turn: one that arrives after the human has answered fails the new turn. *)
InterviewerTurnCompleted ==
    /\ At("pump", "idle")
    /\ \/ /\ interview.ending
          /\ interview' = [interview EXCEPT
                             !.ending = FALSE,
                             !.turn = @ /\ interview.status = "NotStarted",
                             !.status = IF @ = "Running" THEN "Failed" ELSE @]
          /\ UNCHANGED used
       \/ /\ interview.turn /\ ~interview.ending /\ Fail
          /\ interview' = [interview EXCEPT !.turn = FALSE,
                             !.status = IF @ = "Running" THEN "Failed" ELSE @]
    /\ UNCHANGED <<run, queue, loc>> /\ IvUnchanged

\* The human looks at the draft brief that waits for confirmation.
LookAtBrief ==
    /\ Interviewing /\ interview.status = "ReadyForConfirmation"
    /\ interview.shown # interview.draft
    /\ interview' = [interview EXCEPT !.shown = interview.draft]
    /\ UNCHANGED <<run, queue, loc, used>> /\ IvUnchanged

\* Mutant: the expected digest is not compared with the draft's.
BriefMatchesUnchecked == interview.shown > 0
BriefMatches == interview.shown > 0 /\ interview.shown = interview.draft

confirm_intent_interview ==
    /\ Free /\ Interviewing /\ interview.status = "ReadyForConfirmation" /\ BriefMatches
    /\ interview' = [interview EXCEPT !.status = "Confirmed", !.turn = FALSE,
                                      !.confirmed = interview.draft]
    /\ transition_run("READY_FOR_ARCHITECTURE")
    /\ Moved("user", "architecture")
    /\ UNCHANGED used /\ IvUnchanged

skip_intent_interview ==
    /\ Free /\ Interviewing
    /\ interview' = [interview EXCEPT !.status = "Skipped", !.turn = FALSE]
    /\ transition_run("READY_FOR_ARCHITECTURE")
    /\ Moved("user", "architecture")
    /\ UNCHANGED used /\ IvUnchanged

\* confirmed_intent_brief: 0 when the interview was skipped or not wanted.
confirmed_intent_brief ==
    IF interview.status = "Confirmed" THEN interview.confirmed ELSE 0

-----------------------------------------------------------------------------
(* Architecture.                                                           *)

architecture_retry_state ==
    IF plan.state = "REVISION_REQUIRED" THEN "PLAN_REVISION_REQUIRED"
    ELSE "READY_FOR_ARCHITECTURE"

\* Completed architect answers retained by the store.
Answered(kind) == {i \in Role("architect") : session[i].msg = kind}
Recoverable == Answered(Valid)
RepairCandidate == repair.pending # 0 \/ Answered(Invalid) # {}

MaxRepairs == 2
automatic(p) == p = "pump"
RepairExhausted(p) == automatic(p) /\ repair.attempts >= MaxRepairs
NextRepair(p) ==
    IF ~automatic(p) /\ repair.attempts >= MaxRepairs THEN 1 ELSE repair.attempts + 1

(* start_architecture_inner: a completed valid answer is recovered, an     *)
(* invalid one is repaired, otherwise a fresh architect is created.  The   *)
(* session exists before the run's transition.                             *)
start_architecture(p) ==
    /\ At(p, "architecture") /\ Holds(p)
    /\ IF run.state # "READY_FOR_ARCHITECTURE"
       THEN Return(p) /\ UNCHANGED <<session, repair>>
       ELSE \/ /\ repair.pending = 0 /\ Recoverable # {}
               /\ Begin(p, "recover_architecture", 0, NoMessage, Latest(Recoverable))
               /\ UNCHANGED <<session, repair>>
            \/ /\ repair.pending # 0 \/ Recoverable = {}
               /\ RepairCandidate /\ RepairExhausted(p)
               /\ repair' = [repair EXCEPT !.pending = 0]
               /\ Return(p) /\ UNCHANGED session
            \/ /\ repair.pending # 0 \/ Recoverable = {}
               /\ ~(RepairCandidate /\ RepairExhausted(p))
               /\ session' = Append(session, NewSession("architect", "STARTING", FALSE))
               /\ repair' = IF RepairCandidate
                            THEN [attempts |-> NextRepair(p), pending |-> 0] ELSE repair
               /\ Begin(p, "architect", 0, NoMessage, Len(session) + 1)
    /\ UNCHANGED <<run, interview, plan, cert, history, gated, world, used, reviewed,
                   approved>>

(* The transition to ARCHITECTING, then start_agent.  When the transition  *)
(* fails the session stays STARTING; when the start fails the run goes     *)
(* back.                                                                   *)
ArchitectStarts(p, back) ==
    LET s == loc[p].s IN
    /\ \/ /\ ~loc[p].fresh /\ Return(p) /\ UNCHANGED <<run, session, used>>
       \/ /\ loc[p].fresh /\ MovedAndDone(p)
          /\ transition_run("ARCHITECTING")
          /\ session' = [session EXCEPT ![s].state = "RUNNING", ![s].turn = TRUE]
          /\ UNCHANGED used
       \/ /\ loc[p].fresh /\ Fail /\ MovedAndDone(p)
          /\ transition_run(back)
          /\ session' = [session EXCEPT ![s].state = "FAILED"]
    /\ UNCHANGED <<interview, plan, cert, repair, history, gated, world, reviewed,
                   approved>>

launch_architect(p) ==
    At(p, "architect") /\ ArchitectStarts(p, "READY_FOR_ARCHITECTURE")

(* recovering_completed_architecture: transition, then submit_plan.        *)
recover_architecture(p) ==
    /\ At(p, "recover_architecture")
    /\ IF loc[p].fresh
       THEN transition_run("ARCHITECTING") /\ Moved(p, "submit")
       ELSE Return(p) /\ UNCHANGED run
    /\ UNCHANGED <<interview, plan, cert, session, repair, history, gated, world, used,
                   reviewed, approved>>

(* submit_plan: store_plan supersedes the latest revision and proposes the *)
(* next one ...                                                            *)
submit_plan(p) ==
    /\ At(p, "submit")
    /\ IF run.state = "ARCHITECTING"
       THEN /\ plan' = [rev |-> plan.rev + 1, state |-> "PROPOSED"]
            /\ reviewed' = FALSE
            /\ loc' = [loc EXCEPT ![p].pc = "submitted", ![p].fresh = TRUE,
                                  ![p].rev = plan.rev + 1]
            /\ UNCHANGED queue
       ELSE Return(p) /\ UNCHANGED <<plan, reviewed>>
    /\ UNCHANGED <<run, interview, cert, session, repair, history, gated, world, used,
                   approved>>

(* ... then the run goes to review, the architect is COMPLETED, and a      *)
(* reviewer is launched.                                                   *)
plan_submitted(p) ==
    /\ At(p, "submitted")
    /\ IF loc[p].fresh
       THEN /\ transition_run("PLAN_ADVERSARIAL_REVIEW")
            /\ repair' = [attempts |-> 0, pending |-> 0]
            /\ session' = [session EXCEPT ![loc[p].s].state = "COMPLETED"]
            /\ Moved(p, "launch")
       ELSE Return(p) /\ UNCHANGED <<run, repair, session>>
    /\ UNCHANGED <<interview, plan, cert, history, gated, world, used, reviewed, approved>>

(* start_plan_revision, first part: nothing while an architect session     *)
(* consumes capacity.                                                      *)
start_plan_revision(p) ==
    /\ At(p, "revise") /\ Holds(p)
    /\ IF /\ run.state = "PLAN_REVISION_REQUIRED" /\ plan.state = "REVISION_REQUIRED"
          /\ \A i \in Role("architect") : ~Active(session[i])
       THEN /\ session' = Append(session, NewSession("architect", "STARTING", FALSE))
            /\ Begin(p, "reviser", 0, NoMessage, Len(session) + 1)
       ELSE Return(p) /\ UNCHANGED session
    /\ UNCHANGED <<run, interview, plan, cert, repair, history, gated, world, used,
                   reviewed, approved>>

launch_reviser(p) == At(p, "reviser") /\ ArchitectStarts(p, "PLAN_REVISION_REQUIRED")

-----------------------------------------------------------------------------
(* Adversarial review.                                                     *)

InReview == run.state = "PLAN_ADVERSARIAL_REVIEW" /\ plan.state = "PROPOSED"

(* recover_completed_plan_review: the newest stored final answer of a      *)
(* reviewer of this revision that is a valid verdict is applied, whoever   *)
(* else may be handling it.  Without one, launch_plan_reviewer goes on.    *)
StoredVerdicts == {i \in Reviewers : session[i].msg \in Verdicts}
recover_completed_plan_review(p) ==
    /\ At(p, "launch") /\ Holds(p)
    /\ IF InReview /\ StoredVerdicts # {}
       THEN LET s == Latest(StoredVerdicts)
            IN Begin(p, "apply", plan.rev, session[s].msg, s)
       ELSE Goto(p, "reviewer")
    /\ UNCHANGED <<run, interview, plan, cert, session, repair, history, gated, world,
                   used, reviewed, approved>>

\* A failed reviewer of this revision that may be asked once to finish.
Resumable ==
    {i \in Reviewers : session[i].state = "FAILED" /\ ~session[i].turn
                                                   /\ ~session[i].retried}

\* Mutant: the check for a live reviewer is left out.
ReviewerBusyUnchecked == FALSE
ReviewerBusy == \E i \in Role("reviewer") : Active(session[i])

(* resume_plan_reviewer_for_verdict: a second turn on the same thread.     *)
Continued(s) ==
    [session EXCEPT ![s].state = "RUNNING", ![s].turn = TRUE, ![s].retried = TRUE,
                    ![s].msg = NoMessage]

(* A launch returns; the error of one the operator asked for by resuming   *)
(* blocks the review again, unless it is a Blocked error.                  *)
LaunchEnds(p) == Return(p) /\ UNCHANGED run
LaunchRefused(p) ==
    IF loc[p].resumed /\ run.state = "PLAN_ADVERSARIAL_REVIEW"
    THEN transition_run("plan_review_budget_exhausted") /\ MovedAndDone(p)
    ELSE LaunchEnds(p)

(* enforce_run_budget, and the headroom check of launch_plan_reviewer: the *)
(* run is paused, which raises its version.                                *)
PausedAtCeiling(p) ==
    IF run.paused THEN LaunchEnds(p)
    ELSE run' = [run EXCEPT !.paused = TRUE] /\ MovedAndDone(p)

Launchable(p) == InReview /\ plan.rev = loc[p].rev /\ ~ReviewerBusy

(* launch_plan_reviewer: under the lock, one reviewer at a time, for the   *)
(* digest the caller saw.  Without tokens or a free agent slot the review  *)
(* stays queued.  The latest failed reviewer is continued once; otherwise, *)
(* or when its thread is gone, a fresh one is created.                     *)
launch_plan_reviewer(p) ==
    /\ At(p, "reviewer") /\ Holds(p)
    /\ \/ /\ run.state = "PLAN_ADVERSARIAL_REVIEW" /\ ReviewerBusy
          /\ LaunchEnds(p) /\ UNCHANGED <<session, used, reviewed>>
       \/ /\ run.state = "PLAN_ADVERSARIAL_REVIEW" => ~ReviewerBusy /\ ~Launchable(p)
          /\ LaunchRefused(p) /\ UNCHANGED <<session, used, reviewed>>
       \/ /\ run.state = "PLAN_ADVERSARIAL_REVIEW" /\ loc[p].rev # 0 /\ Fail
          /\ PausedAtCeiling(p) \/ (~ReviewerBusy /\ LaunchEnds(p))
          /\ UNCHANGED <<session, reviewed>>
       \/ /\ Launchable(p) /\ reviewed' = TRUE
          /\ \/ Resumable # {} /\ session' = Continued(Latest(Resumable))
             \/ session' = Append(session, NewSession("reviewer", "RUNNING", TRUE))
          /\ LaunchEnds(p) /\ UNCHANGED used
       \/ /\ Launchable(p) /\ Fail /\ LaunchRefused(p) /\ UNCHANGED reviewed
          /\ \/ UNCHANGED session
             \/ session' = Append(session, NewSession("reviewer", "FAILED", FALSE))
    /\ UNCHANGED <<interview, plan, cert, repair, history, gated, world, approved>>

AgentRejections(h) == SelectSeq(h, LAMBDA r : r.source = "agent" /\ r.finding # Accept)
Window == 3

\* Mutant: only the number of findings is compared, not what they are.
plan_review_nonconvergence_counts(finding) ==
    LET prior == AgentRejections(history)
        n == Len(prior)
    IN n + 1 >= Window /\ prior[n - 1].finding[2] <= prior[n].finding[2]
                       /\ prior[n].finding[2] <= finding[2]

(* plan_review_nonconvergence: the same blocking findings again, or a      *)
(* number of findings that did not shrink over three agent reviews.        *)
plan_review_nonconvergence(finding) ==
    LET prior == AgentRejections(history)
        n == Len(prior)
    IN \/ \E i \in DOMAIN prior : Fingerprint(prior[i].finding) = Fingerprint(finding)
       \/ n + 1 >= Window /\ prior[n - 1].finding[2] <= prior[n].finding[2]
                          /\ prior[n].finding[2] <= finding[2]

Record(source, of, finding) ==
    history' = Append(history, [rev |-> plan.rev, of |-> of, source |-> source,
                                finding |-> finding])

(* apply_plan_review_verdict, first part: history record and, for an       *)
(* accept, the certificate over the bindings of this moment.               *)
apply_plan_review_verdict(p) ==
    /\ At(p, "apply") /\ Holds(p)
    /\ IF InReview
       THEN /\ UNCHANGED queue
            /\ loc' = [loc EXCEPT ![p].pc = "certify", ![p].fresh = TRUE,
                         ![p].rev = IF loc[p].msg = Accept THEN plan.rev
                                    ELSE IF plan_review_nonconvergence(loc[p].msg) THEN 2 ELSE 1]
            /\ Record("agent", session[loc[p].s].rev, loc[p].msg)
            /\ cert' = IF loc[p].msg = Accept
                       THEN [rev |-> plan.rev, world |-> world,
                             brief |-> confirmed_intent_brief] ELSE cert
            /\ UNCHANGED run
       ELSE LaunchRefused(p) /\ UNCHANGED <<history, cert>>
    /\ UNCHANGED <<interview, plan, session, repair, gated, world, used, reviewed, approved>>

(* certify_latest_plan or mark_latest_plan_revision_required.              *)
certify_latest_plan(p) ==
    /\ At(p, "certify")
    /\ IF plan.state = "PROPOSED"
       THEN /\ plan' = [plan EXCEPT !.state = IF loc[p].msg = Accept THEN "CERTIFIED"
                                              ELSE "REVISION_REQUIRED"]
            /\ Goto(p, "certified") /\ UNCHANGED run
       ELSE LaunchRefused(p) /\ UNCHANGED plan
    /\ UNCHANGED <<interview, cert, session, repair, history, gated, world, used, reviewed,
                   approved>>

\* Mutant: the gate of a resumed review is not consulted.
RequiresHumanDropped(rev) == FALSE
RequiresHuman(rev) == rev \in gated

(* The run's transition and what follows it: automatic approval unless the *)
(* certificate forbids it or the review was resumed by the operator, or    *)
(* the next revision unless the scheduler is paused.                       *)
verdict_applied(p) ==
    /\ At(p, "certified")
    /\ IF ~loc[p].fresh
       THEN LaunchRefused(p) /\ UNCHANGED session
       ELSE /\ session' = [session EXCEPT ![loc[p].s].state = "COMPLETED"]
            /\ IF loc[p].msg = Accept
               THEN /\ transition_run("PLAN_REVIEW_REQUIRED")
                    /\ \/ MovedAndDone(p)
                       \/ /\ Automatic /\ ~RequiresHuman(plan.rev) /\ ~run.paused
                          /\ Moved(p, "approve_automatic")
               ELSE /\ transition_run(IF loc[p].rev = 2 THEN "plan_review_deadlocked"
                                      ELSE "PLAN_REVISION_REQUIRED")
                    /\ IF loc[p].rev = 2 \/ run.paused
                       THEN MovedAndDone(p) ELSE Moved(p, "revise")
    /\ UNCHANGED <<interview, plan, cert, repair, history, gated, world, used, reviewed,
                   approved>>

-----------------------------------------------------------------------------
(* Approval and the operator's decisions.                                  *)

CertificateFresh ==
    cert.rev = plan.rev /\ cert.world = world /\ cert.brief = confirmed_intent_brief

(* approve_plan holds no lock.  It checks the digest (the operator's is    *)
(* the one on the screen), the run and the certificate; a stale            *)
(* certificate reopens the review.                                         *)
approve_plan(p, pc) ==
    /\ At(p, pc)
    /\ IF \/ plan.state # "CERTIFIED" \/ run.state # "PLAN_REVIEW_REQUIRED"
          \/ pc # "idle" /\ plan.rev # loc[p].rev
       THEN pc # "idle" /\ Return(p) /\ UNCHANGED plan
       ELSE IF CertificateFresh
       THEN /\ Begin(p, "approve", plan.rev, <<pc, 0>>, 0) /\ UNCHANGED plan
       ELSE /\ plan' = [plan EXCEPT !.state = "PROPOSED"]
            /\ Begin(p, "reopen", plan.rev, <<pc, 0>>, 0)
    /\ UNCHANGED <<run, interview, cert, session, repair, history, gated, world, used,
                   approved>>
    /\ reviewed' = (reviewed /\ plan'.state = plan.state)

reopen_latest_plan_for_review(p) ==
    /\ At(p, "reopen")
    /\ IF loc[p].fresh
       THEN transition_run("PLAN_ADVERSARIAL_REVIEW") /\ Moved(p, "launch")
       ELSE Return(p) /\ UNCHANGED run
    /\ UNCHANGED <<interview, plan, cert, session, repair, history, gated, world, used,
                   reviewed, approved>>

(* approve_latest_plan looks at the latest plan once more, and only at its *)
(* state; the revision it read is then marked APPROVED, whatever became of *)
(* it in between.                                                          *)
approve_latest_plan(p) ==
    /\ At(p, "approve")
    /\ IF plan.state = "CERTIFIED"
       THEN /\ loc' = [loc EXCEPT ![p].pc = "approving", ![p].s = plan.rev]
            /\ Requeue(p, "approving")
       ELSE Return(p)
    /\ UNCHANGED <<run, interview, plan, cert, session, repair, history, gated, world, used,
                   reviewed, approved>>

latest_plan_approved(p) ==
    /\ At(p, "approving") /\ Goto(p, "approved")
    /\ plan' = IF plan.rev = loc[p].s THEN [plan EXCEPT !.state = "APPROVED"] ELSE plan
    /\ UNCHANGED <<run, interview, cert, session, repair, history, gated, world, used,
                   reviewed, approved>>

plan_approved(p) ==
    /\ At(p, "approved")
    /\ IF loc[p].fresh
       THEN /\ transition_run("READY_TO_EXECUTE") /\ MovedAndDone(p)
            /\ approved' = [rev |-> loc[p].rev, by |-> loc[p].msg[1], of |-> plan.rev]
       ELSE Return(p) /\ UNCHANGED <<run, approved>>
    /\ UNCHANGED <<interview, plan, cert, session, repair, history, gated, world, used,
                   reviewed>>

ChangesAllowed ==
    \/ run.state = "PLAN_REVIEW_REQUIRED" /\ plan.state = "CERTIFIED"
    \/ run.state = "plan_review_deadlocked" /\ plan.state = "REVISION_REQUIRED"
    \/ run.state = "plan_review_budget_exhausted" /\ plan.state = "PROPOSED"
ResumeAllowed == run.state = "plan_review_budget_exhausted" /\ plan.state = "PROPOSED"

(* request_plan_changes: findings of the operator on a certified plan or   *)
(* on a blocked review.                                                    *)
request_plan_changes ==
    /\ At("user", "ask_changes") /\ Holds("user")
    /\ ChangesAllowed
    /\ Record("human", plan.rev, <<"human", 1>>)
    /\ plan' = [plan EXCEPT !.state = "REVISION_REQUIRED"]
    /\ Begin("user", "changes", plan.rev, NoMessage, 0)
    /\ UNCHANGED <<run, interview, cert, session, repair, gated, world, used, reviewed,
                   approved>>

changes_requested ==
    /\ At("user", "changes")
    /\ IF loc["user"].fresh
       THEN transition_run("PLAN_REVISION_REQUIRED") /\ Moved("user", "revise")
       ELSE Return("user") /\ UNCHANGED run
    /\ UNCHANGED <<interview, plan, cert, session, repair, history, gated, world, used,
                   reviewed, approved>>

(* resume_blocked_plan_review: the manual-approval gate is durable before  *)
(* the run becomes reviewable.                                             *)
resume_blocked_plan_review ==
    /\ At("user", "ask_resume") /\ Holds("user")
    /\ ResumeAllowed
    /\ gated' = gated \cup {plan.rev}
    /\ Begin("user", "resume", plan.rev, NoMessage, 0)
    /\ UNCHANGED <<run, interview, plan, cert, session, repair, history, world, used,
                   reviewed, approved>>

review_resumed ==
    /\ At("user", "resume")
    /\ IF loc["user"].fresh
       THEN transition_run("PLAN_ADVERSARIAL_REVIEW") /\ Moved("user", "launch")
       ELSE Return("user") /\ UNCHANGED run
    /\ UNCHANGED <<interview, plan, cert, session, repair, history, gated, world, used,
                   reviewed, approved>>

-----------------------------------------------------------------------------
(* Notifications.  The pump takes them one at a time.  The projection      *)
(* stores the final answer before the handler sees it.                     *)

Turn(r) == {i \in Role(r) : session[i].turn}

(* item/completed of an architect: a valid plan is submitted, an invalid   *)
(* one is rejected (reject_architecture_plan): the run goes back and the   *)
(* answer is kept for repair.                                              *)
ArchitectAnswers ==
    \E s \in Turn("architect"), m \in PlanAnswers :
    /\ At("pump", "idle") /\ session[s].msg = NoMessage /\ Answer(m)
    /\ m = Valid => plan.rev < MaxRevisions
    /\ LET stored == [session EXCEPT ![s].msg = m] IN
       IF run.state # "ARCHITECTING"
       THEN session' = stored /\ UNCHANGED <<run, repair, loc, queue>>
       ELSE IF m = Valid
       THEN session' = stored /\ Begin("pump", "submit", 0, m, s) /\ UNCHANGED <<run, repair>>
       ELSE /\ session' = [stored EXCEPT ![s].state = "FAILED"]
            /\ transition_run(architecture_retry_state) /\ MovedAndDone("pump")
            /\ repair' = [repair EXCEPT !.pending = s]
    /\ UNCHANGED <<interview, plan, cert, history, gated, world, reviewed, approved>>

(* turn/completed of an architect.  Without a plan the run goes back for a *)
(* retry; after a rejected answer the repair turn starts.                  *)
ArchitectTurnCompleted ==
    \E s \in Turn("architect") :
    /\ At("pump", "idle")
    /\ IF session[s].msg = NoMessage THEN Fail ELSE UNCHANGED used
    /\ LET ended == [session EXCEPT ![s].turn = FALSE] IN
       IF run.state = "ARCHITECTING"
       THEN /\ session' = [ended EXCEPT ![s].state = "FAILED"]
            /\ transition_run(architecture_retry_state) /\ MovedAndDone("pump")
       ELSE /\ session' = ended /\ UNCHANGED run
            /\ IF run.state = "READY_FOR_ARCHITECTURE" /\ repair.pending = s
               THEN Begin("pump", "architecture", 0, NoMessage, 0)
               ELSE UNCHANGED <<loc, queue>>
    /\ UNCHANGED <<interview, plan, cert, repair, history, gated, world, reviewed,
                   approved>>

(* item/completed of a reviewer: a verdict is applied under the lock; an   *)
(* answer that does not parse is recorded as a rejection.                  *)
ReviewerAnswers ==
    \E s \in Turn("reviewer"), m \in Verdicts \cup {Invalid} :
    /\ At("pump", "idle") /\ session[s].msg = NoMessage /\ Answer(m)
    /\ session' = [session EXCEPT ![s].msg = m]
    /\ IF run.state = "PLAN_ADVERSARIAL_REVIEW" /\ m # Invalid
       THEN Begin("pump", "apply", session[s].rev, m, s) ELSE UNCHANGED <<loc, queue>>
    /\ UNCHANGED <<run, interview, plan, cert, repair, history, gated, world,
                   reviewed, approved>>

\* A reviewer whose verdict was not applied has failed.
ReviewerEnded(s) ==
    [session EXCEPT ![s].turn = FALSE, ![s].state = IF @ = "COMPLETED" THEN @ ELSE "FAILED"]

(* turn/completed of a reviewer.  While the review is open it failed;      *)
(* stopped by its session budget it blocks the run for the operator.       *)
ReviewerTurnCompleted ==
    \E s \in Turn("reviewer"), budget \in BOOLEAN :
    /\ At("pump", "idle")
    /\ IF session[s].msg = NoMessage THEN Fail ELSE ~budget /\ UNCHANGED used
    /\ session' = ReviewerEnded(s)
    /\ IF run.state = "PLAN_ADVERSARIAL_REVIEW" /\ budget
       THEN transition_run("plan_review_budget_exhausted") /\ MovedAndDone("pump")
       ELSE UNCHANGED <<run, loc, queue>>
    /\ UNCHANGED <<interview, plan, cert, repair, history, gated, world, reviewed,
                   approved>>

-----------------------------------------------------------------------------
(* The rest of the system.                                                 *)

\* Mutant: only reviews with a completed answer are looked at.
maintenance_recovers_only ==
    /\ At("maint", "idle")
    /\ \/ InReview /\ StoredVerdicts # {} /\ Begin("maint", "launch", plan.rev, NoMessage, 0)
       \/ /\ run.state = "PLAN_REVISION_REQUIRED" /\ ~run.paused
          /\ Begin("maint", "revise", 0, NoMessage, 0)
    /\ UNCHANGED <<run, interview, plan, cert, session, repair, history, gated, world,
                   used, reviewed, approved>>

(* maintenance_tick: completed reviews are recovered first, paused or not  *)
(* (revision 0: no reviewer is wanted); then reviewers and revisions are   *)
(* launched unless paused.                                                 *)
maintenance_tick ==
    /\ At("maint", "idle")
    /\ \/ InReview /\ StoredVerdicts # {} /\ run.paused
          /\ Begin("maint", "launch", 0, NoMessage, 0)
       \/ InReview /\ ~run.paused /\ Begin("maint", "launch", plan.rev, NoMessage, 0)
       \/ /\ run.state = "PLAN_REVISION_REQUIRED" /\ ~run.paused
          /\ Begin("maint", "revise", 0, NoMessage, 0)
    /\ UNCHANGED <<run, interview, plan, cert, session, repair, history, gated, world,
                   used, reviewed, approved>>

\* The operator's calls that take the lock.
Ask ==
    /\ At("user", "idle") /\ Command
    /\ \E pc \in {"architecture", "ask_changes", "ask_resume"} :
          /\ CASE pc = "architecture" -> run.state = "READY_FOR_ARCHITECTURE"
               [] pc = "ask_changes" -> ChangesAllowed
               [] OTHER -> ResumeAllowed
          /\ Begin("user", pc, 0, NoMessage, 0)
    /\ UNCHANGED <<run, interview, plan, cert, session, repair, history, gated, world,
                   reviewed, approved>>

\* ... and find, holding it, that they are no longer allowed.
AskRefused ==
    /\ Holds("user")
    /\ \/ At("user", "ask_changes") /\ ~ChangesAllowed
       \/ At("user", "ask_resume") /\ ~ResumeAllowed
    /\ Return("user")
    /\ UNCHANGED <<run, interview, plan, cert, session, repair, history, gated, world,
                   used, reviewed, approved>>

(* set_scheduler_paused, by the operator or at the token ceiling, raises   *)
(* the version.                                                            *)
set_scheduler_paused ==
    /\ Command /\ run.state # "INTERVIEWING"
    /\ run' = [run EXCEPT !.paused = ~@]
    /\ loc' = [q \in Procs |-> [loc[q] EXCEPT !.fresh = FALSE]]
    /\ UNCHANGED <<interview, plan, cert, session, repair, history, gated, world, queue,
                   reviewed, approved>>

\* The profile or an authority document changes.
BindingsChange ==
    /\ world < MaxWorlds /\ plan.rev > 0 /\ world' = world + 1
    /\ UNCHANGED <<run, interview, plan, cert, session, repair, history, gated, queue, loc,
                   used, reviewed, approved>>

(* reconcile_orphaned_sessions when the App Server exits: open turns are   *)
(* gone, their agents STALLED, a running interview failed.                 *)
Orphaned ==
    /\ session' = [i \in DOMAIN session |->
                     IF session[i].turn \/ session[i].state = "STARTING"
                     THEN [session[i] EXCEPT !.turn = FALSE, !.state = "STALLED"]
                     ELSE session[i]]
    /\ interview' = [interview EXCEPT !.turn = FALSE, !.ending = FALSE,
                       !.status = IF @ = "Running" THEN "Failed" ELSE @]

reconcile_orphaned_sessions ==
    /\ At("pump", "idle") /\ Fail /\ Orphaned
    /\ UNCHANGED <<run, plan, cert, repair, history, gated, world, queue, loc, reviewed,
                   approved>>

\* The daemon dies at any point and is restarted.
Crash ==
    /\ Fail /\ Orphaned
    /\ queue' = <<>> /\ loc' = [p \in Procs |-> Idle]
    /\ UNCHANGED <<run, plan, cert, repair, history, gated, world, reviewed, approved>>

Init ==
    /\ run = [state |-> IF Interviewed THEN "INTERVIEWING" ELSE "READY_FOR_ARCHITECTURE",
              paused |-> FALSE]
    /\ interview = [status |-> IF Interviewed THEN "NotStarted" ELSE "Absent",
                    turn |-> FALSE, ending |-> FALSE, draft |-> 0, confirmed |-> 0,
                    shown |-> 0]
    /\ plan = [rev |-> 0, state |-> "NONE"]
    /\ cert = [rev |-> 0, world |-> 0, brief |-> 0]
    /\ session = <<>> /\ history = <<>> /\ gated = {}
    /\ repair = [attempts |-> 0, pending |-> 0]
    /\ world = 0 /\ queue = IF Interviewed THEN <<>> ELSE <<"user">>
    /\ loc = [p \in Procs |-> IF p = "user" /\ ~Interviewed
                              THEN [Idle EXCEPT !.pc = "architecture"] ELSE Idle]
    /\ used = [commands |-> 0, failures |-> 0, invalid |-> 0]
    /\ reviewed = FALSE
    /\ approved = [rev |-> 0, by |-> "nobody", of |-> 0]

Interview ==
    \/ At("user", "idle") /\ (\/ start_intent_interview \/ respond_to_intent_interview
                              \/ LookAtBrief \/ confirm_intent_interview
                              \/ skip_intent_interview)
    \/ apply_intent_interview_turn
    \/ InterviewerTurnCompleted

Program(p) ==
    \/ start_architecture(p) \/ launch_architect(p) \/ recover_architecture(p)
    \/ submit_plan(p) \/ plan_submitted(p)
    \/ start_plan_revision(p) \/ launch_reviser(p)
    \/ recover_completed_plan_review(p) \/ launch_plan_reviewer(p)
    \/ apply_plan_review_verdict(p) \/ certify_latest_plan(p) \/ verdict_applied(p)
    \/ approve_plan(p, "approve_automatic") \/ reopen_latest_plan_for_review(p)
    \/ approve_latest_plan(p) \/ latest_plan_approved(p) \/ plan_approved(p)

Notification ==
    \/ ArchitectAnswers \/ ArchitectTurnCompleted
    \/ ReviewerAnswers \/ ReviewerTurnCompleted

Operator ==
    \/ approve_plan("user", "idle") \/ request_plan_changes \/ changes_requested
    \/ resume_blocked_plan_review \/ review_resumed
    \/ Ask \/ AskRefused \/ set_scheduler_paused

Next ==
    \/ Interview \/ Notification \/ Operator \/ maintenance_tick
    \/ \E p \in Procs : Program(p)
    \/ BindingsChange \/ reconcile_orphaned_sessions \/ Crash

Spec == Init /\ [][Next]_vars

(* The programs run on (tokio schedules every task, the lock is FIFO), the *)
(* maintenance loop ticks, and the pump handles every notification: a      *)
(* reviewer's turn ends, with an answer unless it fails.                   *)
Fairness ==
    /\ \A p \in Procs : WF_vars(Program(p))
    /\ WF_vars(maintenance_tick) /\ WF_vars(changes_requested) /\ WF_vars(review_resumed)
    /\ WF_vars(request_plan_changes) /\ WF_vars(resume_blocked_plan_review)
    /\ WF_vars(AskRefused)
    /\ SF_vars(ReviewerAnswers) /\ SF_vars(ReviewerTurnCompleted)

FairSpec == Spec /\ Fairness

-----------------------------------------------------------------------------
RunStates == {"INTERVIEWING", "READY_FOR_ARCHITECTURE", "ARCHITECTING",
    "PLAN_ADVERSARIAL_REVIEW", "PLAN_REVISION_REQUIRED", "PLAN_REVIEW_REQUIRED",
    "plan_review_deadlocked", "plan_review_budget_exhausted", "READY_TO_EXECUTE"}
PlanStates == {"NONE", "PROPOSED", "CERTIFIED", "REVISION_REQUIRED", "APPROVED"}
Unlocked == {"idle", "approve_automatic", "approve", "approving", "approved", "reopen"}
Points == Waiting \cup Holding \cup Unlocked
Answers == Verdicts \cup PlanAnswers \cup {NoMessage}
Messages == Answers \cup {<<"idle", 0>>, <<"approve_automatic", 0>>}
Sessions == [role : {"architect", "reviewer"}, rev : Nat, turn : BOOLEAN, msg : Answers,
             state : {"STARTING", "RUNNING", "COMPLETED", "FAILED", "STALLED"},
             retried : BOOLEAN]
Locals == [pc : Points, rev : Nat, fresh : BOOLEAN, msg : Messages, s : Nat,
           resumed : BOOLEAN]
Records == [rev : Nat, of : Nat, source : {"agent", "human"},
            finding : Verdicts \cup {<<"human", 1>>}]

\* Values the state may take.
Typed ==
    /\ run \in [state : RunStates, paused : BOOLEAN]
    /\ interview \in [status : {"Absent", "NotStarted", "Running", "WaitingForHuman",
          "ReadyForConfirmation", "Failed", "Confirmed", "Skipped"}, turn : BOOLEAN,
          ending : BOOLEAN, draft : Nat, confirmed : Nat, shown : Nat]
    /\ plan \in [rev : Nat, state : PlanStates]
    /\ cert \in [rev : Nat, world : Nat, brief : Nat]
    /\ session \in Seq(Sessions) /\ history \in Seq(Records)
    /\ repair \in [attempts : Nat, pending : Nat]
    /\ gated \in SUBSET Nat /\ world \in Nat /\ queue \in Seq(Procs)
    /\ loc \in [Procs -> Locals]
    /\ used \in [commands : Nat, failures : Nat, invalid : Nat]
    /\ reviewed \in BOOLEAN
    /\ approved \in [rev : Nat, by : {"nobody", "idle", "approve_automatic"}, of : Nat]

(* The lock: nobody stands in its queue twice, whoever waits stands there, *)
(* and who is inside a locked program is its head (submit_plan aside,      *)
(* which the pump runs without the lock).                                  *)
Queued(p) == \E i \in DOMAIN queue : queue[i] = p
LockQueue ==
    /\ \A i, j \in DOMAIN queue : queue[i] = queue[j] => i = j
    /\ \A p \in Procs :
          /\ Queued(p) => loc[p].pc \notin Unlocked
          /\ loc[p].pc \in Waiting => Queued(p)
          /\ loc[p].pc \in Holding \ {"submit", "submitted"} => Holds(p)
          /\ loc[p].pc \in {"submit", "submitted"} /\ Queued(p) => Holds(p)

TypeOK == Typed /\ LockQueue

(* What is executed is the revision whose digest was approved, accepted by *)
(* a recorded review, certified with the brief the human saw and confirmed *)
(* (approve_plan holds no lock and commits in two transactions).           *)
ApprovedPlanCertified ==
    run.state = "READY_TO_EXECUTE" =>
        /\ approved.rev = approved.of /\ plan.state = "APPROVED"
        /\ cert.rev = plan.rev /\ cert.brief = interview.confirmed
        /\ interview.confirmed = interview.shown \/ interview.confirmed = 0
        /\ \E i \in DOMAIN history : history[i].rev = plan.rev /\ history[i].finding = Accept

(* While the bindings stand, a verdict is recorded for the revision its    *)
(* reviewer read, though apply_plan_review_verdict never compares them.    *)
VerdictFitsPlan ==
    world = 0 => \A i \in DOMAIN history : history[i].of = history[i].rev

(* A review the operator resumed after its budget ran out ends in a human  *)
(* approval, never in an automatic one, whichever reviewer, recovery or    *)
(* crash comes in between.  When the bindings change, an automatic         *)
(* approval decided before may still be under way: approve_plan looks at   *)
(* the certificate again, and not at the gate.                             *)
ResumedReviewNeedsHuman ==
    world = 0 /\ run.state = "READY_TO_EXECUTE" /\ approved.of \in gated
        => approved.by = "idle"

(* Findings that come back in a later agent review are not sent to the     *)
(* architect again: the run waits for the operator.                        *)
RepeatedFindingsEscalate ==
    \A i, j \in DOMAIN history :
        /\ i < j /\ history[i].source = "agent" /\ history[j].source = "agent"
        /\ history[i].finding = history[j].finding /\ history[i].finding # Accept
        /\ \A k \in DOMAIN history : k > j => history[k].source # "human"
        => run.state \notin {"PLAN_REVISION_REQUIRED", "ARCHITECTING"}

(* Pump, maintenance and operator all launch reviewers; at most one is     *)
(* active, the reopened and the resumed review included.                   *)
OneActiveReviewer == Cardinality({i \in Role("reviewer") : Active(session[i])}) <= 1

(* What is executed was approved as it is, by whom it may be, after a      *)
(* review by one reviewer at a time.                                       *)
ApprovalEarned ==
    TypeOK /\ ApprovedPlanCertified /\ OneActiveReviewer /\ ResumedReviewNeedsHuman

(* A verdict counts for the plan it is about, and where the agents do not  *)
(* settle, a human decides.                                                *)
VerdictsHeeded == VerdictFitsPlan /\ RepeatedFindingsEscalate

(* A plan under review does not stay there: a reviewer answers, the stored *)
(* answer is recovered, or the review is handed to the operator.           *)
ReviewEnds == InReview ~> (~InReview \/ run.paused)

(* PLAN_REVIEW_REQUIRED means that the current plan has "passed a fresh,   *)
(* read-only adversarial review".  Refuted: a reviewer launched for a plan *)
(* that was reopened, and certified again by the stored verdict, may still *)
(* be at work when the next revision is under review, which its answer     *)
(* then certifies.                                                         *)
CertifiedPlanReviewed ==
    run.state = "PLAN_REVIEW_REQUIRED" =>
        \E i \in DOMAIN history : /\ history[i].rev = plan.rev /\ history[i].of = plan.rev
                                  /\ history[i].finding = Accept

(* ... of its current bindings.  Refuted: a reopened review is answered by *)
(* the stored verdict of the review before it.                             *)
ReopenedPlanReviewedAgain == run.state = "PLAN_REVIEW_REQUIRED" => reviewed

(* The gate of a resumed review, whatever the bindings do.  Refuted: see   *)
(* ResumedReviewNeedsHuman.                                                *)
ResumedNeverAutomatic ==
    run.state = "READY_TO_EXECUTE" /\ approved.of \in gated => approved.by = "idle"
=============================================================================
