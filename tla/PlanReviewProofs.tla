-------------------------- MODULE PlanReviewProofs --------------------------
(***************************************************************************)
(* For any findings, revisions, commands, failures, invalid answers and    *)
(* changes of the bindings: what is executed was approved as it is, after  *)
(* a review by one reviewer at a time, and a resumed review was approved   *)
(* by a human.                                                             *)
(*                                                                         *)
(* None of this is inductive: a decision is taken in one transaction and   *)
(* carried out in later ones, some of them without the lock.  PInv records *)
(* what each program still knows at each of its points.                    *)
(***************************************************************************)
EXTENDS PlanReview, TLAPS, SequenceTheorems, FiniteSetTheorems, WellFoundedInduction

Reviewing == {"PLAN_ADVERSARIAL_REVIEW", "plan_review_budget_exhausted"}
Settled == {"CERTIFIED", "APPROVED"}
Over == {"Confirmed", "Skipped", "Absent"}
Approving == {"approve", "approving", "approved", "reopen"}
Automatically == <<"approve_automatic", 0>>

\* The latest plan has its certificate, and the review record behind it.
Certified ==
    /\ cert.rev = plan.rev /\ cert.brief = confirmed_intent_brief
    /\ \E i \in DOMAIN history : history[i].rev = plan.rev /\ history[i].finding = Accept

\* The locals of a program are about what it created or was given.
OwnLocals(p) ==
    /\ loc[p].pc \in {"architect", "reviser"} =>
          loc[p].s \in DOMAIN session /\ session[loc[p].s].role = "architect"
    /\ loc[p].pc \in {"apply", "certify", "certified"} =>
          loc[p].s \in DOMAIN session /\ loc[p].msg \in Verdicts
    /\ loc[p].pc \in Approving => loc[p].msg \in {<<"idle", 0>>, Automatically}
    /\ loc[p].pc \in Approving \cup {"approve_automatic"} => loc[p].rev <= plan.rev

(* The revision approve_latest_plan read is certified for as long as it is *)
(* the latest, whatever happens to its state before it is marked.          *)
ReadCertified(p) ==
    loc[p].pc = "approving" =>
        /\ loc[p].s <= plan.rev /\ plan.state # "NONE"
        /\ loc[p].s = plan.rev => Certified

\* While the version has not moved, the run is as it was read, and the plan with it.
ReadStands(p) ==
    loc[p].fresh =>
    /\ loc[p].pc \in {"architect", "recover_architecture"} =>
          run.state = "READY_FOR_ARCHITECTURE"
    /\ loc[p].pc = "reviser" => run.state = "PLAN_REVISION_REQUIRED"
    /\ loc[p].pc = "submitted" => run.state = "ARCHITECTING"
    /\ loc[p].pc \in {"certify", "certified"} => run.state = "PLAN_ADVERSARIAL_REVIEW"
    /\ loc[p].pc \in Approving => run.state = "PLAN_REVIEW_REQUIRED" /\ loc[p].rev = plan.rev
    /\ loc[p].pc = "approving" => loc[p].s = plan.rev
    /\ loc[p].pc = "approved" => plan.state = "APPROVED"
    /\ loc[p].pc = "changes" => run.state \in {"PLAN_REVIEW_REQUIRED",
          "plan_review_deadlocked", "plan_review_budget_exhausted"}
    /\ loc[p].pc = "resume" => run.state = "plan_review_budget_exhausted"

(* Whoever applies a verdict holds the lock, so the run cannot leave the   *)
(* review under it, except by the budget; an accepting verdict has its     *)
(* certificate before the plan is CERTIFIED.                               *)
VerdictHeld(p) ==
    /\ loc[p].pc \in {"certify", "certified"} => run.state \in Reviewing
    /\ loc[p].pc \in {"certify", "certified"} /\ loc[p].msg = Accept => loc[p].rev = plan.rev
    /\ loc[p].pc = "certify" /\ loc[p].msg = Accept => Certified
    /\ loc[p].pc = "certified" /\ loc[p].msg = Accept => plan.state \in Settled

(* While the bindings stand, an automatic approval under way is of a plan  *)
(* that is not gated, nor can be: resuming needs a PROPOSED plan.          *)
Ungated(p) ==
    /\ world = 0 /\ loc[p].rev = plan.rev
    /\ \/ loc[p].pc = "approve_automatic"
       \/ loc[p].pc \in {"approve", "approving", "approved"} /\ loc[p].msg = Automatically
    => plan.rev \notin gated /\ plan.state # "PROPOSED"

Knows(p) ==
    OwnLocals(p) /\ ReadCertified(p) /\ ReadStands(p) /\ VerdictHeld(p) /\ Ungated(p)

\* The interview ends with the run's transition; its brief is the one shown.
BriefSettled ==
    /\ run.state = "INTERVIEWING" <=> interview.status \notin Over
    /\ interview.status = "Confirmed" => interview.confirmed = interview.shown
    /\ interview.status # "Confirmed" => interview.confirmed = 0

PlanSettled ==
    /\ plan.state # "NONE" => run.state # "INTERVIEWING"
    /\ plan.state \in Settled => Certified
    /\ cert.world <= world

Executed ==
    run.state = "READY_TO_EXECUTE" =>
        /\ plan.state = "APPROVED" /\ approved.rev = approved.of /\ approved.of = plan.rev
        /\ world = 0 /\ plan.rev \in gated => approved.by = "idle"

OneReviewer ==
    \A i, j \in DOMAIN session :
        /\ session[i].role = "reviewer" /\ session[j].role = "reviewer"
        /\ Active(session[i]) /\ Active(session[j])
        => i = j

PInv == /\ TypeOK /\ BriefSettled /\ PlanSettled /\ Executed /\ OneReviewer
        /\ \A p \in Procs : Knows(p)

-----------------------------------------------------------------------------
(* Types.                                                                   *)

LEMMA QueueTypes ==
    ASSUME Typed, NEW p \in Procs, NEW pc, Requeue(p, pc)
    PROVE  queue' \in Seq(Procs)
  <1>1. queue \in Seq(Procs)
    BY DEF Typed
  <1>2. Holds(p) => Tail(queue) \in Seq(Procs)
    BY <1>1 DEF Holds
  <1> QED BY <1>1, <1>2 DEF Requeue

LEMMA IdleTyped == Idle \in Locals
  BY DEF Idle, Locals, Points, Unlocked, Messages, Answers, NoMessage

(* What the helpers do to the locals of the process that acts, and to those *)
(* of the others.                                                           *)
Lands(p, pc, rev, fresh, msg, s) ==
    /\ loc' \in [Procs -> Locals] /\ queue' \in Seq(Procs) /\ Requeue(p, pc)
    /\ loc'[p].pc = pc /\ loc'[p].rev = rev /\ loc'[p].fresh = fresh /\ loc'[p].msg = msg
    /\ loc'[p].s = s
Others(p) == \A q \in Procs \ {p} : loc'[q] = loc[q]
OthersStale(p) ==
    \A q \in Procs \ {p} :
        /\ loc'[q].pc = loc[q].pc /\ loc'[q].rev = loc[q].rev /\ loc'[q].msg = loc[q].msg
        /\ loc'[q].s = loc[q].s /\ loc'[q].fresh = FALSE

LEMMA GotoEffect ==
    ASSUME Typed, NEW p \in Procs, NEW pc \in Points, Goto(p, pc)
    PROVE  Lands(p, pc, loc[p].rev, loc[p].fresh, loc[p].msg, loc[p].s) /\ Others(p)
  <1>1. loc' = [loc EXCEPT ![p] = [loc[p] EXCEPT !.pc = pc]] /\ Requeue(p, pc)
    BY DEF Goto
  <1>2. loc \in [Procs -> Locals]
    BY DEF Typed
  <1>3. [loc[p] EXCEPT !.pc = pc] \in Locals
    BY <1>2 DEF Locals
  <1>4. loc' \in [Procs -> Locals] /\ queue' \in Seq(Procs)
    BY <1>1, <1>2, <1>3, QueueTypes
  <1>5. loc'[p] = [loc[p] EXCEPT !.pc = pc] /\ Others(p)
    BY <1>1, <1>2 DEF Others
  <1> QED BY <1>1, <1>2, <1>4, <1>5 DEF Lands, Locals

LEMMA BeginEffect ==
    ASSUME Typed, NEW p \in Procs, NEW pc \in Points, NEW rev \in Nat, NEW msg \in Messages,
           NEW s \in Nat, Begin(p, pc, rev, msg, s)
    PROVE  Lands(p, pc, rev, TRUE, msg, s) /\ Others(p)
  <1> DEFINE b == (pc = "resume" \/ loc[p].resumed)
             r == [pc |-> pc, rev |-> rev, fresh |-> TRUE, msg |-> msg, s |-> s,
                   resumed |-> b]
  <1>0. b \in BOOLEAN
    OBVIOUS
  <1>1. loc' = [loc EXCEPT ![p] = r] /\ Requeue(p, pc)
    BY DEF Begin
  <1> HIDE DEF b
  <1>2. /\ r \in Locals /\ r.pc = pc /\ r.rev = rev /\ r.fresh = TRUE /\ r.msg = msg
        /\ r.s = s
    BY <1>0 DEF Locals
  <1> HIDE DEF r
  <1>3. loc \in [Procs -> Locals]
    BY DEF Typed
  <1>4. loc' \in [Procs -> Locals] /\ loc'[p] = r /\ Others(p)
    BY <1>1, <1>2, <1>3 DEF Others
  <1> QED BY <1>1, <1>2, <1>4, QueueTypes DEF Lands

LEMMA ReturnEffect ==
    ASSUME Typed, NEW p \in Procs, Return(p)
    PROVE  Lands(p, "idle", 0, FALSE, NoMessage, 0) /\ Others(p)
  <1>1. loc \in [Procs -> Locals]
    BY DEF Typed
  <1>2. loc' \in [Procs -> Locals] /\ loc'[p] = Idle /\ Others(p) /\ Requeue(p, "idle")
    BY <1>1, IdleTyped DEF Return, Others
  <1> QED BY <1>2, QueueTypes DEF Idle, Lands

LEMMA MovedEffect ==
    ASSUME Typed, NEW p \in Procs, NEW pc \in Points, Moved(p, pc)
    PROVE  Lands(p, pc, loc[p].rev, FALSE, loc[p].msg, loc[p].s) /\ OthersStale(p)
  <1>0. loc \in [Procs -> Locals]
    BY DEF Typed
  <1>1. \A q \in Procs : [loc[q] EXCEPT !.fresh = FALSE] \in Locals
    BY <1>0 DEF Locals
  <1>2. [loc[p] EXCEPT !.pc = pc, !.fresh = FALSE] \in Locals
    BY <1>0 DEF Locals
  <1>3. /\ loc' \in [Procs -> Locals] /\ loc'[p] = [loc[p] EXCEPT !.pc = pc, !.fresh = FALSE]
        /\ \A q \in Procs \ {p} : loc'[q] = [loc[q] EXCEPT !.fresh = FALSE]
        /\ Requeue(p, pc)
    BY <1>1, <1>2 DEF Moved
  <1>4. OthersStale(p)
    BY <1>0, <1>3 DEF OthersStale, Locals
  <1> QED BY <1>0, <1>3, <1>4, QueueTypes DEF Lands, Locals

LEMMA MovedAndDoneEffect ==
    ASSUME Typed, NEW p \in Procs, MovedAndDone(p)
    PROVE  Lands(p, "idle", 0, FALSE, NoMessage, 0) /\ OthersStale(p)
  <1>0. loc \in [Procs -> Locals]
    BY DEF Typed
  <1>1. \A q \in Procs : [loc[q] EXCEPT !.fresh = FALSE] \in Locals
    BY <1>0 DEF Locals
  <1>3. /\ loc' \in [Procs -> Locals] /\ loc'[p] = Idle
        /\ \A q \in Procs \ {p} : loc'[q] = [loc[q] EXCEPT !.fresh = FALSE]
        /\ Requeue(p, "idle")
    BY <1>1, IdleTyped DEF MovedAndDone
  <1>4. OthersStale(p)
    BY <1>0, <1>3 DEF OthersStale, Locals
  <1> QED BY <1>3, <1>4, QueueTypes DEF Lands, Idle

(* A session replaced by a session.                                         *)
LEMMA SessionReplaced ==
    ASSUME Typed, NEW s, NEW r, s \in DOMAIN session => r \in Sessions
    PROVE  /\ [session EXCEPT ![s] = r] \in Seq(Sessions)
           /\ DOMAIN [session EXCEPT ![s] = r] = DOMAIN session
  <1>1. session \in [1..Len(session) -> Sessions] /\ Len(session) \in Nat
    BY DEF Typed
  <1>2. [session EXCEPT ![s] = r] \in [1..Len(session) -> Sessions]
    BY <1>1
  <1> QED BY <1>1, <1>2, SeqDef

(* The newest of a set of sessions.                                         *)
LEMMA LatestIn ==
    ASSUME Typed, NEW S, S \subseteq DOMAIN session, S # {}
    PROVE  Latest(S) \in S
  <1>a. session \in Seq(Sessions)
    BY DEF Typed
  <1>b. Len(session) \in Nat /\ DOMAIN session = 1..Len(session)
    BY <1>a
  <1> DEFINE n == Len(session)
             T == {m \in Nat : \E i \in S : m = n - i}
             less == {ss \in Nat \X Nat : ss[1] < ss[2]}
  <1>1. n \in Nat /\ S \subseteq 1..n
    BY <1>b
  <1>2. T # {} /\ T \subseteq Nat /\ \A j \in S : n - j \in T
    BY <1>1
  <1>3. IsWellFoundedOn(less, Nat)
    BY NatLessThanWellFounded, Zenon DEF OpToRel
  <1>4. \E m \in T : \A k \in T : ~(<<k, m>> \in less)
    <2> HIDE DEF T, less
    <2> QED BY <1>2, <1>3, WFMin
  <1>5. PICK m \in T : \A k \in T : ~(<<k, m>> \in less)
    BY <1>4
  <1>6. \A k \in T : m <= k
    <2> SUFFICES ASSUME NEW k \in T PROVE m <= k
      OBVIOUS
    <2>1. m \in Nat /\ k \in Nat
      BY <1>2
    <2>2. ~(<<k, m>> \in less)
      BY <1>5
    <2>3. ~(k < m)
      <3> HIDE DEF T
      <3> QED BY <2>1, <2>2
    <2> QED BY <2>1, <2>3
  <1>7. PICK i \in S : m = n - i
    OBVIOUS
  <1>8. \A j \in S : n - i <= n - j
    <2> HIDE DEF T
    <2> QED BY <1>2, <1>6, <1>7
  <1>9. \A j \in S : j <= i
    <2> SUFFICES ASSUME NEW j \in S PROVE j <= i
      OBVIOUS
    <2>1. i \in Nat /\ j \in Nat
      BY <1>1
    <2> QED BY <2>1, <1>1, <1>8
  <1> QED BY <1>9 DEF Latest

-----------------------------------------------------------------------------
(* What a step may do to the sessions: none is dropped or changes its role; *)
(* and no reviewer becomes active.                                          *)
Keeps(f) ==
    /\ f \in Seq(Sessions) /\ DOMAIN session \subseteq DOMAIN f
    /\ \A i \in DOMAIN session : f[i].role = session[i].role
Quiet(f) ==
    \A i \in DOMAIN f : f[i].role = "reviewer" /\ Active(f[i])
                        => i \in DOMAIN session /\ Active(session[i])

LEMMA SessionEdit ==
    ASSUME Typed, NEW s, NEW r,
           s \in DOMAIN session => r \in Sessions /\ r.role = session[s].role
    PROVE  /\ Keeps([session EXCEPT ![s] = r])
           /\ (s \in DOMAIN session /\ r.role = "reviewer" /\ Active(r) => Active(session[s]))
              => Quiet([session EXCEPT ![s] = r])
  <1> DEFINE f == [session EXCEPT ![s] = r]
  <1>1. f \in Seq(Sessions) /\ DOMAIN f = DOMAIN session
    BY SessionReplaced
  <1>2. \A i \in DOMAIN session : f[i] = IF i = s THEN r ELSE session[i]
    OBVIOUS
  <1> HIDE DEF f
  <1>3. Keeps(f)
    BY <1>1, <1>2 DEF Keeps
  <1>4. ASSUME s \in DOMAIN session /\ r.role = "reviewer" /\ Active(r) => Active(session[s])
        PROVE  Quiet(f)
    BY <1>1, <1>2, <1>4 DEF Quiet
  <1> QED BY <1>3, <1>4 DEF f

LEMMA SessionAdded ==
    ASSUME Typed, NEW role \in {"architect", "reviewer"},
           NEW state \in {"STARTING", "RUNNING", "FAILED"}, NEW turn \in BOOLEAN
    PROVE  /\ Keeps(Append(session, NewSession(role, state, turn)))
           /\ role = "architect" \/ state = "FAILED"
                => Quiet(Append(session, NewSession(role, state, turn)))
           /\ DOMAIN Append(session, NewSession(role, state, turn)) = 1..(Len(session) + 1)
           /\ Append(session, NewSession(role, state, turn))[Len(session) + 1].role = role
           /\ \A i \in DOMAIN session :
                Append(session, NewSession(role, state, turn))[i] = session[i]
  <1> DEFINE r == NewSession(role, state, turn)
             f == Append(session, r)
  <1>1. session \in Seq(Sessions) /\ plan.rev \in Nat
    BY DEF Typed
  <1>2. r \in Sessions /\ r.role = role /\ r.state = state
    BY <1>1 DEF NewSession, Sessions, Answers, NoMessage
  <1> HIDE DEF r
  <1>3. /\ f \in Seq(Sessions) /\ DOMAIN f = 1..(Len(session) + 1)
        /\ DOMAIN session = 1..Len(session) /\ Len(session) \in Nat
        /\ f[Len(session) + 1] = r /\ \A i \in DOMAIN session : f[i] = session[i]
    BY <1>1, <1>2
  <1> HIDE DEF f
  <1>4. Keeps(f)
    BY <1>3 DEF Keeps
  <1>5. role = "architect" \/ state = "FAILED" => Quiet(f)
    BY <1>2, <1>3 DEF Quiet, Active
  <1> QED BY <1>2, <1>3, <1>4, <1>5 DEF f, r

(* The changes the actions make.                                            *)
LEMMA SessionChanges ==
    ASSUME Typed, NEW s
    PROVE  /\ \A x \in {"COMPLETED", "FAILED"} :
                /\ Keeps([session EXCEPT ![s].state = x])
                /\ Quiet([session EXCEPT ![s].state = x])
           /\ \A m \in Answers :
                /\ Keeps([session EXCEPT ![s].msg = m]) /\ Quiet([session EXCEPT ![s].msg = m])
                /\ Keeps([session EXCEPT ![s].msg = m, ![s].state = "FAILED"])
                /\ Quiet([session EXCEPT ![s].msg = m, ![s].state = "FAILED"])
           /\ Keeps([session EXCEPT ![s].turn = FALSE])
           /\ Quiet([session EXCEPT ![s].turn = FALSE])
           /\ Keeps([session EXCEPT ![s].turn = FALSE, ![s].state = "FAILED"])
           /\ Quiet([session EXCEPT ![s].turn = FALSE, ![s].state = "FAILED"])
           /\ Keeps(ReviewerEnded(s)) /\ Quiet(ReviewerEnded(s))
           /\ Keeps(Continued(s))
           /\ Keeps([session EXCEPT ![s].state = "RUNNING", ![s].turn = TRUE])
           /\ s \in DOMAIN session /\ session[s].role = "architect"
                => Quiet([session EXCEPT ![s].state = "RUNNING", ![s].turn = TRUE])
  <1> DEFINE a == session[s]
  <1>0. session \in Seq(Sessions)
    BY DEF Typed
  <1>1. s \in DOMAIN session => a \in Sessions
    BY <1>0
  <1>2. NoMessage \in Answers
    BY DEF Answers
  <1>3. ASSUME NEW x \in {"COMPLETED", "FAILED"}
        PROVE  Keeps([session EXCEPT ![s].state = x]) /\ Quiet([session EXCEPT ![s].state = x])
    <2> DEFINE r == [session[s] EXCEPT !.state = x]
    <2>1. s \in DOMAIN session => r \in Sessions /\ r.role = session[s].role /\ ~Active(r)
      BY <1>1 DEF Sessions, Active
    <2> HIDE DEF r
    <2>2. Keeps([session EXCEPT ![s] = r]) /\ Quiet([session EXCEPT ![s] = r])
      BY <2>1, SessionEdit
    <2> QED BY <2>2 DEF r
  <1>4. ASSUME NEW m \in Answers
        PROVE  Keeps([session EXCEPT ![s].msg = m]) /\ Quiet([session EXCEPT ![s].msg = m])
    <2> DEFINE r == [session[s] EXCEPT !.msg = m]
    <2>1. s \in DOMAIN session => /\ r \in Sessions /\ r.role = session[s].role
                                  /\ Active(r) => Active(session[s])
      BY <1>1 DEF Sessions, Active
    <2> HIDE DEF r
    <2>2. Keeps([session EXCEPT ![s] = r]) /\ Quiet([session EXCEPT ![s] = r])
      BY <2>1, SessionEdit
    <2> QED BY <2>2 DEF r
  <1>5. ASSUME NEW m \in Answers
        PROVE  /\ Keeps([session EXCEPT ![s].msg = m, ![s].state = "FAILED"])
               /\ Quiet([session EXCEPT ![s].msg = m, ![s].state = "FAILED"])
    <2> DEFINE r == [session[s] EXCEPT !.msg = m, !.state = "FAILED"]
    <2>1. s \in DOMAIN session => r \in Sessions /\ r.role = session[s].role /\ ~Active(r)
      BY <1>1 DEF Sessions, Active
    <2>3. [session EXCEPT ![s].msg = m, ![s].state = "FAILED"] = [session EXCEPT ![s] = r]
      BY <1>0
    <2> HIDE DEF r
    <2>2. Keeps([session EXCEPT ![s] = r]) /\ Quiet([session EXCEPT ![s] = r])
      BY <2>1, SessionEdit
    <2> QED BY <2>2, <2>3
  <1>6. Keeps([session EXCEPT ![s].turn = FALSE]) /\ Quiet([session EXCEPT ![s].turn = FALSE])
    <2> DEFINE r == [session[s] EXCEPT !.turn = FALSE]
    <2>1. s \in DOMAIN session => /\ r \in Sessions /\ r.role = session[s].role
                                  /\ Active(r) => Active(session[s])
      BY <1>1 DEF Sessions, Active
    <2> HIDE DEF r
    <2>2. Keeps([session EXCEPT ![s] = r]) /\ Quiet([session EXCEPT ![s] = r])
      BY <2>1, SessionEdit
    <2> QED BY <2>2 DEF r
  <1>7. /\ Keeps([session EXCEPT ![s].turn = FALSE, ![s].state = "FAILED"])
        /\ Quiet([session EXCEPT ![s].turn = FALSE, ![s].state = "FAILED"])
    <2> DEFINE r == [session[s] EXCEPT !.turn = FALSE, !.state = "FAILED"]
    <2>1. s \in DOMAIN session => r \in Sessions /\ r.role = session[s].role /\ ~Active(r)
      BY <1>1 DEF Sessions, Active
    <2>3. [session EXCEPT ![s].turn = FALSE, ![s].state = "FAILED"] = [session EXCEPT ![s] = r]
      BY <1>0
    <2> HIDE DEF r
    <2>2. Keeps([session EXCEPT ![s] = r]) /\ Quiet([session EXCEPT ![s] = r])
      BY <2>1, SessionEdit
    <2> QED BY <2>2, <2>3
  <1>8. Keeps(ReviewerEnded(s)) /\ Quiet(ReviewerEnded(s))
    <2> DEFINE x == IF session[s].state = "COMPLETED" THEN "COMPLETED" ELSE "FAILED"
               r == [session[s] EXCEPT !.turn = FALSE, !.state = x]
    <2>1. s \in DOMAIN session => r \in Sessions /\ r.role = session[s].role /\ ~Active(r)
      BY <1>1 DEF Sessions, Active
    <2>3. ReviewerEnded(s) = [session EXCEPT ![s] = r]
      BY <1>0, <1>1 DEF ReviewerEnded, Sessions
    <2> HIDE DEF r
    <2>2. Keeps([session EXCEPT ![s] = r]) /\ Quiet([session EXCEPT ![s] = r])
      BY <2>1, SessionEdit
    <2> QED BY <2>2, <2>3
  <1>9. Keeps(Continued(s))
    <2> DEFINE r == [session[s] EXCEPT !.state = "RUNNING", !.turn = TRUE, !.retried = TRUE,
                                        !.msg = NoMessage]
    <2>1. s \in DOMAIN session => r \in Sessions /\ r.role = session[s].role
      BY <1>1, <1>2 DEF Sessions
    <2>3. Continued(s) = [session EXCEPT ![s] = r]
      BY <1>0 DEF Continued
    <2> HIDE DEF r
    <2>2. Keeps([session EXCEPT ![s] = r])
      BY <2>1, SessionEdit
    <2> QED BY <2>2, <2>3
  <1>10. /\ Keeps([session EXCEPT ![s].state = "RUNNING", ![s].turn = TRUE])
         /\ s \in DOMAIN session /\ session[s].role = "architect"
                => Quiet([session EXCEPT ![s].state = "RUNNING", ![s].turn = TRUE])
    <2> DEFINE r == [session[s] EXCEPT !.state = "RUNNING", !.turn = TRUE]
    <2>1. s \in DOMAIN session => r \in Sessions /\ r.role = session[s].role
      BY <1>1 DEF Sessions
    <2>3. [session EXCEPT ![s].state = "RUNNING", ![s].turn = TRUE] = [session EXCEPT ![s] = r]
      BY <1>0
    <2> HIDE DEF r
    <2>2. Keeps([session EXCEPT ![s] = r])
      BY <2>1, SessionEdit
    <2>4. s \in DOMAIN session /\ session[s].role = "architect"
            => Quiet([session EXCEPT ![s] = r])
      BY <2>1, SessionEdit
    <2> QED BY <2>2, <2>3, <2>4
  <1> QED BY <1>3, <1>4, <1>5, <1>6, <1>7, <1>8, <1>9, <1>10

LEMMA OrphanedKeeps ==
    ASSUME Typed, Orphaned
    PROVE  Keeps(session') /\ Quiet(session')
  <1>1. session \in [1..Len(session) -> Sessions] /\ Len(session) \in Nat
    BY DEF Typed
  <1>2. session' = [i \in DOMAIN session |->
                     IF session[i].turn \/ session[i].state = "STARTING"
                     THEN [session[i] EXCEPT !.turn = FALSE, !.state = "STALLED"]
                     ELSE session[i]]
    BY DEF Orphaned
  <1>3. ASSUME NEW i \in DOMAIN session
        PROVE  /\ session'[i] \in Sessions /\ session'[i].role = session[i].role
               /\ Active(session'[i]) => Active(session[i])
    BY <1>1, <1>2 DEF Sessions, Active
  <1>4. session' \in [1..Len(session) -> Sessions] /\ DOMAIN session' = DOMAIN session
    BY <1>1, <1>2, <1>3
  <1>5. session' \in Seq(Sessions)
    BY <1>1, <1>4, SeqDef
  <1> QED BY <1>3, <1>4, <1>5 DEF Keeps, Quiet

-----------------------------------------------------------------------------
(* The lock.                                                                *)

LEMMA HolderStays ==
    ASSUME Typed, NEW p \in Procs, NEW q \in Procs, p # q, NEW pc, Requeue(p, pc), Holds(q)
    PROVE  Holds(q)'
  <1>1. queue \in Seq(Procs) /\ queue # <<>> /\ Head(queue) = q
    BY DEF Typed, Holds
  <1>2. queue' = queue \/ queue' = Append(queue, p)
    BY <1>1 DEF Requeue, Holds
  <1>3. queue' # <<>> /\ Head(queue') = Head(queue)
    BY <1>1, <1>2
  <1> QED BY <1>1, <1>3 DEF Holds

LEMMA HeadIsFirst ==
    ASSUME Typed, NEW p \in Procs
    PROVE  Holds(p) <=> 1 \in DOMAIN queue /\ queue[1] = p
  <1>1. queue \in Seq(Procs)
    BY DEF Typed
  <1> QED BY <1>1 DEF Holds

LEMMA LockStep ==
    ASSUME Typed, LockQueue, NEW p \in Procs, NEW pc \in Points, NEW rev, NEW fresh, NEW msg,
           NEW s, Lands(p, pc, rev, fresh, msg, s),
           \A q \in Procs \ {p} : loc'[q].pc = loc[q].pc,
           loc[p].pc \in Waiting => Holds(p),
           pc \in Holding \ {"submit", "submitted"} => Holds(p)
    PROVE  LockQueue'
  <1>1. queue \in Seq(Procs) /\ queue' \in Seq(Procs) /\ Requeue(p, pc) /\ loc'[p].pc = pc
    BY DEF Typed, Lands
  <1>2. Queued(p) => Holds(p)
    BY DEF LockQueue, Typed, Locals, Points
  <1>3. Holds(p) => /\ Len(queue) >= 1 /\ queue[1] = p /\ Tail(queue) \in Seq(Procs)
                    /\ Len(Tail(queue)) = Len(queue) - 1
                    /\ \A i \in DOMAIN Tail(queue) : Tail(queue)[i] = queue[i + 1]
    BY <1>1 DEF Holds
  <1> DEFINE rest == IF Holds(p) THEN Tail(queue) ELSE queue
  <1>4. /\ rest \in Seq(Procs)
        /\ \A i, j \in DOMAIN rest : rest[i] = rest[j] => i = j
        /\ \A i \in DOMAIN rest : rest[i] # p
    <2>1. CASE Holds(p)
      BY <2>1, <1>1, <1>3 DEF LockQueue
    <2>2. CASE ~Holds(p)
      BY <2>2, <1>1, <1>2 DEF LockQueue, Queued
    <2> QED BY <2>1, <2>2
  <1>5. \A q \in Procs \ {p} : Queued(q) <=> \E i \in DOMAIN rest : rest[i] = q
    <2>1. CASE Holds(p)
      <3> SUFFICES ASSUME NEW q \in Procs \ {p}
                   PROVE Queued(q) <=> \E i \in DOMAIN rest : rest[i] = q
        OBVIOUS
      <3>1. ASSUME NEW i \in DOMAIN queue, queue[i] = q PROVE i - 1 \in DOMAIN rest /\ rest[i-1] = q
        BY <2>1, <3>1, <1>1, <1>3
      <3>2. ASSUME NEW i \in DOMAIN rest, rest[i] = q PROVE i + 1 \in DOMAIN queue /\ queue[i+1] = q
        BY <2>1, <3>2, <1>1, <1>3
      <3> QED BY <3>1, <3>2 DEF Queued
    <2>2. CASE ~Holds(p)
      BY <2>2 DEF Queued
    <2> QED BY <2>1, <2>2
  <1>6. queue' = IF pc \in Holding THEN queue
                 ELSE IF pc \in Waiting THEN Append(rest, p) ELSE rest
    BY <1>1 DEF Requeue
  <1> HIDE DEF rest
  <1>7. \A i, j \in DOMAIN queue' : queue'[i] = queue'[j] => i = j
    <2>1. CASE pc \in Holding
      BY <2>1, <1>6 DEF LockQueue
    <2>2. CASE pc \notin Holding /\ pc \in Waiting
      <3>1. queue' = Append(rest, p)
        BY <2>2, <1>6
      <3> QED BY <3>1, <1>4
    <2>3. CASE pc \notin Holding /\ pc \notin Waiting
      BY <2>3, <1>6, <1>4
    <2> QED BY <2>1, <2>2, <2>3
  <1>8. \A q \in Procs \ {p} : Queued(q)' <=> Queued(q)
    <2>1. CASE pc \in Holding
      BY <2>1, <1>6 DEF Queued
    <2>2. CASE pc \notin Holding /\ pc \in Waiting
      <3>1. queue' = Append(rest, p)
        BY <2>2, <1>6
      <3>2. /\ DOMAIN queue' = 1..(Len(rest) + 1) /\ DOMAIN rest = 1..Len(rest)
            /\ Len(rest) \in Nat /\ queue'[Len(rest) + 1] = p
            /\ \A i \in DOMAIN rest : queue'[i] = rest[i]
        BY <3>1, <1>4
      <3>3. \A q \in Procs \ {p} : Queued(q)' <=> \E i \in DOMAIN rest : rest[i] = q
        BY <3>2 DEF Queued
      <3> QED BY <3>3, <1>5
    <2>3. CASE pc \notin Holding /\ pc \notin Waiting
      BY <2>3, <1>6, <1>5 DEF Queued
    <2> QED BY <2>1, <2>2, <2>3
  <1>9. /\ pc \in Waiting => Queued(p)'
        /\ Queued(p)' => pc \in Waiting \cup Holding
        /\ pc \in Holding /\ Queued(p)' => Holds(p)'
    <2>1. CASE pc \in Holding
      <3>1. queue' = queue /\ pc \notin Waiting
        BY <2>1, <1>6 DEF Holding, Waiting
      <3> QED BY <3>1, <2>1, <1>2 DEF Queued, Holds
    <2>2. CASE pc \notin Holding /\ pc \in Waiting
      <3>1. queue' = Append(rest, p)
        BY <2>2, <1>6
      <3>2. Len(rest) + 1 \in DOMAIN queue' /\ queue'[Len(rest) + 1] = p
        BY <3>1, <1>4
      <3> QED BY <3>2, <2>2 DEF Queued
    <2>3. CASE pc \notin Holding /\ pc \notin Waiting
      BY <2>3, <1>6, <1>4 DEF Queued
    <2> QED BY <2>1, <2>2, <2>3
  <1>10. \A q \in Procs \ {p} : Holds(q) => Holds(q)'
    BY <1>1, HolderStays
  <1>11. pc \in Holding \ {"submit", "submitted"} => Holds(p)'
    BY <1>6 DEF Holds
  <1>12. ASSUME NEW q \in Procs
         PROVE /\ Queued(q)' => loc'[q].pc \notin Unlocked
               /\ loc'[q].pc \in Waiting => Queued(q)'
               /\ loc'[q].pc \in Holding \ {"submit", "submitted"} => Holds(q)'
               /\ loc'[q].pc \in {"submit", "submitted"} /\ Queued(q)' => Holds(q)'
    <2>1. CASE q = p
      BY <2>1, <1>1, <1>9, <1>11 DEF Holding, Waiting, Unlocked
    <2>2. CASE q # p
      <3>1. loc'[q].pc = loc[q].pc /\ (Queued(q)' <=> Queued(q)) /\ (Holds(q) => Holds(q)')
        BY <2>2, <1>8, <1>10
      <3> QED BY <3>1 DEF LockQueue
    <2> QED BY <2>1, <2>2
  <1> QED BY <1>7, <1>12 DEF LockQueue

-----------------------------------------------------------------------------
(* What a step may do to the shared state, and to a program that is not    *)
(* the one that acts.                                                      *)
Shared ==
    /\ Keeps(session')
    /\ \A i \in DOMAIN history : i \in DOMAIN history' /\ history'[i] = history[i]
    /\ world <= world' /\ plan.rev <= plan'.rev
    /\ run.state # "ARCHITECTING" => plan'.rev = plan.rev
    /\ run.state # "ARCHITECTING" /\ plan.state = "APPROVED" => plan'.state = "APPROVED"
    /\ plan'.rev = plan.rev /\ plan'.state = "PROPOSED"
         => plan.state = "PROPOSED" \/ (plan.state = "CERTIFIED" /\ ~CertificateFresh)
    /\ plan'.rev = plan.rev /\ plan.rev \in gated'
         => plan.rev \in gated \/ plan.state = "PROPOSED"
    /\ run.state # "INTERVIEWING" => confirmed_intent_brief' = confirmed_intent_brief
    /\ plan.state # "NONE" => plan'.state # "NONE"
    /\ plan'.rev = plan.rev /\ run.state # "INTERVIEWING" /\ Certified => Certified'

Kept(q) ==
    /\ loc'[q].pc = loc[q].pc /\ loc'[q].rev = loc[q].rev /\ loc'[q].msg = loc[q].msg
    /\ loc'[q].s = loc[q].s
    /\ loc'[q].fresh => loc[q].fresh /\ run'.state = run.state
    /\ Holds(q) => cert' = cert
    /\ Holds(q) /\ run.state \in Reviewing => run'.state \in Reviewing
    /\ Holds(q) /\ run.state \in Reviewing /\ plan.state \in Settled => plan'.state \in Settled

LEMMA BystanderKeeps ==
    ASSUME PInv, Typed', Shared, NEW q \in Procs, Kept(q)
    PROVE  Knows(q)'
  <1>1. /\ Knows(q) /\ plan.rev \in Nat /\ plan'.rev \in Nat /\ loc[q].rev \in Nat
        /\ world \in Nat /\ world' \in Nat /\ cert.world \in Nat
    <2>1. loc \in [Procs -> Locals]
      BY DEF PInv, TypeOK, Typed
    <2> QED BY <2>1 DEF PInv, TypeOK, Typed, Locals
  <1>2. OwnLocals(q)'
    <2>1. /\ loc'[q].pc = loc[q].pc /\ loc'[q].rev = loc[q].rev /\ loc'[q].msg = loc[q].msg
          /\ loc'[q].s = loc[q].s
      BY DEF Kept
    <2>2. /\ DOMAIN session \subseteq DOMAIN session'
          /\ \A i \in DOMAIN session : session'[i].role = session[i].role
          /\ plan.rev <= plan'.rev
      BY DEF Shared, Keeps
    <2>3. loc[q].rev <= plan.rev => loc[q].rev <= plan'.rev
      BY <1>1, <2>2
    <2>4. OwnLocals(q)
      BY <1>1 DEF Knows
    <2> QED BY <2>1, <2>2, <2>3, <2>4 DEF OwnLocals
  <1>6. ReadCertified(q)'
    <2> SUFFICES ASSUME loc'[q].pc = "approving" PROVE ReadCertified(q)'
      BY DEF ReadCertified
    <2>1. /\ loc[q].pc = "approving" /\ loc'[q].s = loc[q].s /\ loc[q].s \in Nat
          /\ ReadCertified(q) /\ plan.rev <= plan'.rev
      <3>1. loc \in [Procs -> Locals]
        BY DEF PInv, TypeOK, Typed
      <3> QED BY <1>1, <3>1 DEF Kept, Knows, Shared, Locals
    <2>2. /\ loc[q].s <= plan.rev /\ plan.state # "NONE" /\ run.state # "INTERVIEWING"
          /\ loc[q].s = plan.rev => Certified
      BY <2>1 DEF ReadCertified, PInv, PlanSettled
    <2>3. loc[q].s <= plan'.rev /\ (loc[q].s = plan'.rev => loc[q].s = plan.rev)
      BY <1>1, <2>1, <2>2
    <2> QED BY <2>1, <2>2, <2>3 DEF ReadCertified, Shared
  <1>3. ReadStands(q)'
    <2> SUFFICES ASSUME loc'[q].fresh PROVE ReadStands(q)'
      BY DEF ReadStands
    <2>1. /\ loc[q].fresh /\ run'.state = run.state /\ loc'[q].pc = loc[q].pc
          /\ loc'[q].rev = loc[q].rev /\ loc'[q].s = loc[q].s
      BY DEF Kept
    <2>2. /\ run.state # "ARCHITECTING" => plan'.rev = plan.rev
          /\ run.state # "ARCHITECTING" /\ plan.state = "APPROVED" => plan'.state = "APPROVED"
      BY DEF Shared
    <2>3. ReadStands(q)
      BY <1>1 DEF Knows
    <2> QED BY <2>1, <2>2, <2>3 DEF ReadStands, Approving
  <1>4. VerdictHeld(q)'
    <2> SUFFICES ASSUME loc'[q].pc \in {"certify", "certified"} PROVE VerdictHeld(q)'
      BY DEF VerdictHeld
    <2>1. loc[q].pc \in {"certify", "certified"} /\ VerdictHeld(q)
      BY <1>1 DEF Kept, Knows
    <2>2. Holds(q) /\ run.state \in Reviewing
      BY <2>1 DEF PInv, TypeOK, LockQueue, Holding, VerdictHeld
    <2>3. /\ run'.state \in Reviewing /\ cert' = cert /\ plan'.rev = plan.rev
          /\ plan.state \in Settled => plan'.state \in Settled
          /\ confirmed_intent_brief' = confirmed_intent_brief
          /\ \A i \in DOMAIN history : i \in DOMAIN history' /\ history'[i] = history[i]
      BY <2>2 DEF Kept, Shared, Reviewing
    <2>4. Certified => Certified'
      BY <2>3 DEF Certified
    <2> QED BY <2>1, <2>3, <2>4 DEF VerdictHeld, Kept
  <1>5. Ungated(q)'
    <2> SUFFICES ASSUME world' = 0, loc'[q].rev = plan'.rev,
                        \/ loc'[q].pc = "approve_automatic"
                        \/ loc'[q].pc \in {"approve", "approving", "approved"}
                           /\ loc'[q].msg = Automatically
                 PROVE  plan'.rev \notin gated' /\ plan'.state # "PROPOSED"
      BY DEF Ungated
    <2>1. world = 0 /\ cert.world = 0
      BY <1>1 DEF Shared, PInv, PlanSettled
    <2>2. \/ loc[q].pc = "approve_automatic"
          \/ loc[q].pc \in {"approve", "approving", "approved"} /\ loc[q].msg = Automatically
      BY DEF Kept
    <2>3. loc[q].rev <= plan.rev /\ plan.rev <= plan'.rev /\ loc'[q].rev = loc[q].rev
      BY <1>1, <2>2 DEF Knows, OwnLocals, Approving, Kept, Shared
    <2>4. loc[q].rev = plan.rev /\ plan'.rev = plan.rev
      BY <1>1, <2>3
    <2>5. plan.rev \notin gated /\ plan.state # "PROPOSED"
      BY <1>1, <2>1, <2>2, <2>4 DEF Knows, Ungated
    <2>6. plan.state = "CERTIFIED" => CertificateFresh
      BY <2>1 DEF PInv, PlanSettled, Certified, CertificateFresh, Settled
    <2> QED BY <2>4, <2>5, <2>6 DEF Shared
  <1> QED BY <1>2, <1>3, <1>4, <1>5, <1>6 DEF Knows

(* A point at which a program has nothing to remember.                     *)
Plain == {"idle", "architecture", "revise", "launch", "reviewer", "ask_changes",
          "ask_resume", "submit"}
LEMMA PlainKnows ==
    ASSUME NEW p \in Procs, loc[p].pc \in Plain
    PROVE  Knows(p)
  BY DEF Knows, OwnLocals, ReadCertified, ReadStands, VerdictHeld,
         Ungated, Plain, Approving

LEMMA ReviewersKept ==
    ASSUME OneReviewer, Keeps(session'), Quiet(session')
    PROVE  OneReviewer'
  BY DEF OneReviewer, Keeps, Quiet

(* The bounds and the bookkeeping no invariant is about.                   *)
Bookkept ==
    /\ used' \in [commands : Nat, failures : Nat, invalid : Nat]
    /\ repair' \in [attempts : Nat, pending : Nat]
    /\ reviewed' \in BOOLEAN

LEMMA Counted ==
    ASSUME Typed, Fail \/ Command \/ (\E m : Answer(m)) \/ UNCHANGED used
    PROVE  used' \in [commands : Nat, failures : Nat, invalid : Nat]
  <1>1. used \in [commands : Nat, failures : Nat, invalid : Nat]
    BY DEF Typed
  <1>2. CASE Fail
    BY <1>1, <1>2 DEF Fail
  <1>3. CASE Command
    BY <1>1, <1>3 DEF Command
  <1>4. ASSUME NEW m, Answer(m) PROVE used' \in [commands : Nat, failures : Nat, invalid : Nat]
    <2>1. m = Invalid \/ m # Invalid
      OBVIOUS
    <2> QED BY <1>1, <1>4, <2>1 DEF Answer
  <1> QED BY <1>1, <1>2, <1>3, <1>4

LEMMA RunTyped ==
    ASSUME Typed, NEW x \in RunStates, transition_run(x)
    PROVE  run' \in [state : RunStates, paused : BOOLEAN] /\ run'.state = x
                    /\ run'.paused = run.paused
  <1>1. run \in [state : RunStates, paused : BOOLEAN]
    BY DEF Typed
  <1> QED BY <1>1 DEF transition_run

LEMMA Vocabulary ==
    /\ \A pc \in Waiting \cup Holding \cup Unlocked : pc \in Points
    /\ NoMessage \in Messages /\ Valid \in Messages
    /\ <<"idle", 0>> \in Messages /\ Automatically \in Messages
    /\ Verdicts \subseteq Messages /\ Answers \subseteq Messages
    /\ Accept \in Verdicts /\ NoMessage \in Answers
    /\ PlanAnswers \subseteq Answers /\ Verdicts \cup {Invalid} \subseteq Answers
  BY DEF Points, Messages, Answers, Verdicts, PlanAnswers, Automatically, Valid, Invalid,
         Accept, NoMessage

-----------------------------------------------------------------------------
(* Kinds of steps.  Most decide nothing: they move one program on, and the *)
(* run perhaps.                                                            *)
LEMMA SharedSame ==
    ASSUME Typed, Keeps(session'), UNCHANGED <<interview, plan, cert, history, gated, world>>
    PROVE  Shared
  <1>1. plan.rev \in Nat /\ world \in Nat
    BY DEF Typed
  <1>2. plan.rev <= plan'.rev /\ world <= world'
    BY <1>1
  <1>3. confirmed_intent_brief' = confirmed_intent_brief /\ Certified' = Certified
    BY DEF confirmed_intent_brief, Certified
  <1> QED BY <1>2, <1>3 DEF Shared

LEMMA GlobalsSame ==
    ASSUME BriefSettled, PlanSettled, Executed,
           UNCHANGED <<interview, plan, cert, history, gated, world, approved>>,
           run'.state = "INTERVIEWING" <=> run.state = "INTERVIEWING",
           run'.state = "READY_TO_EXECUTE" => run.state = "READY_TO_EXECUTE"
    PROVE  BriefSettled' /\ PlanSettled' /\ Executed'
  <1>1. Certified' = Certified
    BY DEF Certified, confirmed_intent_brief
  <1>2. BriefSettled'
    BY DEF BriefSettled
  <1>3. PlanSettled'
    BY <1>1 DEF PlanSettled
  <1>4. Executed'
    BY DEF Executed
  <1> QED BY <1>2, <1>3, <1>4

(* Only the sessions change.                                               *)
LEMMA SessionStep ==
    ASSUME PInv, UNCHANGED <<run, loc, queue, interview, plan, cert, history, gated, world,
                             approved>>,
           Bookkept, Keeps(session'), OneReviewer'
    PROVE  PInv'
  <1>1. Typed'
    BY DEF PInv, TypeOK, Typed, Bookkept, Keeps
  <1>2. LockQueue'
    BY DEF PInv, TypeOK, LockQueue, Queued, Holds
  <1>3. Shared
    BY SharedSame DEF PInv, TypeOK
  <1>4. BriefSettled' /\ PlanSettled' /\ Executed'
    BY GlobalsSame DEF PInv
  <1>5. \A q \in Procs : Knows(q)'
    <2>1. \A q \in Procs : Kept(q)
      BY DEF Kept
    <2> QED BY <1>1, <1>3, <2>1, BystanderKeeps
  <1> QED BY <1>1, <1>2, <1>4, <1>5 DEF PInv, TypeOK

(* p moves from a point to another; the rest is as it was.                 *)
LEMMA ProgramStep ==
    ASSUME PInv, NEW p \in Procs, NEW pc \in Points, NEW rev, NEW fresh, NEW msg, NEW s,
           Lands(p, pc, rev, fresh, msg, s), Others(p),
           loc[p].pc \in Waiting => Holds(p),
           pc \in Holding \ {"submit", "submitted"} => Holds(p),
           UNCHANGED <<run, interview, plan, cert, history, gated, world, approved>>,
           Bookkept, Keeps(session'), OneReviewer', Knows(p)'
    PROVE  PInv'
  <1>1. Typed'
    <2>1. loc' \in [Procs -> Locals] /\ queue' \in Seq(Procs)
      BY DEF Lands
    <2> QED BY <2>1 DEF PInv, TypeOK, Typed, Bookkept, Keeps
  <1>2. LockQueue'
    <2>1. \A q \in Procs \ {p} : loc'[q].pc = loc[q].pc
      BY DEF Others
    <2> QED BY <2>1, LockStep DEF PInv, TypeOK
  <1>3. Shared
    BY SharedSame DEF PInv, TypeOK
  <1>4. BriefSettled' /\ PlanSettled' /\ Executed'
    BY GlobalsSame DEF PInv
  <1>5. \A q \in Procs \ {p} : Knows(q)'
    <2>1. \A q \in Procs \ {p} : Kept(q)
      BY DEF Kept, Others
    <2> QED BY <1>1, <1>3, <2>1, BystanderKeeps
  <1> QED BY <1>1, <1>2, <1>4, <1>5 DEF PInv, TypeOK

(* p moves the run as well: whoever else read it is stale.                 *)
LEMMA RowStep ==
    ASSUME PInv, NEW p \in Procs, NEW pc \in Points, NEW rev, NEW fresh, NEW msg, NEW s,
           Lands(p, pc, rev, fresh, msg, s), OthersStale(p),
           loc[p].pc \in Waiting => Holds(p),
           pc \in Holding \ {"submit", "submitted"} => Holds(p),
           NEW x \in RunStates \ {"INTERVIEWING", "READY_TO_EXECUTE"},
           run' \in [state : RunStates, paused : BOOLEAN], run'.state = x,
           run.state # "INTERVIEWING",
           run.state \in Reviewing => x \in Reviewing \/ Holds(p),
           UNCHANGED <<interview, plan, cert, history, gated, world, approved>>,
           Bookkept, Keeps(session'), OneReviewer', Knows(p)'
    PROVE  PInv'
  <1>0. Typed /\ LockQueue
    BY DEF PInv, TypeOK
  <1>1. Typed'
    <2>1. loc' \in [Procs -> Locals] /\ queue' \in Seq(Procs)
      BY DEF Lands
    <2> QED BY <1>0, <2>1 DEF Typed, Bookkept, Keeps
  <1>2. LockQueue'
    <2>1. \A q \in Procs \ {p} : loc'[q].pc = loc[q].pc
      BY DEF OthersStale
    <2> QED BY <1>0, <2>1, LockStep
  <1>3. Shared
    BY <1>0, SharedSame
  <1>5. BriefSettled' /\ PlanSettled' /\ Executed'
    BY GlobalsSame DEF PInv
  <1>6. \A q \in Procs \ {p} : Knows(q)'
    <2>1. ASSUME NEW q \in Procs \ {p} PROVE Kept(q)
      <3>1. Holds(q) => ~Holds(p)
        BY DEF Holds
      <3> QED BY <3>1 DEF Kept, OthersStale
    <2> QED BY <1>1, <1>3, <2>1, BystanderKeeps
  <1> QED BY <1>1, <1>2, <1>5, <1>6 DEF PInv, TypeOK

LEMMA RunStep ==
    ASSUME PInv, NEW p \in Procs, NEW pc \in Points, NEW rev, NEW fresh, NEW msg, NEW s,
           Lands(p, pc, rev, fresh, msg, s), OthersStale(p),
           loc[p].pc \in Waiting => Holds(p),
           pc \in Holding \ {"submit", "submitted"} => Holds(p),
           NEW x \in RunStates \ {"INTERVIEWING", "READY_TO_EXECUTE"}, transition_run(x),
           run.state # "INTERVIEWING",
           run.state \in Reviewing => x \in Reviewing \/ Holds(p),
           UNCHANGED <<interview, plan, cert, history, gated, world, approved>>,
           Bookkept, Keeps(session'), OneReviewer', Knows(p)'
    PROVE  PInv'
  <1>1. run' \in [state : RunStates, paused : BOOLEAN] /\ run'.state = x
    BY RunTyped DEF PInv, TypeOK
  <1> QED BY <1>1, RowStep

LEMMA ReturnStep ==
    ASSUME PInv, NEW p \in Procs, Return(p), loc[p].pc \in Waiting => Holds(p),
           UNCHANGED <<run, interview, plan, cert, history, gated, world, approved>>,
           Bookkept, Keeps(session'), OneReviewer'
    PROVE  PInv'
  <1>1. Lands(p, "idle", 0, FALSE, NoMessage, 0) /\ Others(p)
    BY ReturnEffect DEF PInv, TypeOK
  <1>2. Knows(p)'
    <2>1. loc'[p].pc \in Plain
      BY <1>1 DEF Lands, Plain
    <2> QED BY <2>1 DEF Knows, OwnLocals, ReadCertified, ReadStands, VerdictHeld,
         Ungated, Plain, Approving
  <1>3. "idle" \in Points /\ "idle" \notin Holding
    BY DEF Points, Unlocked, Holding
  <1> QED BY <1>1, <1>2, <1>3, ProgramStep

LEMMA DoneStep ==
    ASSUME PInv, NEW p \in Procs, MovedAndDone(p), loc[p].pc \in Waiting => Holds(p),
           NEW x \in RunStates \ {"INTERVIEWING", "READY_TO_EXECUTE"}, transition_run(x),
           run.state # "INTERVIEWING",
           run.state \in Reviewing => x \in Reviewing \/ Holds(p),
           UNCHANGED <<interview, plan, cert, history, gated, world, approved>>,
           Bookkept, Keeps(session'), OneReviewer'
    PROVE  PInv'
  <1>1. Lands(p, "idle", 0, FALSE, NoMessage, 0) /\ OthersStale(p)
    BY MovedAndDoneEffect DEF PInv, TypeOK
  <1>2. Knows(p)'
    <2>1. loc'[p].pc \in Plain
      BY <1>1 DEF Lands, Plain
    <2> QED BY <2>1 DEF Knows, OwnLocals, ReadCertified, ReadStands, VerdictHeld,
         Ungated, Plain, Approving
  <1>3. "idle" \in Points /\ "idle" \notin Holding
    BY DEF Points, Unlocked, Holding
  <1> QED BY <1>1, <1>2, <1>3, RunStep

(* p moves the run and goes on at a point with nothing to remember.        *)
LEMMA OnwardStep ==
    ASSUME PInv, NEW p \in Procs, NEW pc \in Plain, Moved(p, pc),
           loc[p].pc \in Waiting => Holds(p),
           NEW x \in RunStates \ {"INTERVIEWING", "READY_TO_EXECUTE"}, transition_run(x),
           run.state # "INTERVIEWING",
           run.state \in Reviewing => x \in Reviewing \/ Holds(p),
           UNCHANGED <<interview, plan, cert, history, gated, world, approved>>,
           Bookkept, Keeps(session'), OneReviewer'
    PROVE  PInv'
  <1>1. pc \in Points /\ pc \notin Holding \ {"submit", "submitted"}
    BY DEF Plain, Points, Unlocked, Waiting, Holding
  <1>2. Lands(p, pc, loc[p].rev, FALSE, loc[p].msg, loc[p].s) /\ OthersStale(p)
    BY <1>1, MovedEffect DEF PInv, TypeOK
  <1>3. Knows(p)'
    <2>1. loc'[p].pc \in Plain
      BY <1>2 DEF Lands
    <2> QED BY <2>1 DEF Knows, OwnLocals, ReadCertified, ReadStands, VerdictHeld,
         Ungated, Plain, Approving
  <1> QED BY <1>1, <1>2, <1>3, RunStep

(* p, idle or at the head of the queue, goes to such a point.              *)
LEMMA BeginStep ==
    ASSUME PInv, NEW p \in Procs, NEW pc \in Plain, NEW rev \in Nat, NEW msg \in Messages,
           NEW s \in Nat, Begin(p, pc, rev, msg, s), loc[p].pc \in Waiting => Holds(p),
           UNCHANGED <<run, interview, plan, cert, history, gated, world, approved>>,
           Bookkept, Keeps(session'), OneReviewer'
    PROVE  PInv'
  <1>1. pc \in Points /\ pc \notin Holding \ {"submit", "submitted"}
    BY DEF Plain, Points, Unlocked, Waiting, Holding
  <1>2. Lands(p, pc, rev, TRUE, msg, s) /\ Others(p)
    BY <1>1, BeginEffect DEF PInv, TypeOK
  <1>3. Knows(p)'
    <2>1. loc'[p].pc \in Plain
      BY <1>2 DEF Lands
    <2> QED BY <2>1 DEF Knows, OwnLocals, ReadCertified, ReadStands, VerdictHeld,
         Ungated, Plain, Approving
  <1> QED BY <1>1, <1>2, <1>3, ProgramStep

-----------------------------------------------------------------------------
(* The interview, and what may happen to it later.                         *)
Interviews == [status : {"Absent", "NotStarted", "Running", "WaitingForHuman",
          "ReadyForConfirmation", "Failed", "Confirmed", "Skipped"}, turn : BOOLEAN,
          ending : BOOLEAN, draft : Nat, confirmed : Nat, shown : Nat]
\* Its outcome stands: nothing but an open interview changes its status.
OutcomeStands ==
    /\ interview' \in Interviews /\ interview'.confirmed = interview.confirmed
    /\ \/ interview'.status = interview.status /\ interview'.shown = interview.shown
       \/ interview.status \notin Over /\ interview'.status \notin Over

LEMMA OutcomeKept ==
    ASSUME PInv, OutcomeStands, UNCHANGED <<run, plan, cert, history, gated, world, approved>>,
           Keeps(session')
    PROVE  Shared /\ BriefSettled' /\ PlanSettled' /\ Executed'
  <1>1. plan.rev \in Nat /\ world \in Nat
    BY DEF PInv, TypeOK, Typed
  <1>2. plan.rev <= plan'.rev /\ world <= world'
    BY <1>1
  <1>3. run.state # "INTERVIEWING" => confirmed_intent_brief' = confirmed_intent_brief
    BY DEF PInv, BriefSettled, OutcomeStands, confirmed_intent_brief
  <1>6. run.state # "INTERVIEWING" /\ Certified => Certified'
    BY <1>3 DEF Certified
  <1>4. Shared
    BY <1>2, <1>3, <1>6 DEF Shared
  <1>5. BriefSettled'
    BY DEF PInv, BriefSettled, OutcomeStands, Over
  <1>7. PlanSettled'
    BY <1>6 DEF PInv, PlanSettled, Settled
  <1>8. Executed'
    BY DEF PInv, Executed
  <1> QED BY <1>4, <1>5, <1>7, <1>8

LEMMA InterviewStep ==
    ASSUME PInv, OutcomeStands, Bookkept, Keeps(session'), OneReviewer',
           UNCHANGED <<run, plan, cert, history, gated, world, approved, loc, queue>>
    PROVE  PInv'
  <1>1. Typed'
    BY DEF PInv, TypeOK, Typed, Bookkept, Keeps, OutcomeStands, Interviews
  <1>2. LockQueue'
    BY DEF PInv, TypeOK, LockQueue, Queued, Holds
  <1>3. Shared /\ BriefSettled' /\ PlanSettled' /\ Executed'
    BY OutcomeKept
  <1>4. \A q \in Procs : Knows(q)'
    <2>1. \A q \in Procs : Kept(q)
      BY DEF Kept
    <2> QED BY <1>1, <1>3, <2>1, BystanderKeeps
  <1> QED BY <1>1, <1>2, <1>3, <1>4 DEF PInv, TypeOK

LEMMA InterviewEnds ==
    ASSUME PInv, At("user", "idle"), Free, Interviewing, IvUnchanged, UNCHANGED used,
           interview' \in Interviews, interview'.status \in {"Confirmed", "Skipped"},
           interview'.status = "Confirmed" => interview'.confirmed = interview'.shown,
           interview'.status = "Skipped" => interview'.confirmed = 0,
           transition_run("READY_FOR_ARCHITECTURE"), Moved("user", "architecture")
    PROVE  PInv'
  <1>0. Typed /\ LockQueue /\ "user" \in Procs /\ "architecture" \in Points
    BY DEF PInv, TypeOK, Procs, Points, Waiting
  <1>1. /\ Lands("user", "architecture", loc["user"].rev, FALSE, loc["user"].msg, loc["user"].s)
        /\ OthersStale("user")
    BY <1>0, MovedEffect
  <1>2. run' \in [state : RunStates, paused : BOOLEAN] /\ run'.state = "READY_FOR_ARCHITECTURE"
    BY <1>0, RunTyped DEF RunStates
  <1>3. Typed'
    <2>1. loc' \in [Procs -> Locals] /\ queue' \in Seq(Procs)
      BY <1>1 DEF Lands
    <2> QED BY <1>0, <1>2, <2>1 DEF Typed, IvUnchanged, Interviews
  <1>4. LockQueue'
    <2>1. \A q \in Procs \ {"user"} : loc'[q].pc = loc[q].pc
      BY <1>1 DEF OthersStale
    <2>2. loc["user"].pc \notin Waiting /\ "architecture" \notin Holding
      BY DEF At, Waiting, Holding
    <2> QED BY <1>0, <1>1, <2>1, <2>2, LockStep
  <1>5. plan.state = "NONE" /\ Executed' /\ BriefSettled'
    BY <1>2 DEF PInv, PlanSettled, Interviewing, Executed, BriefSettled, Over
  <1>6. PlanSettled'
    BY <1>2, <1>5 DEF PInv, PlanSettled, Settled, IvUnchanged
  <1>7. Shared
    <2>1. plan.rev \in Nat /\ world \in Nat /\ session \in Seq(Sessions)
      BY <1>0 DEF Typed
    <2>2. plan.rev <= plan'.rev /\ world <= world'
      BY <2>1 DEF IvUnchanged
    <2>3. Keeps(session')
      BY <2>1 DEF Keeps, IvUnchanged
    <2> QED BY <2>2, <2>3 DEF Shared, IvUnchanged, Interviewing
  <1>8. \A q \in Procs \ {"user"} : Knows(q)'
    <2>1. \A q \in Procs \ {"user"} : Kept(q)
      BY <1>1 DEF Kept, OthersStale, Holds, Free
    <2> QED BY <1>3, <1>7, <2>1, BystanderKeeps
  <1>9. Knows("user")'
    <2>1. loc'["user"].pc \in Plain
      BY <1>1 DEF Lands, Plain
    <2> QED BY <2>1 DEF Knows, OwnLocals, ReadCertified, ReadStands, VerdictHeld,
         Ungated, Plain, Approving
  <1>10. OneReviewer'
    BY DEF PInv, OneReviewer, IvUnchanged
  <1> QED BY <1>3, <1>4, <1>5, <1>6, <1>8, <1>9, <1>10 DEF PInv, TypeOK

LEMMA SessionsSame ==
    ASSUME PInv, UNCHANGED session
    PROVE  Keeps(session') /\ Quiet(session') /\ OneReviewer'
  <1>1. session \in Seq(Sessions)
    BY DEF PInv, TypeOK, Typed
  <1> QED BY <1>1 DEF Keeps, Quiet, PInv, OneReviewer

LEMMA InterviewKeeps ==
    ASSUME PInv, Interview PROVE PInv'
  <1>0. Typed /\ BriefSettled /\ interview \in Interviews
    BY DEF PInv, TypeOK, Typed, Interviews
  <1>a. ASSUME IvUnchanged, UNCHANGED <<run, queue, loc>>, OutcomeStands,
               Fail \/ UNCHANGED used
        PROVE  PInv'
    <2>1. Bookkept
      BY <1>0, <1>a, Counted DEF Bookkept, IvUnchanged, Typed
    <2>2. Keeps(session') /\ OneReviewer'
      BY <1>a, SessionsSame DEF IvUnchanged
    <2> QED BY <1>a, <2>1, <2>2, InterviewStep DEF IvUnchanged
  <1>1. CASE start_intent_interview
    <2>1. OutcomeStands /\ (Fail \/ UNCHANGED used)
      BY <1>0, <1>1 DEF start_intent_interview, OutcomeStands, Interviews, Over
    <2> QED BY <1>1, <1>a, <2>1 DEF start_intent_interview
  <1>2. CASE respond_to_intent_interview
    <2>1. OutcomeStands
      BY <1>0, <1>2 DEF respond_to_intent_interview, OutcomeStands, Interviews, Over
    <2> QED BY <1>2, <1>a, <2>1 DEF respond_to_intent_interview
  <1>3. CASE LookAtBrief
    <2>1. OutcomeStands
      BY <1>0, <1>3 DEF LookAtBrief, OutcomeStands, Interviews, Over
    <2> QED BY <1>3, <1>a, <2>1 DEF LookAtBrief
  <1>4. CASE At("user", "idle") /\ confirm_intent_interview
    <2>1. /\ interview' \in Interviews /\ interview'.status = "Confirmed"
          /\ interview'.confirmed = interview'.shown
      BY <1>0, <1>4 DEF confirm_intent_interview, BriefMatches, Interviews
    <2> QED BY <1>4, <2>1, InterviewEnds DEF confirm_intent_interview
  <1>5. CASE At("user", "idle") /\ skip_intent_interview
    <2>1. interview.confirmed = 0
      BY <1>0, <1>5 DEF skip_intent_interview, BriefSettled, Interviewing, Over
    <2>2. /\ interview' \in Interviews /\ interview'.status = "Skipped"
          /\ interview'.confirmed = 0
      BY <1>0, <1>5, <2>1 DEF skip_intent_interview, Interviews
    <2> QED BY <1>5, <2>2, InterviewEnds DEF skip_intent_interview
  <1>6. CASE apply_intent_interview_turn
    <2>1. OutcomeStands
      <3>1. CASE Interviewing /\ interview.status = "Running"
        <4>1. PICK status \in InterviewTurns :
                interview' = [interview EXCEPT !.status = status, !.turn = FALSE,
                                               !.ending = TRUE, !.draft = @ + 1]
          BY <1>6, <3>1 DEF apply_intent_interview_turn
        <4>2. status \in {"WaitingForHuman", "ReadyForConfirmation", "Failed"}
          BY DEF InterviewTurns
        <4>3. interview.draft + 1 \in Nat
          BY <1>0 DEF Interviews
        <4> DEFINE d == interview.draft + 1
        <4>4. interview' = [interview EXCEPT !.status = status, !.turn = FALSE,
                                             !.ending = TRUE, !.draft = d]
          BY <4>1
        <4> HIDE DEF d
        <4>5. /\ interview' \in Interviews /\ interview'.status = status
              /\ interview'.confirmed = interview.confirmed
          BY <1>0, <4>2, <4>3, <4>4 DEF Interviews, d
        <4> QED BY <3>1, <4>2, <4>5 DEF OutcomeStands, Over
      <3>2. CASE ~(Interviewing /\ interview.status = "Running")
        <4>1. interview' = [interview EXCEPT !.turn = FALSE, !.ending = TRUE]
          BY <1>6, <3>2 DEF apply_intent_interview_turn
        <4> QED BY <1>0, <4>1 DEF OutcomeStands, Interviews
      <3> QED BY <3>1, <3>2
    <2> QED BY <1>6, <1>a, <2>1 DEF apply_intent_interview_turn
  <1>7. CASE InterviewerTurnCompleted
    <2>1. OutcomeStands
      <3>1. CASE interview' = [interview EXCEPT !.ending = FALSE,
                             !.turn = @ /\ interview.status = "NotStarted",
                             !.status = IF @ = "Running" THEN "Failed" ELSE @]
        BY <1>0, <3>1 DEF OutcomeStands, Interviews, Over
      <3>2. CASE interview' = [interview EXCEPT !.turn = FALSE,
                             !.status = IF @ = "Running" THEN "Failed" ELSE @]
        BY <1>0, <3>2 DEF OutcomeStands, Interviews, Over
      <3> QED BY <1>7, <3>1, <3>2 DEF InterviewerTurnCompleted
    <2> QED BY <1>7, <1>a, <2>1 DEF InterviewerTurnCompleted
  <1> QED BY <1>1, <1>2, <1>3, <1>4, <1>5, <1>6, <1>7 DEF Interview

-----------------------------------------------------------------------------
(* The rest of the system.                                                 *)
LEMMA OutcomeOrphaned ==
    ASSUME PInv, Orphaned PROVE OutcomeStands
  <1>1. interview \in Interviews
    BY DEF PInv, TypeOK, Typed, Interviews
  <1> QED BY <1>1 DEF Orphaned, OutcomeStands, Interviews, Over

LEMMA EnvironmentKeeps ==
    ASSUME PInv, BindingsChange \/ reconcile_orphaned_sessions \/ Crash \/ set_scheduler_paused
    PROVE  PInv'
  <1>0. Typed /\ LockQueue /\ OneReviewer
    BY DEF PInv, TypeOK
  <1>1. CASE BindingsChange
    <2>1. world \in Nat /\ plan.rev \in Nat /\ world' = world + 1 /\ cert.world \in Nat
      BY <1>0, <1>1 DEF BindingsChange, Typed
    <2>2. world' \in Nat /\ world <= world' /\ plan.rev <= plan'.rev /\ world' # 0
      BY <1>1, <2>1 DEF BindingsChange
    <2>3. Typed'
      BY <1>0, <1>1, <2>2 DEF Typed, BindingsChange
    <2>4. LockQueue'
      BY <1>0, <1>1 DEF LockQueue, Queued, Holds, BindingsChange
    <2>5. Keeps(session') /\ OneReviewer'
      BY <1>1, SessionsSame DEF BindingsChange
    <2>6. Shared
      <3>1. Certified' = Certified
        BY <1>1 DEF Certified, confirmed_intent_brief, BindingsChange
      <3> QED BY <1>1, <2>2, <2>5, <3>1 DEF Shared, BindingsChange, confirmed_intent_brief
    <2>7. \A q \in Procs : Knows(q)'
      <3>1. \A q \in Procs : Kept(q)
        BY <1>1 DEF Kept, BindingsChange
      <3> QED BY <2>3, <2>6, <3>1, BystanderKeeps
    <2>8. BriefSettled' /\ Executed'
      BY <1>1, <2>2 DEF PInv, BriefSettled, Executed, BindingsChange
    <2>9. PlanSettled'
      <3>1. Certified' = Certified
        BY <1>1 DEF Certified, confirmed_intent_brief, BindingsChange
      <3>2. cert.world <= world => cert.world <= world'
        BY <2>1, <2>2
      <3> QED BY <1>1, <3>1, <3>2 DEF PInv, PlanSettled, BindingsChange
    <2> QED BY <2>3, <2>4, <2>5, <2>7, <2>8, <2>9 DEF PInv, TypeOK
  <1>2. CASE reconcile_orphaned_sessions
    <2>1. Orphaned /\ Fail /\ Keeps(session') /\ Quiet(session')
      BY <1>0, <1>2, OrphanedKeeps DEF reconcile_orphaned_sessions
    <2>2. OneReviewer' /\ OutcomeStands
      BY <1>0, <2>1, ReviewersKept, OutcomeOrphaned
    <2>3. Bookkept
      BY <1>0, <1>2, <2>1, Counted DEF Bookkept, Typed, reconcile_orphaned_sessions
    <2> QED BY <1>2, <2>1, <2>2, <2>3, InterviewStep DEF reconcile_orphaned_sessions
  <1>3. CASE Crash
    <2>1. Orphaned /\ Fail /\ Keeps(session') /\ Quiet(session')
      BY <1>0, <1>3, OrphanedKeeps DEF Crash
    <2>2. OneReviewer' /\ OutcomeStands
      BY <1>0, <2>1, ReviewersKept, OutcomeOrphaned
    <2>3. Shared /\ BriefSettled' /\ PlanSettled' /\ Executed'
      BY <1>3, <2>1, <2>2, OutcomeKept DEF Crash
    <2>4. /\ queue' = <<>> /\ loc' = [p \in Procs |-> Idle] /\ queue' \in Seq(Procs)
          /\ loc' \in [Procs -> Locals]
      BY <1>3, IdleTyped DEF Crash
    <2>5. used' \in [commands : Nat, failures : Nat, invalid : Nat]
      BY <1>0, <2>1, Counted
    <2>6. Typed'
      BY <1>0, <1>3, <2>1, <2>2, <2>4, <2>5
      DEF Typed, Crash, Keeps, OutcomeStands, Interviews
    <2>7. \A q \in Procs : loc'[q].pc = "idle"
      BY <2>4 DEF Idle
    <2>8. LockQueue'
      BY <2>4, <2>7 DEF LockQueue, Queued, Waiting, Holding
    <2>9. \A q \in Procs : Knows(q)'
      BY <2>7 DEF Knows, OwnLocals, ReadCertified, ReadStands, VerdictHeld, Ungated, Approving
    <2> QED BY <2>2, <2>3, <2>6, <2>8, <2>9 DEF PInv, TypeOK
  <1>4. CASE set_scheduler_paused
    <2>1. /\ run' \in [state : RunStates, paused : BOOLEAN] /\ run'.state = run.state
      BY <1>0, <1>4 DEF Typed, set_scheduler_paused
    <2>2. loc \in [Procs -> Locals] /\ loc' = [q \in Procs |-> [loc[q] EXCEPT !.fresh = FALSE]]
      BY <1>0, <1>4 DEF Typed, set_scheduler_paused
    <2>3. \A q \in Procs : /\ [loc[q] EXCEPT !.fresh = FALSE] \in Locals
                           /\ loc'[q].pc = loc[q].pc /\ loc'[q].rev = loc[q].rev
                           /\ loc'[q].msg = loc[q].msg /\ loc'[q].s = loc[q].s
                           /\ loc'[q].fresh = FALSE
      BY <2>2 DEF Locals
    <2>4. used' \in [commands : Nat, failures : Nat, invalid : Nat]
      BY <1>0, <1>4, Counted DEF set_scheduler_paused
    <2>5. loc' \in [Procs -> Locals]
      BY <2>2, <2>3
    <2>6. Typed'
      BY <1>0, <1>4, <2>1, <2>4, <2>5 DEF Typed, set_scheduler_paused
    <2>7. LockQueue'
      BY <1>0, <1>4, <2>3 DEF LockQueue, Queued, Holds, set_scheduler_paused
    <2>8. Keeps(session') /\ OneReviewer'
      BY <1>4, SessionsSame DEF set_scheduler_paused
    <2>9. Shared
      BY <1>0, <1>4, <2>8, SharedSame DEF set_scheduler_paused
    <2>10. BriefSettled' /\ PlanSettled' /\ Executed'
      BY <1>4, <2>1, GlobalsSame DEF PInv, set_scheduler_paused
    <2>11. \A q \in Procs : Knows(q)'
      <3>1. \A q \in Procs : Kept(q)
        BY <1>4, <2>1, <2>3 DEF Kept, set_scheduler_paused
      <3> QED BY <2>6, <2>9, <3>1, BystanderKeeps
    <2> QED BY <2>6, <2>7, <2>8, <2>10, <2>11 DEF PInv, TypeOK
  <1> QED BY <1>1, <1>2, <1>3, <1>4

LEMMA AskingKeeps ==
    ASSUME PInv, maintenance_tick \/ Ask \/ AskRefused PROVE PInv'
  <1>0. Typed /\ plan.rev \in Nat /\ 0 \in Nat /\ NoMessage \in Messages
    BY Vocabulary DEF PInv, TypeOK, Typed
  <1>1. CASE maintenance_tick
    <2>1. PICK pc \in {"launch", "revise"}, rev \in {0, plan.rev} :
            Begin("maint", pc, rev, NoMessage, 0)
      BY <1>1 DEF maintenance_tick
    <2>2. Bookkept
      BY <1>0, <1>1, Counted DEF Bookkept, Typed, maintenance_tick
    <2>3. Keeps(session') /\ OneReviewer'
      BY <1>1, SessionsSame DEF maintenance_tick
    <2>4. "maint" \in Procs /\ pc \in Plain /\ loc["maint"].pc \notin Waiting /\ rev \in Nat
      BY <1>0, <1>1 DEF Procs, Plain, Waiting, At, maintenance_tick
    <2> QED BY <1>0, <1>1, <2>1, <2>2, <2>3, <2>4, BeginStep DEF maintenance_tick
  <1>2. CASE Ask
    <2>1. PICK pc \in {"architecture", "ask_changes", "ask_resume"} :
            Begin("user", pc, 0, NoMessage, 0)
      BY <1>2 DEF Ask
    <2>2. Bookkept
      BY <1>0, <1>2, Counted DEF Bookkept, Typed, Ask
    <2>3. Keeps(session') /\ OneReviewer'
      BY <1>2, SessionsSame DEF Ask
    <2>4. "user" \in Procs /\ pc \in Plain /\ loc["user"].pc \notin Waiting
      BY <1>2 DEF Procs, Plain, Waiting, At, Ask
    <2> QED BY <1>0, <1>2, <2>1, <2>2, <2>3, <2>4, BeginStep DEF Ask
  <1>3. CASE AskRefused
    <2>2. Bookkept
      BY <1>0, <1>3, Counted DEF Bookkept, Typed, AskRefused
    <2>3. Keeps(session') /\ OneReviewer'
      BY <1>3, SessionsSame DEF AskRefused
    <2>4. "user" \in Procs
      BY DEF Procs
    <2> QED BY <1>3, <2>2, <2>3, <2>4, ReturnStep DEF AskRefused
  <1> QED BY <1>1, <1>2, <1>3

-----------------------------------------------------------------------------
(* Notifications.                                                          *)
LEMMA NotificationKeeps ==
    ASSUME PInv, Notification PROVE PInv'
  <1>0. /\ Typed /\ OneReviewer /\ session \in Seq(Sessions) /\ "pump" \in Procs
        /\ repair \in [attempts : Nat, pending : Nat] /\ reviewed \in BOOLEAN /\ 0 \in Nat
        /\ NoMessage \in Messages
    BY Vocabulary DEF PInv, TypeOK, Typed, Procs
  <1>a. /\ At("pump", "idle") => loc["pump"].pc \notin Waiting
        /\ architecture_retry_state \in RunStates \ {"INTERVIEWING", "READY_TO_EXECUTE"}
        /\ {"submit", "architecture", "idle"} \subseteq Plain
        /\ "plan_review_budget_exhausted" \in RunStates \ {"INTERVIEWING", "READY_TO_EXECUTE"}
        /\ "plan_review_budget_exhausted" \in Reviewing /\ "ARCHITECTING" \notin Reviewing
    BY DEF At, Waiting, architecture_retry_state, RunStates, Plain, Reviewing
  <1>b. \A r, s : s \in Turn(r) => s \in DOMAIN session /\ s \in Nat /\ session[s] \in Sessions
    BY <1>0 DEF Turn, Role
  <1>1. CASE ArchitectAnswers
    <2>1. PICK s \in Turn("architect"), m \in PlanAnswers :
             /\ At("pump", "idle") /\ session[s].msg = NoMessage /\ Answer(m)
             /\ LET stored == [session EXCEPT ![s].msg = m] IN
                IF run.state # "ARCHITECTING"
                THEN session' = stored /\ UNCHANGED <<run, repair, loc, queue>>
                ELSE IF m = Valid
                THEN session' = stored /\ Begin("pump", "submit", 0, m, s)
                                       /\ UNCHANGED <<run, repair>>
                ELSE /\ session' = [stored EXCEPT ![s].state = "FAILED"]
                     /\ transition_run(architecture_retry_state) /\ MovedAndDone("pump")
                     /\ repair' = [repair EXCEPT !.pending = s]
      BY <1>1 DEF ArchitectAnswers
    <2>2. UNCHANGED <<interview, plan, cert, history, gated, world, reviewed, approved>>
      BY <1>1 DEF ArchitectAnswers
    <2>3. m \in Answers /\ m \in Messages /\ s \in Nat /\ s \in DOMAIN session
      BY <1>b, Vocabulary
    <2>4. used' \in [commands : Nat, failures : Nat, invalid : Nat]
      BY <1>0, <2>1, Counted
    <2>5. CASE session' = [session EXCEPT ![s].msg = m] /\ UNCHANGED repair
      <3>1. Keeps(session') /\ Quiet(session')
        BY <1>0, <2>3, <2>5, SessionChanges
      <3>2. OneReviewer' /\ Bookkept
        BY <1>0, <2>2, <2>4, <2>5, <3>1, ReviewersKept DEF Bookkept
      <3>3. CASE UNCHANGED <<run, repair, loc, queue>>
        BY <2>2, <3>1, <3>2, <3>3, SessionStep
      <3>4. CASE Begin("pump", "submit", 0, m, s) /\ UNCHANGED <<run, repair>>
        BY <1>0, <1>a, <2>1, <2>2, <2>3, <3>1, <3>2, <3>4, BeginStep
      <3>5. CASE ~UNCHANGED <<run, repair, loc, queue>>
                 /\ ~(Begin("pump", "submit", 0, m, s) /\ UNCHANGED <<run, repair>>)
        <4>1. /\ run.state = "ARCHITECTING" /\ transition_run(architecture_retry_state)
              /\ MovedAndDone("pump")
          BY <2>1, <3>5
        <4> QED BY <1>0, <1>a, <2>1, <2>2, <3>1, <3>2, <4>1, DoneStep
      <3> QED BY <3>3, <3>4, <3>5
    <2>6. CASE ~(session' = [session EXCEPT ![s].msg = m] /\ UNCHANGED repair)
      <3>1. /\ run.state = "ARCHITECTING" /\ transition_run(architecture_retry_state)
            /\ MovedAndDone("pump") /\ repair' = [repair EXCEPT !.pending = s]
            /\ session' = [[session EXCEPT ![s].msg = m] EXCEPT ![s].state = "FAILED"]
        BY <2>1, <2>6
      <3>2. session' = [session EXCEPT ![s].msg = m, ![s].state = "FAILED"]
        BY <3>1
      <3>3. Keeps(session') /\ Quiet(session')
        BY <1>0, <2>3, <3>2, SessionChanges
      <3>4. repair' \in [attempts : Nat, pending : Nat]
        BY <1>0, <2>3, <3>1
      <3>5. OneReviewer' /\ Bookkept
        BY <1>0, <2>2, <2>4, <3>3, <3>4, ReviewersKept DEF Bookkept
      <3> QED BY <1>0, <1>a, <2>1, <2>2, <3>1, <3>3, <3>5, DoneStep
    <2> QED BY <2>5, <2>6
  <1>2. CASE ArchitectTurnCompleted
    <2>1. PICK s \in Turn("architect") :
             /\ At("pump", "idle")
             /\ IF session[s].msg = NoMessage THEN Fail ELSE UNCHANGED used
             /\ LET ended == [session EXCEPT ![s].turn = FALSE] IN
                IF run.state = "ARCHITECTING"
                THEN /\ session' = [ended EXCEPT ![s].state = "FAILED"]
                     /\ transition_run(architecture_retry_state) /\ MovedAndDone("pump")
                ELSE /\ session' = ended /\ UNCHANGED run
                     /\ IF run.state = "READY_FOR_ARCHITECTURE" /\ repair.pending = s
                        THEN Begin("pump", "architecture", 0, NoMessage, 0)
                        ELSE UNCHANGED <<loc, queue>>
      BY <1>2 DEF ArchitectTurnCompleted
    <2>2. UNCHANGED <<interview, plan, cert, repair, history, gated, world, reviewed, approved>>
      BY <1>2 DEF ArchitectTurnCompleted
    <2>3. Bookkept
      BY <1>0, <2>1, <2>2, Counted DEF Bookkept
    <2>4. CASE run.state = "ARCHITECTING"
      <3>1. session' = [session EXCEPT ![s].turn = FALSE, ![s].state = "FAILED"]
        BY <2>1, <2>4
      <3>2. Keeps(session') /\ Quiet(session')
        BY <1>0, <3>1, SessionChanges
      <3>3. OneReviewer'
        BY <1>0, <3>2, ReviewersKept
      <3> QED BY <1>0, <1>a, <2>1, <2>2, <2>3, <2>4, <3>2, <3>3, DoneStep
    <2>5. CASE run.state # "ARCHITECTING"
      <3>1. session' = [session EXCEPT ![s].turn = FALSE] /\ UNCHANGED run
        BY <2>1, <2>5
      <3>2. Keeps(session') /\ Quiet(session')
        BY <1>0, <3>1, SessionChanges
      <3>3. OneReviewer'
        BY <1>0, <3>2, ReviewersKept
      <3>4. CASE Begin("pump", "architecture", 0, NoMessage, 0)
        BY <1>0, <1>a, <2>1, <2>2, <2>3, <3>1, <3>2, <3>3, <3>4, BeginStep
      <3>5. CASE UNCHANGED <<loc, queue>>
        BY <2>2, <2>3, <3>1, <3>2, <3>3, <3>5, SessionStep
      <3> QED BY <2>1, <2>5, <3>4, <3>5
    <2> QED BY <2>4, <2>5
  <1>3. CASE ReviewerAnswers
    <2>1. PICK s \in Turn("reviewer"), m \in Verdicts \cup {Invalid} :
             /\ At("pump", "idle") /\ session[s].msg = NoMessage /\ Answer(m)
             /\ session' = [session EXCEPT ![s].msg = m]
             /\ IF run.state = "PLAN_ADVERSARIAL_REVIEW" /\ m # Invalid
                THEN Begin("pump", "apply", session[s].rev, m, s) ELSE UNCHANGED <<loc, queue>>
      BY <1>3 DEF ReviewerAnswers
    <2>2. UNCHANGED <<run, interview, plan, cert, repair, history, gated, world, reviewed,
                      approved>>
      BY <1>3 DEF ReviewerAnswers
    <2>3. /\ m \in Answers /\ m \in Messages /\ s \in Nat /\ s \in DOMAIN session
          /\ session[s].rev \in Nat
      BY <1>b, Vocabulary DEF Sessions
    <2>4. Keeps(session') /\ Quiet(session')
      BY <1>0, <2>1, <2>3, SessionChanges
    <2>5. OneReviewer' /\ Bookkept
      BY <1>0, <2>1, <2>2, <2>4, Counted, ReviewersKept DEF Bookkept
    <2>6. CASE UNCHANGED <<loc, queue>>
      BY <2>2, <2>4, <2>5, <2>6, SessionStep
    <2>7. CASE m # Invalid /\ Begin("pump", "apply", session[s].rev, m, s)
      <3>1. "apply" \in Points /\ "apply" \notin Holding
        BY DEF Points, Waiting, Holding
      <3>2. Lands("pump", "apply", session[s].rev, TRUE, m, s) /\ Others("pump")
        BY <1>0, <2>3, <2>7, <3>1, BeginEffect
      <3>3. Knows("pump")'
        <4>1. loc'["pump"].pc = "apply" /\ loc'["pump"].s \in DOMAIN session'
              /\ loc'["pump"].msg \in Verdicts
          BY <2>3, <2>4, <2>7, <3>2 DEF Lands, Keeps
        <4> QED BY <4>1
            DEF Knows, OwnLocals, ReadCertified, ReadStands, VerdictHeld, Ungated, Approving
      <3> QED BY <1>0, <1>a, <2>1, <2>2, <2>4, <2>5, <3>1, <3>2, <3>3, ProgramStep
    <2> QED BY <2>1, <2>6, <2>7
  <1>4. CASE ReviewerTurnCompleted
    <2>1. PICK s \in Turn("reviewer"), budget \in BOOLEAN :
             /\ At("pump", "idle")
             /\ IF session[s].msg = NoMessage THEN Fail ELSE ~budget /\ UNCHANGED used
             /\ session' = ReviewerEnded(s)
             /\ IF run.state = "PLAN_ADVERSARIAL_REVIEW" /\ budget
                THEN transition_run("plan_review_budget_exhausted") /\ MovedAndDone("pump")
                ELSE UNCHANGED <<run, loc, queue>>
      BY <1>4 DEF ReviewerTurnCompleted
    <2>2. UNCHANGED <<interview, plan, cert, repair, history, gated, world, reviewed, approved>>
      BY <1>4 DEF ReviewerTurnCompleted
    <2>3. Keeps(session') /\ Quiet(session')
      BY <1>0, <2>1, SessionChanges
    <2>4. OneReviewer'
      BY <1>0, <2>3, ReviewersKept
    <2>5. Bookkept
      BY <1>0, <2>1, <2>2, Counted DEF Bookkept
    <2>6. CASE run.state = "PLAN_ADVERSARIAL_REVIEW" /\ budget
      BY <1>0, <1>a, <2>1, <2>2, <2>3, <2>4, <2>5, <2>6, DoneStep
    <2>7. CASE UNCHANGED <<run, loc, queue>>
      BY <2>2, <2>3, <2>4, <2>5, <2>7, SessionStep
    <2> QED BY <2>1, <2>6, <2>7
  <1> QED BY <1>1, <1>2, <1>3, <1>4 DEF Notification

-----------------------------------------------------------------------------
(* Architecture.                                                           *)
LEMMA ArchitectureBegins ==
    ASSUME PInv, NEW p \in Procs, start_architecture(p) \/ start_plan_revision(p)
    PROVE  PInv'
  <1>0. /\ Typed /\ OneReviewer /\ session \in Seq(Sessions) /\ Len(session) \in Nat /\ 0 \in Nat
        /\ repair \in [attempts : Nat, pending : Nat] /\ NoMessage \in Messages
        /\ repair.attempts \in Nat
    BY Vocabulary DEF PInv, TypeOK, Typed
  <1>a. {"architect", "reviser", "recover_architecture"} \subseteq Points
    BY DEF Points, Holding
  <1>1. ASSUME NEW pc \in {"architect", "reviser"}, Holds(p),
               session' = Append(session, NewSession("architect", "STARTING", FALSE)),
               Begin(p, pc, 0, NoMessage, Len(session) + 1), Bookkept,
               UNCHANGED <<run, interview, plan, cert, history, gated, world, approved>>,
               pc = "architect" => run.state = "READY_FOR_ARCHITECTURE",
               pc = "reviser" => run.state = "PLAN_REVISION_REQUIRED"
        PROVE  PInv'
    <2>1. /\ Keeps(session') /\ Quiet(session') /\ Len(session) + 1 \in DOMAIN session'
          /\ session'[Len(session) + 1].role = "architect"
      <3> DEFINE f == Append(session, NewSession("architect", "STARTING", FALSE))
      <3>1. /\ Keeps(f) /\ Quiet(f) /\ DOMAIN f = 1..(Len(session) + 1)
            /\ f[Len(session) + 1].role = "architect"
        BY <1>0, SessionAdded
      <3> HIDE DEF f
      <3>2. session' = f
        BY <1>1 DEF f
      <3> QED BY <1>0, <3>1, <3>2
    <2>2. OneReviewer'
      BY <1>0, <2>1, ReviewersKept
    <2> DEFINE n == Len(session) + 1
    <2>a. n \in Nat /\ pc \in Points /\ Begin(p, pc, 0, NoMessage, n)
      BY <1>0, <1>a, <1>1
    <2>3. Lands(p, pc, 0, TRUE, NoMessage, n) /\ Others(p)
      <3> HIDE DEF n
      <3> QED BY <1>0, <2>a, BeginEffect
    <2>4. Knows(p)'
      BY <1>1, <2>1, <2>3
          DEF Lands, Knows, OwnLocals, ReadCertified, ReadStands, VerdictHeld, Ungated,
           Approving
    <2> QED BY <1>a, <1>1, <2>1, <2>2, <2>3, <2>4, ProgramStep
  <1>2. CASE start_architecture(p)
    <2>1. /\ UNCHANGED <<run, interview, plan, cert, history, gated, world, used, reviewed, approved>>
          /\ At(p, "architecture") /\ Holds(p)
      BY <1>2 DEF start_architecture
    <2>2. ASSUME repair' \in [attempts : Nat, pending : Nat] PROVE Bookkept
      BY <1>0, <2>1, <2>2 DEF Bookkept, Typed
    <2>3. ASSUME UNCHANGED session, Return(p), repair' \in [attempts : Nat, pending : Nat]
          PROVE  PInv'
      BY <2>1, <2>2, <2>3, SessionsSame, ReturnStep
    <2>4. CASE run.state # "READY_FOR_ARCHITECTURE"
      BY <1>0, <1>2, <2>3, <2>4 DEF start_architecture
    <2>5. CASE /\ run.state = "READY_FOR_ARCHITECTURE" /\ repair.pending = 0 /\ Recoverable # {}
               /\ Begin(p, "recover_architecture", 0, NoMessage, Latest(Recoverable))
               /\ UNCHANGED <<session, repair>>
      <3>1. Latest(Recoverable) \in Nat
        <4>1. Recoverable \subseteq DOMAIN session
          BY DEF Recoverable, Answered, Role
        <4> QED BY <1>0, <2>5, <4>1, LatestIn
      <3>2. Lands(p, "recover_architecture", 0, TRUE, NoMessage, Latest(Recoverable)) /\ Others(p)
        BY <1>0, <1>a, <2>5, <3>1, BeginEffect
      <3>3. Knows(p)'
        BY <2>1, <2>5, <3>2
            DEF Lands, Knows, OwnLocals, ReadCertified, ReadStands, VerdictHeld, Ungated,
             Approving
      <3>4. Bookkept /\ Keeps(session') /\ OneReviewer'
        BY <1>0, <2>2, <2>5, SessionsSame
      <3> QED BY <1>a, <2>1, <3>2, <3>3, <3>4, ProgramStep
    <2>6. CASE repair' = [repair EXCEPT !.pending = 0] /\ Return(p) /\ UNCHANGED session
      <3>1. repair' \in [attempts : Nat, pending : Nat]
        BY <1>0, <2>6
      <3> QED BY <2>3, <2>6, <3>1
    <2>7. CASE /\ run.state = "READY_FOR_ARCHITECTURE"
               /\ session' = Append(session, NewSession("architect", "STARTING", FALSE))
               /\ repair' = IF RepairCandidate
                            THEN [attempts |-> NextRepair(p), pending |-> 0] ELSE repair
               /\ Begin(p, "architect", 0, NoMessage, Len(session) + 1)
      <3>1. NextRepair(p) \in Nat
        BY <1>0 DEF NextRepair
      <3>2. repair' \in [attempts : Nat, pending : Nat]
        BY <1>0, <2>7, <3>1
      <3> QED BY <2>1, <2>2, <2>7, <3>2, <1>1
    <2> QED BY <1>2, <2>4, <2>5, <2>6, <2>7 DEF start_architecture
  <1>3. CASE start_plan_revision(p)
    <2>1. /\ UNCHANGED <<run, interview, plan, cert, history, gated, world, used, reviewed,
                         approved, repair>>
          /\ At(p, "revise") /\ Holds(p)
      BY <1>3 DEF start_plan_revision
    <2>2. Bookkept
      BY <1>0, <2>1 DEF Bookkept, Typed
    <2>3. CASE Return(p) /\ UNCHANGED session
      BY <2>1, <2>2, <2>3, SessionsSame, ReturnStep
    <2>4. CASE /\ run.state = "PLAN_REVISION_REQUIRED"
               /\ session' = Append(session, NewSession("architect", "STARTING", FALSE))
               /\ Begin(p, "reviser", 0, NoMessage, Len(session) + 1)
      BY <2>1, <2>2, <2>4, <1>1
    <2> QED BY <1>3, <2>3, <2>4 DEF start_plan_revision
  <1> QED BY <1>2, <1>3

LEMMA ArchitectureLaunched ==
    ASSUME PInv, NEW p \in Procs, launch_architect(p) \/ launch_reviser(p)
    PROVE  PInv'
  <1>0. Typed /\ OneReviewer /\ Knows(p)
    BY DEF PInv, TypeOK
  <1>1. PICK back \in {"READY_FOR_ARCHITECTURE", "PLAN_REVISION_REQUIRED"} :
          ArchitectStarts(p, back)
    BY DEF launch_architect, launch_reviser
  <1>2. /\ loc[p].pc \in {"architect", "reviser"} /\ loc[p].pc \notin Waiting
        /\ loc[p].s \in DOMAIN session /\ session[loc[p].s].role = "architect"
        /\ loc[p].fresh => run.state \notin Reviewing \cup {"INTERVIEWING"}
    BY <1>0 DEF launch_architect, launch_reviser, At, Waiting, Knows, OwnLocals, ReadStands,
                Reviewing
  <1>3. UNCHANGED <<interview, plan, cert, repair, history, gated, world, reviewed, approved>>
    BY <1>1 DEF ArchitectStarts
  <1>4. {back, "ARCHITECTING"} \subseteq RunStates \ {"INTERVIEWING", "READY_TO_EXECUTE"}
    BY DEF RunStates
  <1>5. CASE ~loc[p].fresh /\ Return(p) /\ UNCHANGED <<run, session, used>>
    <2>1. Bookkept
      BY <1>0, <1>3, <1>5 DEF Bookkept, Typed
    <2> QED BY <1>2, <1>3, <1>5, <2>1, SessionsSame, ReturnStep
  <1>6. CASE /\ loc[p].fresh /\ MovedAndDone(p) /\ transition_run("ARCHITECTING")
             /\ session' = [session EXCEPT ![loc[p].s].state = "RUNNING", ![loc[p].s].turn = TRUE]
             /\ UNCHANGED used
    <2>1. Keeps(session') /\ Quiet(session')
      BY <1>0, <1>2, <1>6, SessionChanges
    <2>2. OneReviewer' /\ Bookkept
      BY <1>0, <1>3, <1>6, <2>1, ReviewersKept DEF Bookkept, Typed
    <2> QED BY <1>2, <1>3, <1>4, <1>6, <2>1, <2>2, DoneStep
  <1>7. CASE /\ loc[p].fresh /\ Fail /\ MovedAndDone(p) /\ transition_run(back)
             /\ session' = [session EXCEPT ![loc[p].s].state = "FAILED"]
    <2>1. Keeps(session') /\ Quiet(session')
      BY <1>0, <1>7, SessionChanges
    <2>2. OneReviewer' /\ Bookkept
      BY <1>0, <1>3, <1>7, <2>1, ReviewersKept, Counted DEF Bookkept, Typed
    <2> QED BY <1>2, <1>3, <1>4, <1>7, <2>1, <2>2, DoneStep
  <1> QED BY <1>1, <1>5, <1>6, <1>7 DEF ArchitectStarts

LEMMA ArchitectureEnds ==
    ASSUME PInv, NEW p \in Procs, recover_architecture(p) \/ plan_submitted(p)
    PROVE  PInv'
  <1>0. Typed /\ OneReviewer /\ Knows(p)
    BY DEF PInv, TypeOK
  <1>a. /\ {"ARCHITECTING", "PLAN_ADVERSARIAL_REVIEW"}
              \subseteq RunStates \ {"INTERVIEWING", "READY_TO_EXECUTE"}
        /\ "submit" \in Plain /\ "launch" \in Plain
    BY DEF RunStates, Plain
  <1>1. CASE recover_architecture(p)
    <2>1. /\ UNCHANGED <<interview, plan, cert, session, repair, history, gated, world, used,
                         reviewed, approved>>
          /\ loc[p].pc \notin Waiting
          /\ loc[p].fresh => run.state \notin Reviewing \cup {"INTERVIEWING"}
      BY <1>0, <1>1 DEF recover_architecture, At, Waiting, Knows, ReadStands, Reviewing
    <2>2. Bookkept /\ Keeps(session') /\ OneReviewer'
      BY <1>0, <2>1, SessionsSame DEF Bookkept, Typed
    <2>3. CASE loc[p].fresh /\ transition_run("ARCHITECTING") /\ Moved(p, "submit")
      BY <1>a, <2>1, <2>2, <2>3, OnwardStep
    <2>4. CASE Return(p) /\ UNCHANGED run
      BY <2>1, <2>2, <2>4, ReturnStep
    <2> QED BY <1>1, <2>3, <2>4 DEF recover_architecture
  <1>2. CASE plan_submitted(p)
    <2>1. /\ UNCHANGED <<interview, plan, cert, history, gated, world, used, reviewed, approved>>
          /\ loc[p].pc \notin Waiting
          /\ loc[p].fresh => run.state \notin Reviewing \cup {"INTERVIEWING"}
      BY <1>0, <1>2 DEF plan_submitted, At, Waiting, Knows, ReadStands, Reviewing
    <2>2. CASE /\ loc[p].fresh /\ transition_run("PLAN_ADVERSARIAL_REVIEW")
               /\ repair' = [attempts |-> 0, pending |-> 0]
               /\ session' = [session EXCEPT ![loc[p].s].state = "COMPLETED"]
               /\ Moved(p, "launch")
      <3>1. Keeps(session') /\ Quiet(session')
        BY <1>0, <2>2, SessionChanges
      <3>2. repair' \in [attempts : Nat, pending : Nat]
        BY <2>2
      <3>3. OneReviewer' /\ Bookkept
        BY <1>0, <2>1, <3>1, <3>2, ReviewersKept DEF Bookkept, Typed
      <3> QED BY <1>a, <2>1, <2>2, <3>1, <3>3, OnwardStep
    <2>3. CASE Return(p) /\ UNCHANGED <<run, repair, session>>
      <3>1. Bookkept /\ Keeps(session') /\ OneReviewer'
        BY <1>0, <2>1, <2>3, SessionsSame DEF Bookkept, Typed
      <3> QED BY <2>1, <2>3, <3>1, ReturnStep
    <2> QED BY <1>2, <2>2, <2>3 DEF plan_submitted
  <1> QED BY <1>1, <1>2

-----------------------------------------------------------------------------
(* Adversarial review.                                                     *)

(* A reviewer is launched where there is none at work.                     *)
LEMMA ReviewerLaunched ==
    ASSUME Typed, ~ReviewerBusy, NEW k,
           \A i \in DOMAIN session' : i # k => i \in DOMAIN session /\ session'[i] = session[i]
    PROVE  OneReviewer'
  <1>1. \A i \in DOMAIN session : ~(session[i].role = "reviewer" /\ Active(session[i]))
    BY DEF ReviewerBusy, Role
  <1> QED BY <1>1 DEF OneReviewer

(* A launch or a verdict ends in an error: it returns, or the review the   *)
(* operator resumed is blocked again.                                      *)
LEMMA RefusedStep ==
    ASSUME PInv, NEW p \in Procs, LaunchRefused(p) \/ LaunchEnds(p),
           loc[p].pc \in Waiting => Holds(p),
           UNCHANGED <<interview, plan, cert, history, gated, world, approved>>,
           Bookkept, Keeps(session'), OneReviewer'
    PROVE  PInv'
  <1>1. CASE LaunchEnds(p)
    BY <1>1, ReturnStep DEF LaunchEnds
  <1>2. CASE /\ run.state = "PLAN_ADVERSARIAL_REVIEW" /\ MovedAndDone(p)
             /\ transition_run("plan_review_budget_exhausted")
    <2>1. /\ "plan_review_budget_exhausted" \in RunStates \ {"INTERVIEWING", "READY_TO_EXECUTE"}
          /\ run.state # "INTERVIEWING" /\ "plan_review_budget_exhausted" \in Reviewing
      BY <1>2 DEF RunStates, Reviewing
    <2> QED BY <1>2, <2>1, DoneStep
  <1> QED BY <1>1, <1>2 DEF LaunchRefused

(* ... or finds the run at its ceiling, and pauses it.                     *)
LEMMA CeilingStep ==
    ASSUME PInv, NEW p \in Procs, PausedAtCeiling(p), Holds(p),
           run.state = "PLAN_ADVERSARIAL_REVIEW",
           UNCHANGED <<interview, plan, cert, history, gated, world, approved>>,
           Bookkept, Keeps(session'), OneReviewer'
    PROVE  PInv'
  <1>1. CASE LaunchEnds(p)
    BY <1>1, RefusedStep
  <1>2. CASE run' = [run EXCEPT !.paused = TRUE] /\ MovedAndDone(p)
    <2>1. run \in [state : RunStates, paused : BOOLEAN] /\ Typed
      BY DEF PInv, TypeOK, Typed
    <2>2. /\ run' \in [state : RunStates, paused : BOOLEAN]
          /\ run'.state = "PLAN_ADVERSARIAL_REVIEW"
      BY <1>2, <2>1
    <2>3. Lands(p, "idle", 0, FALSE, NoMessage, 0) /\ OthersStale(p)
      BY <1>2, <2>1, MovedAndDoneEffect
    <2>4. Knows(p)'
      <3>1. loc'[p].pc = "idle"
        BY <2>3 DEF Lands
      <3> QED BY <3>1 DEF Knows, OwnLocals, ReadCertified, ReadStands, VerdictHeld, Ungated,
           Approving
    <2>5. /\ "idle" \in Points /\ "idle" \notin Holding
          /\ "PLAN_ADVERSARIAL_REVIEW" \in RunStates \ {"INTERVIEWING", "READY_TO_EXECUTE"}
      BY DEF Points, Unlocked, Holding, RunStates
    <2> QED BY <2>2, <2>3, <2>4, <2>5, RowStep
  <1> QED BY <1>1, <1>2 DEF PausedAtCeiling

LEMMA ReviewLaunched ==
    ASSUME PInv, NEW p \in Procs, recover_completed_plan_review(p) \/ launch_plan_reviewer(p)
    PROVE  PInv'
  <1>0. /\ Typed /\ OneReviewer /\ session \in Seq(Sessions) /\ plan.rev \in Nat
        /\ Len(session) \in Nat
    BY DEF PInv, TypeOK, Typed
  <1>1. CASE recover_completed_plan_review(p)
    <2>1. /\ UNCHANGED <<run, interview, plan, cert, session, repair, history, gated, world, used,
                         reviewed, approved>>
          /\ Holds(p)
      BY <1>1 DEF recover_completed_plan_review
    <2>2. Bookkept /\ Keeps(session') /\ OneReviewer'
      BY <1>0, <2>1, SessionsSame DEF Bookkept, Typed
    <2>3. /\ "apply" \in Points /\ "apply" \notin Holding
          /\ "reviewer" \in Points /\ "reviewer" \notin Holding
      BY DEF Points, Waiting, Holding
    <2>4. CASE Goto(p, "reviewer")
      <3>1. /\ Lands(p, "reviewer", loc[p].rev, loc[p].fresh, loc[p].msg, loc[p].s) /\ Others(p)
        BY <1>0, <2>3, <2>4, GotoEffect
      <3>2. Knows(p)'
        BY <3>1
            DEF Lands, Knows, OwnLocals, ReadCertified, ReadStands, VerdictHeld, Ungated, Approving
      <3> QED BY <2>1, <2>2, <2>3, <3>1, <3>2, ProgramStep
    <2>5. CASE InReview /\ StoredVerdicts # {}
      <3> DEFINE s == Latest(StoredVerdicts)
      <3>1. StoredVerdicts \subseteq DOMAIN session
        BY DEF StoredVerdicts, Reviewers, Role
      <3>2. s \in StoredVerdicts
        BY <1>0, <2>5, <3>1, LatestIn
      <3>3. Begin(p, "apply", plan.rev, session[s].msg, s)
        BY <1>1, <2>5 DEF recover_completed_plan_review
      <3> HIDE DEF s
      <3>4. /\ s \in DOMAIN session /\ s \in Nat /\ session[s].msg \in Verdicts
            /\ session[s].msg \in Messages
        BY <1>0, <3>1, <3>2, Vocabulary DEF StoredVerdicts
      <3>5. Lands(p, "apply", plan.rev, TRUE, session[s].msg, s) /\ Others(p)
        BY <1>0, <2>3, <3>3, <3>4, BeginEffect
      <3>6. Knows(p)'
        <4>1. loc'[p].pc = "apply" /\ loc'[p].s \in DOMAIN session' /\ loc'[p].msg \in Verdicts
          BY <2>1, <3>4, <3>5 DEF Lands
        <4> QED BY <4>1
            DEF Knows, OwnLocals, ReadCertified, ReadStands, VerdictHeld, Ungated, Approving
      <3> QED BY <2>1, <2>2, <2>3, <3>5, <3>6, ProgramStep
    <2> QED BY <1>1, <2>4, <2>5 DEF recover_completed_plan_review
  <1>2. CASE launch_plan_reviewer(p)
    <2>1. /\ UNCHANGED <<interview, plan, cert, repair, history, gated, world, approved>>
          /\ Holds(p)
      BY <1>2 DEF launch_plan_reviewer
    <2>2. ASSUME LaunchRefused(p) \/ LaunchEnds(p), Keeps(session'), OneReviewer',
                 used' \in [commands : Nat, failures : Nat, invalid : Nat],
                 reviewed' \in BOOLEAN
          PROVE  PInv'
      <3>1. Bookkept
        BY <1>0, <2>1, <2>2 DEF Bookkept, Typed
      <3> QED BY <2>1, <2>2, <3>1, RefusedStep
    <2>3. CASE /\ LaunchRefused(p) \/ LaunchEnds(p)
               /\ UNCHANGED <<session, reviewed>> /\ (Fail \/ UNCHANGED used)
      BY <1>0, <2>2, <2>3, SessionsSame, Counted DEF Typed
    <2>7. CASE /\ run.state = "PLAN_ADVERSARIAL_REVIEW" /\ Fail /\ PausedAtCeiling(p)
               /\ UNCHANGED <<session, reviewed>>
      <3>1. Bookkept
        BY <1>0, <2>1, <2>7, Counted DEF Bookkept, Typed
      <3> QED BY <2>1, <2>7, <3>1, SessionsSame, CeilingStep
    <2>4. CASE /\ ~ReviewerBusy /\ reviewed' = TRUE /\ LaunchEnds(p) /\ UNCHANGED used
               /\ session' = Continued(Latest(Resumable))
      <3> DEFINE s == Latest(Resumable)
      <3>1. Keeps(session')
        BY <1>0, <2>4, SessionChanges
      <3>2. \A i \in DOMAIN session' : i # s => i \in DOMAIN session /\ session'[i] = session[i]
        BY <2>4 DEF Continued
      <3>3. OneReviewer'
        <4> HIDE DEF s
        <4> QED BY <1>0, <2>4, <3>2, ReviewerLaunched
      <3> QED BY <1>0, <2>2, <2>4, <3>1, <3>3 DEF Typed
    <2>5. CASE /\ ~ReviewerBusy /\ reviewed' = TRUE /\ LaunchEnds(p) /\ UNCHANGED used
               /\ session' = Append(session, NewSession("reviewer", "RUNNING", TRUE))
      <3> DEFINE f == Append(session, NewSession("reviewer", "RUNNING", TRUE))
                 k == Len(session) + 1
      <3>1. /\ Keeps(f) /\ DOMAIN f = 1..k /\ \A i \in DOMAIN session : f[i] = session[i]
        BY <1>0, SessionAdded
      <3>2. DOMAIN session = 1..Len(session)
        BY <1>0
      <3> HIDE DEF f
      <3>3. session' = f
        BY <2>5 DEF f
      <3>4. \A i \in DOMAIN session' : i # k => i \in DOMAIN session /\ session'[i] = session[i]
        BY <1>0, <3>1, <3>2, <3>3
      <3>5. OneReviewer'
        <4> HIDE DEF k
        <4> QED BY <1>0, <2>5, <3>4, ReviewerLaunched
      <3> QED BY <1>0, <2>2, <2>5, <3>1, <3>3, <3>5 DEF Typed
    <2>6. CASE /\ session' = Append(session, NewSession("reviewer", "FAILED", FALSE))
               /\ Fail /\ LaunchRefused(p) /\ UNCHANGED reviewed
      <3>1. Keeps(session') /\ Quiet(session')
        BY <1>0, <2>6, SessionAdded
      <3>2. OneReviewer'
        BY <1>0, <3>1, ReviewersKept
      <3> QED BY <1>0, <2>2, <2>6, <3>1, <3>2, Counted DEF Typed
    <2> QED BY <1>2, <2>3, <2>4, <2>5, <2>6, <2>7 DEF launch_plan_reviewer, Launchable
  <1> QED BY <1>1, <1>2

(* A step of p that decides: the plan, its certificate, the record of the  *)
(* review or the gate changes, the run does not.                           *)
LEMMA DecisionStep ==
    ASSUME PInv, NEW p \in Procs, NEW pc \in Points, NEW rev, NEW fresh, NEW msg, NEW s,
           Lands(p, pc, rev, fresh, msg, s), Others(p),
           loc[p].pc \in Waiting => Holds(p),
           pc \in Holding \ {"submit", "submitted"} => Holds(p),
           UNCHANGED <<run, interview, session, repair, world, used, approved>>,
           plan' \in [rev : Nat, state : PlanStates], reviewed' \in BOOLEAN,
           cert' \in [rev : Nat, world : Nat, brief : Nat], history' \in Seq(Records),
           gated' \in SUBSET Nat, Shared,
           \/ Holds(p)
           \/ cert' = cert /\ (run.state \in Reviewing /\ plan.state \in Settled
                               => plan'.state \in Settled),
           Knows(p)', PlanSettled', Executed'
    PROVE  PInv'
  <1>0. Typed /\ LockQueue
    BY DEF PInv, TypeOK
  <1>1. Typed'
    <2>1. loc' \in [Procs -> Locals] /\ queue' \in Seq(Procs)
      BY DEF Lands
    <2> QED BY <1>0, <2>1 DEF Typed
  <1>2. LockQueue'
    <2>1. \A q \in Procs \ {p} : loc'[q].pc = loc[q].pc
      BY DEF Others
    <2> QED BY <1>0, <2>1, LockStep
  <1>3. BriefSettled' /\ OneReviewer'
    BY DEF PInv, BriefSettled, OneReviewer
  <1>4. \A q \in Procs \ {p} : Knows(q)'
    <2>1. ASSUME NEW q \in Procs \ {p} PROVE Kept(q)
      <3>1. Holds(q) => ~Holds(p)
        BY DEF Holds
      <3> QED BY <3>1 DEF Kept, Others
    <2> QED BY <1>1, <2>1, BystanderKeeps
  <1> QED BY <1>1, <1>2, <1>3, <1>4 DEF PInv, TypeOK

LEMMA RecordKept ==
    ASSUME Typed, NEW source \in {"agent", "human"}, NEW of \in Nat,
           NEW finding \in Verdicts \cup {<<"human", 1>>}, Record(source, of, finding)
    PROVE  /\ history' \in Seq(Records)
           /\ \A i \in DOMAIN history : i \in DOMAIN history' /\ history'[i] = history[i]
           /\ \E i \in DOMAIN history' : history'[i].rev = plan.rev /\ history'[i].finding = finding
  <1> DEFINE r == [rev |-> plan.rev, of |-> of, source |-> source, finding |-> finding]
  <1>1. history \in Seq(Records) /\ plan.rev \in Nat
    BY DEF Typed
  <1>2. r \in Records /\ r.rev = plan.rev /\ r.finding = finding
    BY <1>1 DEF Records
  <1>3. history' = Append(history, r)
    BY DEF Record
  <1> HIDE DEF r
  <1>4. /\ history' \in Seq(Records) /\ Len(history) + 1 \in DOMAIN history'
        /\ history'[Len(history) + 1] = r
        /\ \A i \in DOMAIN history : i \in DOMAIN history' /\ history'[i] = history[i]
    BY <1>1, <1>2, <1>3
  <1> QED BY <1>2, <1>4

(* Where a program leaves by an early return.                              *)
LEMMA EarlyReturn ==
    ASSUME PInv, NEW p \in Procs, Return(p), loc[p].pc \in Waiting => Holds(p),
           UNCHANGED <<run, interview, plan, cert, session, repair, history, gated, world, used,
                       approved>>, reviewed' \in BOOLEAN
    PROVE  PInv'
  <1>1. Bookkept
    BY DEF PInv, TypeOK, Typed, Bookkept
  <1> QED BY <1>1, SessionsSame, ReturnStep

(* The latest plan moves on, its revision stays.                           *)
LEMMA PlanMoves ==
    ASSUME Typed, NEW x \in PlanStates, plan' = [plan EXCEPT !.state = x]
    PROVE  plan' \in [rev : Nat, state : PlanStates] /\ plan'.rev = plan.rev /\ plan'.state = x
  <1>1. plan \in [rev : Nat, state : PlanStates]
    BY DEF Typed
  <1> QED BY <1>1

LEMMA SubmitKeeps ==
    ASSUME PInv, NEW p \in Procs, submit_plan(p) PROVE PInv'
  <1>0. /\ Typed /\ plan.rev \in Nat /\ world \in Nat /\ loc \in [Procs -> Locals]
        /\ queue \in Seq(Procs) /\ reviewed \in BOOLEAN
    BY DEF PInv, TypeOK, Typed
  <1>1. /\ At(p, "submit") /\ loc[p].pc \notin Waiting
        /\ UNCHANGED <<run, interview, cert, session, repair, history, gated, world, used, approved>>
    BY DEF submit_plan, At, Waiting
  <1>2. CASE Return(p) /\ UNCHANGED <<plan, reviewed>>
    BY <1>0, <1>1, <1>2, EarlyReturn
  <1>3. CASE /\ run.state = "ARCHITECTING"
             /\ plan' = [rev |-> plan.rev + 1, state |-> "PROPOSED"] /\ reviewed' = FALSE
             /\ loc' = [loc EXCEPT ![p].pc = "submitted", ![p].fresh = TRUE,
                                   ![p].rev = plan.rev + 1]
             /\ UNCHANGED queue
    <2> DEFINE n == plan.rev + 1
               l == [loc[p] EXCEPT !.pc = "submitted", !.fresh = TRUE, !.rev = n]
    <2>1. n \in Nat /\ plan.rev <= n /\ n # plan.rev
      BY <1>0
    <2>2. plan' = [rev |-> n, state |-> "PROPOSED"] /\ loc' = [loc EXCEPT ![p] = l]
      BY <1>0, <1>3
    <2> HIDE DEF n
    <2>3. "submitted" \in Points /\ "submitted" \in Holding
      BY DEF Points, Holding
    <2>4. /\ l \in Locals /\ l.pc = "submitted" /\ l.fresh = TRUE /\ l.rev = n
          /\ l.msg = loc[p].msg /\ l.s = loc[p].s
      BY <1>0, <2>1, <2>3 DEF Locals
    <2> HIDE DEF l
    <2>5. loc' \in [Procs -> Locals] /\ loc'[p] = l /\ Others(p)
      BY <1>0, <2>2, <2>4 DEF Others
    <2>6. Requeue(p, "submitted")
      BY <1>3, <2>3 DEF Requeue
    <2>7. Lands(p, "submitted", n, TRUE, loc[p].msg, loc[p].s)
      BY <1>0, <1>3, <2>4, <2>5, <2>6 DEF Lands
    <2>8. /\ plan' \in [rev : Nat, state : PlanStates] /\ plan'.rev = n
          /\ plan'.state = "PROPOSED"
      BY <2>1, <2>2 DEF PlanStates
    <2>9. Shared
      <3>1. Keeps(session') /\ world <= world' /\ plan.rev <= plan'.rev
        BY <1>0, <1>1, <2>1, <2>8, SessionsSame
      <3> QED BY <1>1, <1>3, <2>1, <2>8, <3>1 DEF Shared, confirmed_intent_brief
    <2>10. Knows(p)'
      <3>1. loc'[p].pc = "submitted" /\ run'.state = "ARCHITECTING"
        BY <1>1, <1>3, <2>4, <2>5
      <3> QED BY <3>1
          DEF Knows, OwnLocals, ReadCertified, ReadStands, VerdictHeld, Ungated, Approving
    <2>11. PlanSettled' /\ Executed'
      BY <1>1, <1>3, <2>8 DEF PInv, PlanSettled, Executed, Settled
    <2>12. /\ run.state \notin Reviewing /\ reviewed' \in BOOLEAN
           /\ cert' \in [rev : Nat, world : Nat, brief : Nat] /\ history' \in Seq(Records)
           /\ gated' \in SUBSET Nat
      BY <1>0, <1>1, <1>3 DEF Reviewing, Typed
    <2> QED BY <1>1, <2>3, <2>5, <2>7, <2>8, <2>9, <2>10, <2>11, <2>12, DecisionStep
  <1> QED BY <1>2, <1>3 DEF submit_plan

LEMMA ApplyKeeps ==
    ASSUME PInv, NEW p \in Procs, apply_plan_review_verdict(p) PROVE PInv'
  <1>0. /\ Typed /\ plan.rev \in Nat /\ world \in Nat /\ loc \in [Procs -> Locals]
        /\ queue \in Seq(Procs) /\ session \in Seq(Sessions) /\ interview.confirmed \in Nat
        /\ plan \in [rev : Nat, state : PlanStates]
    BY DEF PInv, TypeOK, Typed
  <1>1. /\ At(p, "apply") /\ Holds(p)
        /\ UNCHANGED <<interview, plan, session, repair, gated, world, used, reviewed, approved>>
    BY DEF apply_plan_review_verdict
  <1>2. /\ loc[p].s \in DOMAIN session /\ loc[p].msg \in Verdicts
        /\ session[loc[p].s].rev \in Nat
    <2>1. loc[p].s \in DOMAIN session /\ loc[p].msg \in Verdicts
      BY <1>1 DEF PInv, Knows, OwnLocals, At
    <2>2. session[loc[p].s] \in Sessions
      BY <1>0, <2>1
    <2> QED BY <2>1, <2>2 DEF Sessions
  <1>3. CASE LaunchRefused(p) /\ UNCHANGED <<history, cert>>
    <2>1. Bookkept
      BY <1>0, <1>1 DEF Bookkept, Typed
    <2> QED BY <1>1, <1>3, <2>1, SessionsSame, RefusedStep
  <1>4. CASE InReview
    <2> DEFINE n == IF loc[p].msg = Accept THEN plan.rev
                    ELSE IF plan_review_nonconvergence(loc[p].msg) THEN 2 ELSE 1
               l == [loc[p] EXCEPT !.pc = "certify", !.fresh = TRUE, !.rev = n]
    <2>1. /\ UNCHANGED queue /\ UNCHANGED run
          /\ loc' = [loc EXCEPT ![p].pc = "certify", ![p].fresh = TRUE, ![p].rev = n]
          /\ Record("agent", session[loc[p].s].rev, loc[p].msg)
          /\ cert' = IF loc[p].msg = Accept
                     THEN [rev |-> plan.rev, world |-> world, brief |-> confirmed_intent_brief]
                     ELSE cert
      BY <1>4 DEF apply_plan_review_verdict
    <2>2. n \in Nat /\ (loc[p].msg = Accept => n = plan.rev)
      BY <1>0
    <2> HIDE DEF n
    <2>3. loc' = [loc EXCEPT ![p] = l]
      BY <1>0, <2>1
    <2>4. "certify" \in Points /\ "certify" \in Holding
      BY DEF Points, Holding
    <2>5. /\ l \in Locals /\ l.pc = "certify" /\ l.fresh = TRUE /\ l.rev = n
          /\ l.msg = loc[p].msg /\ l.s = loc[p].s
      BY <1>0, <2>2, <2>4 DEF Locals
    <2> HIDE DEF l
    <2>6. loc' \in [Procs -> Locals] /\ loc'[p] = l /\ Others(p)
      BY <1>0, <2>3, <2>5 DEF Others
    <2>7. Requeue(p, "certify")
      BY <2>1, <2>4 DEF Requeue
    <2>8. Lands(p, "certify", n, TRUE, loc[p].msg, loc[p].s)
      BY <1>0, <2>1, <2>5, <2>6, <2>7 DEF Lands
    <2>9. /\ history' \in Seq(Records)
          /\ \A i \in DOMAIN history : i \in DOMAIN history' /\ history'[i] = history[i]
          /\ \E i \in DOMAIN history' :
                history'[i].rev = plan.rev /\ history'[i].finding = loc[p].msg
      BY <1>0, <1>2, <2>1, RecordKept
    <2>10. confirmed_intent_brief \in Nat /\ confirmed_intent_brief' = confirmed_intent_brief
      BY <1>0, <1>1 DEF confirmed_intent_brief
    <2>11. /\ cert' \in [rev : Nat, world : Nat, brief : Nat]
           /\ loc[p].msg = Accept => /\ cert'.rev = plan.rev /\ cert'.world = world
                                     /\ cert'.brief = confirmed_intent_brief
      <3> HIDE DEF confirmed_intent_brief
      <3>1. CASE loc[p].msg = Accept
        BY <1>0, <2>1, <2>10, <3>1
      <3>2. CASE loc[p].msg # Accept
        BY <1>0, <2>1, <3>2 DEF Typed
      <3> QED BY <3>1, <3>2
    <2>12. loc[p].msg = Accept => Certified'
      BY <1>1, <2>9, <2>10, <2>11 DEF Certified
    <2>13. Knows(p)'
      <3>1. /\ loc'[p].pc = "certify" /\ loc'[p].s \in DOMAIN session' /\ loc'[p].msg \in Verdicts
            /\ run'.state = "PLAN_ADVERSARIAL_REVIEW"
            /\ loc'[p].msg = Accept => loc'[p].rev = plan'.rev /\ Certified'
        BY <1>1, <1>2, <1>4, <2>1, <2>2, <2>5, <2>6, <2>12 DEF InReview
      <3> QED BY <3>1
          DEF Knows, OwnLocals, ReadCertified, ReadStands, VerdictHeld, Ungated, Approving,
           Reviewing
    <2>14. Shared
      <3>1. Keeps(session') /\ world <= world' /\ plan.rev <= plan'.rev
        BY <1>0, <1>1, SessionsSame
      <3>2. Certified => Certified'
        BY <1>1, <2>1, <2>9, <2>10, <2>12 DEF Certified
      <3> QED BY <1>1, <2>1, <2>9, <2>10, <3>1, <3>2 DEF Shared
    <2>15. PlanSettled' /\ Executed'
      <3>1. cert'.world <= world'
        <4>1. CASE loc[p].msg = Accept
          BY <1>0, <1>1, <2>11, <4>1
        <4>2. CASE loc[p].msg # Accept
          BY <1>1, <2>1, <4>2 DEF PInv, PlanSettled
        <4> QED BY <4>1, <4>2
      <3> QED BY <1>1, <1>4, <2>1, <3>1 DEF PInv, PlanSettled, Executed, InReview, Settled
    <2>16. /\ reviewed' \in BOOLEAN /\ gated' \in SUBSET Nat
           /\ plan' \in [rev : Nat, state : PlanStates]
      BY <1>0, <1>1 DEF Typed
    <2> QED BY <1>1, <2>1, <2>4, <2>6, <2>8, <2>9, <2>11, <2>13, <2>14, <2>15, <2>16, DecisionStep
  <1> QED BY <1>3, <1>4 DEF apply_plan_review_verdict

LEMMA CertifyKeeps ==
    ASSUME PInv, NEW p \in Procs, certify_latest_plan(p) PROVE PInv'
  <1>0. Typed /\ Knows(p) /\ plan.rev \in Nat /\ world \in Nat
    BY DEF PInv, TypeOK, Typed
  <1>1. /\ At(p, "certify") /\ loc[p].pc \notin Waiting /\ Holds(p) /\ run.state \in Reviewing
        /\ UNCHANGED <<interview, cert, session, repair, history, gated, world, used, reviewed,
                       approved>>
    BY <1>0 DEF certify_latest_plan, At, Waiting, Holding, PInv, TypeOK, LockQueue, Knows,
                VerdictHeld
  <1>2. CASE LaunchRefused(p) /\ UNCHANGED plan
    <2>1. Bookkept
      BY <1>0, <1>1 DEF Bookkept, Typed
    <2> QED BY <1>1, <1>2, <2>1, SessionsSame, RefusedStep
  <1>3. CASE plan.state = "PROPOSED"
    <2> DEFINE x == IF loc[p].msg = Accept THEN "CERTIFIED" ELSE "REVISION_REQUIRED"
    <2>1. plan' = [plan EXCEPT !.state = x] /\ Goto(p, "certified") /\ UNCHANGED run
      BY <1>3 DEF certify_latest_plan
    <2>2. /\ x \in PlanStates /\ x # "PROPOSED" /\ x # "APPROVED"
          /\ x \in Settled <=> loc[p].msg = Accept
      BY DEF PlanStates, Settled
    <2> HIDE DEF x
    <2>3. plan' \in [rev : Nat, state : PlanStates] /\ plan'.rev = plan.rev /\ plan'.state = x
      BY <1>0, <2>1, <2>2, PlanMoves
    <2>4. "certified" \in Points /\ "certified" \in Holding
      BY DEF Points, Holding
    <2>5. /\ Lands(p, "certified", loc[p].rev, loc[p].fresh, loc[p].msg, loc[p].s)
          /\ Others(p)
      BY <1>0, <2>1, <2>4, GotoEffect
    <2>6. /\ loc[p].msg = Accept => Certified /\ loc[p].rev = plan.rev
          /\ loc[p].s \in DOMAIN session /\ loc[p].msg \in Verdicts
          /\ loc[p].fresh => run.state = "PLAN_ADVERSARIAL_REVIEW"
      BY <1>0, <1>1 DEF Knows, VerdictHeld, OwnLocals, ReadStands, At
    <2>7. Certified' = Certified
      BY <1>1, <2>3 DEF Certified, confirmed_intent_brief
    <2>8. Knows(p)'
      <3>1. /\ loc'[p].pc = "certified" /\ loc'[p].s = loc[p].s /\ loc'[p].msg = loc[p].msg
            /\ loc'[p].rev = loc[p].rev /\ loc'[p].fresh = loc[p].fresh
        BY <2>5 DEF Lands
      <3> QED BY <1>1, <2>1, <2>2, <2>3, <2>6, <3>1
          DEF Knows, OwnLocals, ReadCertified, ReadStands, VerdictHeld, Ungated, Approving
    <2>9. Shared
      <3>1. Keeps(session') /\ world <= world' /\ plan.rev <= plan'.rev
        BY <1>0, <1>1, <2>3, SessionsSame
      <3>2. x # "NONE"
        BY DEF x
      <3> QED BY <1>1, <1>3, <2>1, <2>2, <2>3, <2>7, <3>1, <3>2 DEF Shared, confirmed_intent_brief
    <2>10. PlanSettled' /\ Executed'
      BY <1>1, <2>1, <2>2, <2>3, <2>6, <2>7 DEF PInv, PlanSettled, Executed, Reviewing
    <2>11. /\ reviewed' \in BOOLEAN /\ cert' \in [rev : Nat, world : Nat, brief : Nat]
           /\ history' \in Seq(Records) /\ gated' \in SUBSET Nat
      BY <1>0, <1>1 DEF Typed
    <2> QED BY <1>1, <2>1, <2>3, <2>4, <2>5, <2>8, <2>9, <2>10, <2>11, DecisionStep
  <1> QED BY <1>2, <1>3 DEF certify_latest_plan

LEMMA VerdictKeeps ==
    ASSUME PInv, NEW p \in Procs, verdict_applied(p) PROVE PInv'
  <1>0. Typed /\ OneReviewer /\ Knows(p) /\ plan.rev \in Nat
    BY DEF PInv, TypeOK, Typed
  <1>1. /\ At(p, "certified") /\ loc[p].pc \notin Waiting /\ Holds(p) /\ run.state \in Reviewing
        /\ UNCHANGED <<interview, plan, cert, repair, history, gated, world, used, reviewed,
                       approved>>
    BY <1>0 DEF verdict_applied, At, Waiting, Holding, PInv, TypeOK, LockQueue, Knows,
         VerdictHeld
  <1>2. Bookkept
    BY <1>0, <1>1 DEF Bookkept, Typed
  <1>3. CASE LaunchRefused(p) /\ UNCHANGED session
    BY <1>1, <1>2, <1>3, SessionsSame, RefusedStep
  <1>4. CASE session' = [session EXCEPT ![loc[p].s].state = "COMPLETED"]
    <2>1. Keeps(session') /\ Quiet(session')
      BY <1>0, <1>4, SessionChanges
    <2>2. OneReviewer'
      BY <1>0, <2>1, ReviewersKept
    <2>3. /\ {"PLAN_REVIEW_REQUIRED", "plan_review_deadlocked", "PLAN_REVISION_REQUIRED"}
               \subseteq RunStates \ {"INTERVIEWING", "READY_TO_EXECUTE"}
          /\ run.state # "INTERVIEWING"
      BY <1>1 DEF RunStates, Reviewing
    <2>4. ASSUME NEW x \in {"PLAN_REVIEW_REQUIRED", "plan_review_deadlocked",
                            "PLAN_REVISION_REQUIRED"},
                 transition_run(x), MovedAndDone(p)
          PROVE  PInv'
      BY <1>1, <1>2, <2>1, <2>2, <2>3, <2>4, DoneStep
    <2>5. ASSUME NEW x \in {"PLAN_REVIEW_REQUIRED", "plan_review_deadlocked",
                            "PLAN_REVISION_REQUIRED"},
                 transition_run(x), Moved(p, "revise")
          PROVE  PInv'
      <3>1. "revise" \in Plain
        BY DEF Plain
      <3> QED BY <1>1, <1>2, <2>1, <2>2, <2>3, <2>5, <3>1, OnwardStep
    <2>6. CASE /\ loc[p].msg = Accept /\ transition_run("PLAN_REVIEW_REQUIRED")
               /\ ~RequiresHuman(plan.rev) /\ Moved(p, "approve_automatic")
      <3>1. "approve_automatic" \in Points /\ "approve_automatic" \notin Holding
        BY DEF Points, Unlocked, Holding
      <3>2. /\ Lands(p, "approve_automatic", loc[p].rev, FALSE, loc[p].msg, loc[p].s)
            /\ OthersStale(p)
        BY <1>0, <2>6, <3>1, MovedEffect
      <3>3. loc[p].rev = plan.rev /\ plan.state \in Settled
        BY <1>0, <1>1, <2>6 DEF Knows, VerdictHeld, At
      <3>4. Knows(p)'
        <4>1. /\ loc'[p].pc = "approve_automatic" /\ loc'[p].rev = plan'.rev
              /\ loc'[p].fresh = FALSE /\ plan'.rev <= plan'.rev
          BY <1>0, <1>1, <3>2, <3>3 DEF Lands
        <4>2. plan'.rev \notin gated' /\ plan'.state # "PROPOSED"
          BY <1>1, <2>6, <3>3 DEF RequiresHuman, Settled
        <4> QED BY <4>1, <4>2
            DEF Knows, OwnLocals, ReadCertified, ReadStands, VerdictHeld, Ungated, Approving
      <3> QED BY <1>1, <1>2, <2>1, <2>2, <2>3, <2>6, <3>1, <3>2, <3>4, RunStep
    <2> QED BY <1>3, <2>4, <2>5, <2>6 DEF verdict_applied
  <1> QED BY <1>3, <1>4 DEF verdict_applied

-----------------------------------------------------------------------------
(* Approval.                                                               *)
LEMMA ApproveKeeps ==
    ASSUME PInv, NEW p \in Procs, NEW pc \in {"idle", "approve_automatic"}, approve_plan(p, pc)
    PROVE  PInv'
  <1>0. /\ Typed /\ Knows(p) /\ plan.rev \in Nat /\ world \in Nat /\ 0 \in Nat
        /\ reviewed \in BOOLEAN /\ plan.rev <= plan.rev
    BY DEF PInv, TypeOK, Typed
  <1>1. /\ At(p, pc) /\ loc[p].pc \notin Waiting /\ reviewed' \in BOOLEAN
        /\ UNCHANGED <<run, interview, cert, session, repair, history, gated, world, used, approved>>
    BY DEF approve_plan, At, Waiting
  <1>2. CASE Return(p) /\ UNCHANGED plan
    BY <1>1, <1>2, EarlyReturn
  <1> DEFINE m == <<pc, 0>>
  <1>3. m \in Messages /\ m \in {<<"idle", 0>>, Automatically}
    BY Vocabulary DEF Automatically
  <1>4. m = Automatically => pc = "approve_automatic"
    BY DEF Automatically
  <1>5. {"approve", "reopen"} \subseteq Points /\ "approve" \notin Holding /\ "reopen" \notin Holding
    BY DEF Points, Unlocked, Holding
  <1>6. /\ reviewed' \in BOOLEAN /\ cert' \in [rev : Nat, world : Nat, brief : Nat]
        /\ history' \in Seq(Records) /\ gated' \in SUBSET Nat
    BY <1>0, <1>1 DEF Typed
  <1>7. CASE /\ plan.state = "CERTIFIED" /\ run.state = "PLAN_REVIEW_REQUIRED"
             /\ ~(pc # "idle" /\ plan.rev # loc[p].rev)
             /\ Begin(p, "approve", plan.rev, <<pc, 0>>, 0) /\ UNCHANGED plan
    <2>1. Lands(p, "approve", plan.rev, TRUE, m, 0) /\ Others(p)
      BY <1>0, <1>3, <1>5, <1>7, BeginEffect
    <2>2. world = 0 /\ m = Automatically => plan.rev \notin gated /\ plan.state # "PROPOSED"
      BY <1>0, <1>1, <1>4, <1>7 DEF Knows, Ungated, At
    <2> HIDE DEF m
    <2>3. /\ loc'[p].pc = "approve" /\ loc'[p].rev = plan.rev /\ loc'[p].msg = m
      BY <2>1 DEF Lands
    <2>4. Knows(p)'
      <3>1. OwnLocals(p)'
        BY <1>0, <1>3, <1>7, <2>3 DEF OwnLocals, Approving
      <3>2. ReadStands(p)' /\ VerdictHeld(p)' /\ ReadCertified(p)'
        BY <1>1, <1>7, <2>3 DEF ReadStands, VerdictHeld, ReadCertified, Approving
      <3>3. Ungated(p)'
        BY <1>1, <1>7, <2>2, <2>3 DEF Ungated
      <3> QED BY <3>1, <3>2, <3>3 DEF Knows
    <2>5. Bookkept
      BY <1>0, <1>1 DEF Bookkept, Typed
    <2> QED BY <1>1, <1>5, <1>7, <2>1, <2>4, <2>5, SessionsSame, ProgramStep
  <1>8. CASE /\ plan.state = "CERTIFIED" /\ run.state = "PLAN_REVIEW_REQUIRED" /\ ~CertificateFresh
             /\ plan' = [plan EXCEPT !.state = "PROPOSED"]
             /\ Begin(p, "reopen", plan.rev, <<pc, 0>>, 0)
    <2>1. Lands(p, "reopen", plan.rev, TRUE, m, 0) /\ Others(p)
      BY <1>0, <1>3, <1>5, <1>8, BeginEffect
    <2> HIDE DEF m
    <2>2. /\ plan' \in [rev : Nat, state : PlanStates] /\ plan'.rev = plan.rev
          /\ plan'.state = "PROPOSED"
      BY <1>0, <1>8, PlanMoves DEF PlanStates
    <2>3. Knows(p)'
      <3>1. loc'[p].pc = "reopen" /\ loc'[p].rev = plan.rev /\ loc'[p].msg = m
        BY <2>1 DEF Lands
      <3>2. OwnLocals(p)'
        BY <1>0, <1>3, <2>2, <3>1 DEF OwnLocals, Approving
      <3>3. ReadStands(p)' /\ VerdictHeld(p)' /\ Ungated(p)' /\ ReadCertified(p)'
        BY <1>1, <1>8, <2>2, <3>1
        DEF ReadStands, VerdictHeld, Approving, Ungated, ReadCertified
      <3> QED BY <3>2, <3>3 DEF Knows
    <2>4. Shared
      <3>1. Keeps(session') /\ world <= world' /\ plan.rev <= plan'.rev
        BY <1>0, <1>1, <2>2, SessionsSame
      <3>2. Certified' = Certified
        BY <1>1, <2>2 DEF Certified, confirmed_intent_brief
      <3> QED BY <1>1, <1>8, <2>2, <3>1, <3>2 DEF Shared, confirmed_intent_brief
    <2>5. PlanSettled' /\ Executed'
      BY <1>1, <1>8, <2>2 DEF PInv, PlanSettled, Executed, Settled
    <2>6. run.state \notin Reviewing
      BY <1>8 DEF Reviewing
    <2> QED BY <1>1, <1>5, <1>6, <2>1, <2>2, <2>3, <2>4, <2>5, <2>6, DecisionStep
  <1> QED BY <1>2, <1>7, <1>8 DEF approve_plan

LEMMA ApproveLatestKeeps ==
    ASSUME PInv, NEW p \in Procs, approve_latest_plan(p) PROVE PInv'
  <1>0. /\ Typed /\ Knows(p) /\ plan.rev \in Nat /\ plan.rev <= plan.rev
        /\ loc \in [Procs -> Locals]
    BY DEF PInv, TypeOK, Typed
  <1>1. /\ At(p, "approve") /\ loc[p].pc \notin Waiting
        /\ UNCHANGED <<run, interview, plan, cert, session, repair, history, gated, world, used,
                       reviewed, approved>>
    BY DEF approve_latest_plan, At, Waiting
  <1>2. CASE Return(p)
    <2>1. reviewed' \in BOOLEAN
      BY <1>0, <1>1 DEF Typed
    <2> QED BY <1>1, <1>2, <2>1, EarlyReturn
  <1>3. CASE plan.state = "CERTIFIED"
    <2> DEFINE l == [loc[p] EXCEPT !.pc = "approving", !.s = plan.rev]
    <2>1. "approving" \in Points /\ "approving" \notin Holding
      BY DEF Points, Unlocked, Holding
    <2>2. loc' = [loc EXCEPT ![p] = l] /\ Requeue(p, "approving")
      BY <1>0, <1>3 DEF approve_latest_plan
    <2>3. /\ l \in Locals /\ l.pc = "approving" /\ l.rev = loc[p].rev /\ l.s = plan.rev
          /\ l.fresh = loc[p].fresh /\ l.msg = loc[p].msg
      BY <1>0, <2>1 DEF Locals
    <2> HIDE DEF l
    <2>4. loc' \in [Procs -> Locals] /\ loc'[p] = l /\ Others(p)
      BY <1>0, <2>2, <2>3 DEF Others
    <2>5. Lands(p, "approving", loc[p].rev, loc[p].fresh, loc[p].msg, plan.rev)
      BY <1>0, <2>2, <2>3, <2>4, QueueTypes DEF Lands
    <2>6. Certified' = Certified /\ Certified
      BY <1>1, <1>3 DEF Certified, confirmed_intent_brief, PInv, PlanSettled, Settled
    <2>7. Knows(p)'
      <3>1. /\ loc'[p].pc = "approving" /\ loc'[p].rev = loc[p].rev /\ loc'[p].s = plan.rev
            /\ loc'[p].fresh = loc[p].fresh /\ loc'[p].msg = loc[p].msg
        BY <2>3, <2>4
      <3>2. OwnLocals(p)' /\ VerdictHeld(p)'
        BY <1>0, <1>1, <3>1 DEF Knows, OwnLocals, VerdictHeld, Approving, At
      <3>3. ReadStands(p)'
        BY <1>0, <1>1, <3>1 DEF Knows, ReadStands, Approving, At
      <3>4. ReadCertified(p)'
        BY <1>0, <1>1, <1>3, <2>6, <3>1 DEF ReadCertified
      <3>5. Ungated(p)'
        BY <1>0, <1>1, <3>1 DEF Knows, Ungated, At
      <3> QED BY <3>2, <3>3, <3>4, <3>5 DEF Knows
    <2>8. Bookkept
      BY <1>0, <1>1 DEF Bookkept, Typed
    <2> QED BY <1>1, <2>1, <2>4, <2>5, <2>7, <2>8, SessionsSame, ProgramStep
  <1> QED BY <1>2, <1>3 DEF approve_latest_plan

LEMMA LatestApprovedKeeps ==
    ASSUME PInv, NEW p \in Procs, latest_plan_approved(p) PROVE PInv'
  <1>0. Typed /\ Knows(p) /\ plan.rev \in Nat /\ world \in Nat
    BY DEF PInv, TypeOK, Typed
  <1>1. /\ At(p, "approving") /\ loc[p].pc \notin Waiting /\ Goto(p, "approved")
        /\ plan' = IF plan.rev = loc[p].s THEN [plan EXCEPT !.state = "APPROVED"] ELSE plan
        /\ UNCHANGED <<run, interview, cert, session, repair, history, gated, world, used, reviewed,
                       approved>>
    BY DEF latest_plan_approved, At, Waiting
  <1>2. /\ reviewed' \in BOOLEAN /\ cert' \in [rev : Nat, world : Nat, brief : Nat]
        /\ history' \in Seq(Records) /\ gated' \in SUBSET Nat
    BY <1>0, <1>1 DEF Typed
  <1>3. "approved" \in Points /\ "approved" \notin Holding
    BY DEF Points, Unlocked, Holding
  <1>4. Lands(p, "approved", loc[p].rev, loc[p].fresh, loc[p].msg, loc[p].s) /\ Others(p)
    BY <1>0, <1>1, <1>3, GotoEffect
  <1>5. /\ plan' \in [rev : Nat, state : PlanStates] /\ plan'.rev = plan.rev
        /\ plan'.state = plan.state \/ plan'.state = "APPROVED"
        /\ plan.rev = loc[p].s => plan'.state = "APPROVED"
        /\ plan.rev # loc[p].s => plan'.state = plan.state
    <2>1. CASE plan.rev = loc[p].s
      <3>1. plan' = [plan EXCEPT !.state = "APPROVED"]
        BY <1>1, <2>1
      <3> QED BY <1>0, <2>1, <3>1, PlanMoves DEF PlanStates
    <2>2. CASE plan.rev # loc[p].s
      BY <1>0, <1>1, <2>2 DEF Typed
    <2> QED BY <2>1, <2>2
  <1>6. loc[p].s = plan.rev => Certified
    BY <1>0, <1>1 DEF Knows, ReadCertified, At
  <1>7. Certified' = Certified
    BY <1>1, <1>5 DEF Certified, confirmed_intent_brief
  <1>8. Knows(p)'
    <2>1. /\ loc'[p].pc = "approved" /\ loc'[p].rev = loc[p].rev /\ loc'[p].msg = loc[p].msg
          /\ loc'[p].fresh = loc[p].fresh
      BY <1>4 DEF Lands
    <2>2. OwnLocals(p)'
      BY <1>0, <1>1, <1>5, <2>1 DEF Knows, OwnLocals, Approving, At
    <2>3. ReadStands(p)'
      BY <1>0, <1>1, <1>5, <2>1 DEF Knows, ReadStands, Approving, At
    <2>4. VerdictHeld(p)' /\ ReadCertified(p)'
      BY <2>1 DEF VerdictHeld, ReadCertified
    <2>5. Ungated(p)'
      BY <1>0, <1>1, <1>5, <2>1 DEF Knows, Ungated, At
    <2> QED BY <2>2, <2>3, <2>4, <2>5 DEF Knows
  <1>9. Shared
    <2>1. Keeps(session') /\ world <= world' /\ plan.rev <= plan'.rev
      BY <1>0, <1>1, <1>5, SessionsSame
    <2> QED BY <1>1, <1>5, <1>7, <2>1 DEF Shared, confirmed_intent_brief
  <1>10. PlanSettled'
    <2>1. plan'.state # "NONE" => run'.state # "INTERVIEWING"
      BY <1>0, <1>1, <1>5 DEF Knows, ReadCertified, At, PInv, PlanSettled
    <2>2. plan'.state \in Settled => Certified'
      BY <1>5, <1>6, <1>7 DEF PInv, PlanSettled
    <2> QED BY <1>1, <2>1, <2>2 DEF PInv, PlanSettled
  <1>11. Executed'
    BY <1>1, <1>5 DEF PInv, Executed
  <1>12. plan.state \in Settled => plan'.state \in Settled
    BY <1>5 DEF Settled
  <1> QED BY <1>1, <1>2, <1>3, <1>4, <1>5, <1>8, <1>9, <1>10, <1>11, <1>12, DecisionStep

LEMMA ReopenKeeps ==
    ASSUME PInv, NEW p \in Procs, reopen_latest_plan_for_review(p) PROVE PInv'
  <1>0. Typed /\ Knows(p)
    BY DEF PInv, TypeOK
  <1>1. /\ loc[p].pc \notin Waiting /\ (loc[p].fresh => run.state = "PLAN_REVIEW_REQUIRED")
        /\ UNCHANGED <<interview, plan, cert, session, repair, history, gated, world, used, reviewed,
                       approved>>
    BY <1>0 DEF reopen_latest_plan_for_review, At, Waiting, Knows, ReadStands, Approving
  <1>2. Bookkept
    BY <1>0, <1>1 DEF Bookkept, Typed
  <1>3. CASE loc[p].fresh /\ transition_run("PLAN_ADVERSARIAL_REVIEW") /\ Moved(p, "launch")
    <2>1. /\ "PLAN_ADVERSARIAL_REVIEW" \in RunStates \ {"INTERVIEWING", "READY_TO_EXECUTE"}
          /\ "launch" \in Plain /\ run.state # "INTERVIEWING" /\ run.state \notin Reviewing
      BY <1>1, <1>3 DEF RunStates, Plain, Reviewing
    <2> QED BY <1>1, <1>2, <1>3, <2>1, SessionsSame, OnwardStep
  <1>4. CASE Return(p) /\ UNCHANGED run
    BY <1>1, <1>2, <1>4, SessionsSame, ReturnStep
  <1> QED BY <1>3, <1>4 DEF reopen_latest_plan_for_review

LEMMA PlanApprovedKeeps ==
    ASSUME PInv, NEW p \in Procs, plan_approved(p) PROVE PInv'
  <1>0. Typed /\ LockQueue /\ Knows(p) /\ plan.rev \in Nat /\ loc \in [Procs -> Locals]
    BY DEF PInv, TypeOK, Typed
  <1>1. /\ At(p, "approved") /\ loc[p].pc \notin Waiting
        /\ UNCHANGED <<interview, plan, cert, session, repair, history, gated, world, used, reviewed>>
    BY DEF plan_approved, At, Waiting
  <1>2. CASE Return(p) /\ UNCHANGED <<run, approved>>
    <2>1. reviewed' \in BOOLEAN
      BY <1>0, <1>1 DEF Typed
    <2> QED BY <1>1, <1>2, <2>1, EarlyReturn
  <1>3. CASE /\ loc[p].fresh /\ transition_run("READY_TO_EXECUTE") /\ MovedAndDone(p)
             /\ approved' = [rev |-> loc[p].rev, by |-> loc[p].msg[1], of |-> plan.rev]
    <2>1. /\ run.state = "PLAN_REVIEW_REQUIRED" /\ loc[p].rev = plan.rev
          /\ plan.state = "APPROVED" /\ loc[p].msg \in {<<"idle", 0>>, Automatically}
      BY <1>0, <1>1, <1>3 DEF Knows, ReadStands, OwnLocals, Approving, At
    <2>2. Lands(p, "idle", 0, FALSE, NoMessage, 0) /\ OthersStale(p)
      BY <1>0, <1>3, MovedAndDoneEffect
    <2>3. run' \in [state : RunStates, paused : BOOLEAN] /\ run'.state = "READY_TO_EXECUTE"
      BY <1>0, <1>3, RunTyped DEF RunStates
    <2>4. /\ loc[p].msg[1] \in {"idle", "approve_automatic"}
          /\ loc[p].msg[1] = "idle" \/ loc[p].msg = Automatically
      BY <2>1 DEF Automatically
    <2>5. /\ approved' \in [rev : Nat, by : {"nobody", "idle", "approve_automatic"}, of : Nat]
          /\ approved'.rev = plan.rev /\ approved'.of = plan.rev /\ approved'.by = loc[p].msg[1]
      BY <1>0, <1>3, <2>1, <2>4
    <2>6. Typed'
      <3>1. loc' \in [Procs -> Locals] /\ queue' \in Seq(Procs)
        BY <2>2 DEF Lands
      <3> QED BY <1>0, <1>1, <2>3, <2>5, <3>1 DEF Typed
    <2>7. LockQueue'
      <3>1. \A q \in Procs \ {p} : loc'[q].pc = loc[q].pc
        BY <2>2 DEF OthersStale
      <3>2. "idle" \in Points /\ "idle" \notin Holding
        BY DEF Points, Unlocked, Holding
      <3> QED BY <1>0, <1>1, <2>2, <3>1, <3>2, LockStep
    <2>8. Keeps(session') /\ OneReviewer'
      BY <1>1, SessionsSame
    <2>9. Shared
      BY <1>0, <1>1, <2>8, SharedSame
    <2>10. \A q \in Procs \ {p} : Knows(q)'
      <3>1. \A q \in Procs \ {p} : Kept(q)
        BY <1>1, <2>1, <2>2 DEF Kept, OthersStale, Reviewing
      <3> QED BY <2>6, <2>9, <3>1, BystanderKeeps
    <2>11. Knows(p)'
      <3>1. loc'[p].pc = "idle"
        BY <2>2 DEF Lands
      <3> QED BY <3>1
          DEF Knows, OwnLocals, ReadCertified, ReadStands, VerdictHeld, Ungated, Approving
    <2>12. Executed'
      <3>1. world = 0 /\ plan.rev \in gated => loc[p].msg # Automatically
        BY <1>0, <1>1, <2>1 DEF Knows, Ungated, At
      <3> QED BY <1>1, <2>1, <2>4, <2>5, <3>1 DEF Executed
    <2>13. Certified' = Certified
      BY <1>1 DEF Certified, confirmed_intent_brief
    <2>14. BriefSettled' /\ PlanSettled'
      BY <1>1, <2>1, <2>3, <2>13 DEF PInv, BriefSettled, PlanSettled
    <2> QED BY <2>6, <2>7, <2>8, <2>10, <2>11, <2>12, <2>14 DEF PInv, TypeOK
  <1> QED BY <1>2, <1>3 DEF plan_approved

-----------------------------------------------------------------------------
(* The operator's decisions.                                               *)
LEMMA ChangesKeep ==
    ASSUME PInv, request_plan_changes PROVE PInv'
  <1>0. /\ Typed /\ plan.rev \in Nat /\ world \in Nat /\ 0 \in Nat /\ "user" \in Procs
        /\ NoMessage \in Messages
    BY Vocabulary DEF PInv, TypeOK, Typed, Procs
  <1>1. /\ Holds("user") /\ ChangesAllowed /\ Record("human", plan.rev, <<"human", 1>>)
        /\ plan' = [plan EXCEPT !.state = "REVISION_REQUIRED"]
        /\ Begin("user", "changes", plan.rev, NoMessage, 0)
        /\ UNCHANGED <<run, interview, cert, session, repair, gated, world, used, reviewed, approved>>
    BY DEF request_plan_changes
  <1>2. "changes" \in Points
    BY DEF Points, Holding
  <1>3. Lands("user", "changes", plan.rev, TRUE, NoMessage, 0) /\ Others("user")
    BY <1>0, <1>1, <1>2, BeginEffect
  <1>4. /\ plan' \in [rev : Nat, state : PlanStates] /\ plan'.rev = plan.rev
        /\ plan'.state = "REVISION_REQUIRED"
    BY <1>0, <1>1, PlanMoves DEF PlanStates
  <1>5. /\ history' \in Seq(Records)
        /\ \A i \in DOMAIN history : i \in DOMAIN history' /\ history'[i] = history[i]
    BY <1>0, <1>1, RecordKept
  <1>6. /\ run.state \in {"PLAN_REVIEW_REQUIRED", "plan_review_deadlocked",
                          "plan_review_budget_exhausted"}
        /\ plan.state # "APPROVED"
    BY <1>1 DEF ChangesAllowed
  <1>7. Knows("user")'
    <2>1. loc'["user"].pc = "changes"
      BY <1>3 DEF Lands
    <2> QED BY <1>1, <1>6, <2>1
        DEF Knows, OwnLocals, ReadCertified, ReadStands, VerdictHeld, Ungated,
         Approving
  <1>8. Shared
    <2>1. Keeps(session') /\ world <= world' /\ plan.rev <= plan'.rev
      BY <1>0, <1>1, <1>4, SessionsSame
    <2>2. Certified => Certified'
      BY <1>1, <1>4, <1>5 DEF Certified, confirmed_intent_brief
    <2> QED BY <1>1, <1>4, <1>5, <1>6, <2>1, <2>2 DEF Shared, confirmed_intent_brief
  <1>9. PlanSettled' /\ Executed'
    BY <1>1, <1>4, <1>6 DEF PInv, PlanSettled, Executed, Settled
  <1>10. /\ reviewed' \in BOOLEAN /\ cert' \in [rev : Nat, world : Nat, brief : Nat]
         /\ gated' \in SUBSET Nat
    BY <1>0, <1>1 DEF Typed
  <1> QED BY <1>0, <1>1, <1>2, <1>3, <1>4, <1>5, <1>7, <1>8, <1>9, <1>10, DecisionStep

LEMMA ResumeKeeps ==
    ASSUME PInv, resume_blocked_plan_review PROVE PInv'
  <1>0. /\ Typed /\ plan.rev \in Nat /\ world \in Nat /\ 0 \in Nat /\ "user" \in Procs
        /\ NoMessage \in Messages
    BY Vocabulary DEF PInv, TypeOK, Typed, Procs
  <1>1. /\ Holds("user") /\ run.state = "plan_review_budget_exhausted" /\ plan.state = "PROPOSED"
        /\ gated' = gated \cup {plan.rev} /\ Begin("user", "resume", plan.rev, NoMessage, 0)
        /\ UNCHANGED <<run, interview, plan, cert, session, repair, history, world, used,
                       reviewed, approved>>
    BY DEF resume_blocked_plan_review, ResumeAllowed
  <1>2. "resume" \in Points
    BY DEF Points, Holding
  <1>3. Lands("user", "resume", plan.rev, TRUE, NoMessage, 0) /\ Others("user")
    BY <1>0, <1>1, <1>2, BeginEffect
  <1>4. Knows("user")'
    <2>1. loc'["user"].pc = "resume"
      BY <1>3 DEF Lands
    <2> QED BY <1>1, <2>1
        DEF Knows, OwnLocals, ReadCertified, ReadStands, VerdictHeld, Ungated, Approving
  <1>5. Shared
    <2>1. Keeps(session') /\ world <= world' /\ plan.rev <= plan'.rev
      BY <1>0, <1>1, SessionsSame
    <2>2. Certified' = Certified
      BY <1>1 DEF Certified, confirmed_intent_brief
    <2> QED BY <1>1, <2>1, <2>2 DEF Shared, confirmed_intent_brief
  <1>6. PlanSettled' /\ Executed'
    BY <1>1 DEF PInv, PlanSettled, Executed, Settled
  <1>7. /\ reviewed' \in BOOLEAN /\ cert' \in [rev : Nat, world : Nat, brief : Nat]
        /\ gated' \in SUBSET Nat /\ history' \in Seq(Records)
        /\ plan' \in [rev : Nat, state : PlanStates]
    BY <1>0, <1>1 DEF Typed
  <1> QED BY <1>0, <1>1, <1>2, <1>3, <1>4, <1>5, <1>6, <1>7, DecisionStep

LEMMA OperatorMoves ==
    ASSUME PInv, changes_requested \/ review_resumed PROVE PInv'
  <1>0. Typed /\ Knows("user") /\ "user" \in Procs
    BY DEF PInv, TypeOK, Procs
  <1>1. /\ loc["user"].pc \in {"changes", "resume"} /\ loc["user"].pc \notin Waiting
        /\ UNCHANGED <<interview, plan, cert, session, repair, history, gated, world, used, reviewed,
                       approved>>
    BY DEF changes_requested, review_resumed, At, Waiting
  <1>2. /\ Holds("user") /\ (loc["user"].fresh => run.state # "INTERVIEWING")
    BY <1>0, <1>1 DEF PInv, TypeOK, LockQueue, Holding, Knows, ReadStands
  <1>3. Bookkept
    BY <1>0, <1>1 DEF Bookkept, Typed
  <1>4. CASE Return("user") /\ UNCHANGED run
    BY <1>0, <1>1, <1>3, <1>4, SessionsSame, ReturnStep
  <1>5. ASSUME NEW x \in {"PLAN_REVISION_REQUIRED", "PLAN_ADVERSARIAL_REVIEW"},
               NEW pc \in {"revise", "launch"}, loc["user"].fresh,
               transition_run(x), Moved("user", pc)
        PROVE  PInv'
    <2>1. x \in RunStates \ {"INTERVIEWING", "READY_TO_EXECUTE"} /\ pc \in Plain
      BY DEF RunStates, Plain
    <2> QED BY <1>0, <1>1, <1>2, <1>3, <1>5, <2>1, SessionsSame, OnwardStep
  <1> QED BY <1>4, <1>5 DEF changes_requested, review_resumed

-----------------------------------------------------------------------------
(* What each program knows holds from the start and is never lost.         *)
LEMMA InitKnows == Init => PInv
  <1> SUFFICES ASSUME Init PROVE PInv
    OBVIOUS
  <1>1. /\ run \in [state : RunStates, paused : BOOLEAN]
        /\ run.state = IF Interviewed THEN "INTERVIEWING" ELSE "READY_FOR_ARCHITECTURE"
    BY DEF Init, RunStates
  <1>2. /\ interview \in Interviews /\ interview.confirmed = 0 /\ interview.shown = 0
        /\ interview.status = IF Interviewed THEN "NotStarted" ELSE "Absent"
    BY DEF Init, Interviews
  <1>3. /\ plan \in [rev : Nat, state : PlanStates] /\ plan.state = "NONE"
        /\ cert \in [rev : Nat, world : Nat, brief : Nat] /\ cert.world = 0 /\ world = 0
        /\ repair \in [attempts : Nat, pending : Nat]
        /\ used \in [commands : Nat, failures : Nat, invalid : Nat] /\ reviewed \in BOOLEAN
        /\ approved \in [rev : Nat, by : {"nobody", "idle", "approve_automatic"}, of : Nat]
        /\ session = <<>> /\ history = <<>> /\ gated = {}
    BY DEF Init, PlanStates
  <1>4. /\ loc \in [Procs -> Locals]
        /\ \A q \in Procs : loc[q].pc = IF q = "user" /\ ~Interviewed THEN "architecture"
                                        ELSE "idle"
    <2>1. [Idle EXCEPT !.pc = "architecture"] \in Locals
      BY IdleTyped DEF Locals, Points, Waiting
    <2>2. /\ Idle.pc = "idle" /\ [Idle EXCEPT !.pc = "architecture"].pc = "architecture"
      BY DEF Idle
    <2>3. loc = [p \in Procs |-> IF p = "user" /\ ~Interviewed
                                 THEN [Idle EXCEPT !.pc = "architecture"] ELSE Idle]
      BY DEF Init
    <2> QED BY <2>1, <2>2, <2>3, IdleTyped
  <1>5. "user" \in Procs /\ queue = IF Interviewed THEN <<>> ELSE <<"user">>
    BY DEF Init, Procs
  <1>6. queue \in Seq(Procs)
    BY <1>5
  <1>7. Typed
    BY <1>1, <1>2, <1>3, <1>4, <1>6 DEF Typed, Interviews
  <1>8. LockQueue
    <2>1. CASE Interviewed
      <3>1. queue = <<>> /\ \A q \in Procs : loc[q].pc = "idle"
        BY <1>4, <1>5, <2>1
      <3> QED BY <3>1 DEF LockQueue, Queued, Waiting, Holding
    <2>2. CASE ~Interviewed
      <3>1. /\ queue = <<"user">>
            /\ \A q \in Procs : loc[q].pc = IF q = "user" THEN "architecture" ELSE "idle"
        BY <1>4, <1>5, <2>2
      <3>2. DOMAIN queue = {1} /\ queue[1] = "user"
        BY <3>1
      <3>3. \A q \in Procs : Queued(q) <=> q = "user"
        BY <3>2 DEF Queued
      <3> QED BY <3>1, <3>2, <3>3 DEF LockQueue, Waiting, Holding, Unlocked
    <2> QED BY <2>1, <2>2
  <1>9. BriefSettled /\ PlanSettled /\ Executed
    BY <1>1, <1>2, <1>3 DEF BriefSettled, PlanSettled, Executed, Over, Settled
  <1>10. OneReviewer
    BY <1>3 DEF OneReviewer
  <1>11. \A q \in Procs : Knows(q)
    BY <1>4 DEF Knows, OwnLocals, ReadCertified, ReadStands, VerdictHeld, Ungated, Approving
  <1> QED BY <1>7, <1>8, <1>9, <1>10, <1>11 DEF PInv, TypeOK

LEMMA NextKeeps == PInv /\ [Next]_vars => PInv'
  <1> SUFFICES ASSUME PInv, [Next]_vars PROVE PInv'
    OBVIOUS
  <1>1. CASE Interview
    BY <1>1, InterviewKeeps
  <1>2. CASE Notification
    BY <1>2, NotificationKeeps
  <1>3. CASE Operator
    <2>1. CASE approve_plan("user", "idle")
      BY <2>1, ApproveKeeps DEF Procs
    <2>2. CASE set_scheduler_paused
      BY <2>2, EnvironmentKeeps
    <2>3. CASE Ask \/ AskRefused
      BY <2>3, AskingKeeps
    <2> QED BY <1>3, <2>1, <2>2, <2>3, ChangesKeep, ResumeKeeps, OperatorMoves DEF Operator
  <1>4. CASE maintenance_tick
    BY <1>4, AskingKeeps
  <1>5. ASSUME NEW p \in Procs, Program(p) PROVE PInv'
    <2>1. CASE \/ start_architecture(p) \/ launch_architect(p) \/ recover_architecture(p)
               \/ submit_plan(p) \/ plan_submitted(p)
               \/ start_plan_revision(p) \/ launch_reviser(p)
      BY <2>1, ArchitectureBegins, ArchitectureLaunched, ArchitectureEnds, SubmitKeeps
    <2>2. CASE \/ recover_completed_plan_review(p) \/ launch_plan_reviewer(p)
               \/ apply_plan_review_verdict(p) \/ certify_latest_plan(p) \/ verdict_applied(p)
      BY <2>2, ReviewLaunched, ApplyKeeps, CertifyKeeps, VerdictKeeps
    <2>3. CASE \/ approve_plan(p, "approve_automatic") \/ reopen_latest_plan_for_review(p)
               \/ approve_latest_plan(p) \/ latest_plan_approved(p) \/ plan_approved(p)
      BY <2>3, ApproveKeeps, ReopenKeeps, ApproveLatestKeeps, LatestApprovedKeeps,
         PlanApprovedKeeps
    <2> QED BY <1>5, <2>1, <2>2, <2>3 DEF Program
  <1>6. CASE BindingsChange \/ reconcile_orphaned_sessions \/ Crash
    BY <1>6, EnvironmentKeeps
  <1>7. CASE UNCHANGED vars
    <2>1. /\ UNCHANGED <<run, loc, queue, interview, plan, cert, history, gated, world, approved>>
          /\ UNCHANGED <<used, repair, reviewed, session>>
      BY <1>7 DEF vars
    <2>2. Bookkept
      BY <2>1 DEF PInv, TypeOK, Typed, Bookkept
    <2> QED BY <2>1, <2>2, SessionsSame, SessionStep
  <1> QED BY <1>1, <1>2, <1>3, <1>4, <1>5, <1>6, <1>7 DEF Next

(* Whatever pump, maintenance loop, operator, crashes and the changing      *)
(* bindings do, each program of the planner still knows what its next       *)
(* transaction relies on: the inductive invariant of planning.              *)
THEOREM PlanKnown == Spec => []PInv
  BY InitKnows, NextKeeps, PTL DEF Spec

(* At most one reviewer is active, though three callers launch them.        *)
LEMMA OneReviewerCounted ==
    ASSUME Typed, OneReviewer PROVE OneActiveReviewer
  <1> DEFINE S == {i \in Role("reviewer") : Active(session[i])}
  <1>1. \A i, j \in S : i = j
    BY DEF OneReviewer, Role
  <1>2. CASE S = {}
    BY <1>2, FS_EmptySet DEF OneActiveReviewer
  <1>3. CASE S # {}
    <2>1. PICK i \in S : TRUE
      BY <1>3
    <2>2. S = {i}
      BY <1>1, <2>1
    <2>3. Cardinality(S) = 1
      <3> HIDE DEF S
      <3> QED BY <2>2, FS_Singleton
    <2> QED BY <2>3 DEF OneActiveReviewer
  <1> QED BY <1>2, <1>3

(* ApprovalEarned, for any findings and any bounds: what is executed is the *)
(* revision whose digest was approved, accepted by a recorded review and    *)
(* certified with the brief the human confirmed (approve_plan holds no lock *)
(* and commits in two transactions); at most one reviewer works at a time;  *)
(* while the bindings stand, a resumed review was approved by a human.      *)
THEOREM ApprovalEarnedHolds == Spec => []ApprovalEarned
  <1>1. PInv => ApprovalEarned
    <2> SUFFICES ASSUME PInv PROVE ApprovalEarned
      OBVIOUS
    <2>1. TypeOK /\ OneActiveReviewer
      BY OneReviewerCounted DEF PInv, TypeOK
    <2>2. ApprovedPlanCertified
      <3> SUFFICES ASSUME run.state = "READY_TO_EXECUTE" PROVE ApprovedPlanCertified
        BY DEF ApprovedPlanCertified
      <3>1. plan.state = "APPROVED" /\ approved.rev = approved.of
        BY DEF PInv, Executed
      <3>2. Certified
        BY <3>1 DEF PInv, PlanSettled, Settled
      <3>3. /\ confirmed_intent_brief = interview.confirmed
            /\ interview.confirmed = interview.shown \/ interview.confirmed = 0
        BY DEF PInv, BriefSettled, confirmed_intent_brief
      <3> QED BY <3>1, <3>2, <3>3 DEF ApprovedPlanCertified, Certified
    <2>3. ResumedReviewNeedsHuman
      BY DEF PInv, Executed, ResumedReviewNeedsHuman
    <2> QED BY <2>1, <2>2, <2>3 DEF ApprovalEarned
  <1> QED BY <1>1, PlanKnown, PTL

=============================================================================
