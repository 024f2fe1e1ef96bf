--------------------------- MODULE GovernorProofs ---------------------------
(***************************************************************************)
(* Custody of a governed task, for every set of milestones, all budgets    *)
(* and any number of turns, messages and faults.                           *)
(***************************************************************************)
EXTENDS Governor, SequenceTheorems, TLAPS

(* The pump at the end of a turn, until it starts another one or gives up.  *)
Busy == {"ended", "candidate", "diff", "checkpoint", "prepare", "start"}
(* The pump while the attempt is open.                                      *)
Working == {"candidate", "diff", "checkpoint", "prepare", "start", "attach", "keys",
            "preserve"}

NoEnd == \A i \in 1..Len(wire) : wire[i].kind # "done"
OneEnd == \A i, j \in 1..Len(wire) : wire[i].kind = "done" /\ wire[j].kind = "done" => i = j

(* A turn runs, or its end is on the wire, or the pump handles that end:    *)
(* one of the three, so that whoever releases the leases knows that no turn *)
(* runs but one whose start was never answered.                             *)
EndsOnce ==
    /\ OneEnd
    /\ live # 0 \/ pump.at \in Busy => NoEnd
    /\ pump.at \in Busy => live = 0
    /\ pump.at = "preserve" /\ live # 0 => lost
    /\ task = "IMPLEMENTING" \/ pump.at \in Working => leases

LedgerKept ==
    /\ LedgerMonotone
    /\ ~HasLedger => done = {}

(* What was used since the fingerprint changed is what the envelope counts, *)
(* once the window was not opened for a mere text.                          *)
Window ==
    /\ NoProgressWindow
    /\ gov.envelope <= gov.used
    /\ gov.sig \subseteq Fingerprints => idle = gov.used - gov.envelope
    /\ pump.at = "prepare" => /\ pump.budget \in Nat /\ pump.budget >= MinTokens
                              /\ HasLedger => idle + pump.budget <= GoalBudget

(* What the programs carry from one step to the next.                       *)
Carried ==
    /\ pump.at \in {"ended", "attach"} => pump.turn \in Nat
    /\ watch.at \in {"judge", "stop", "steer"} => watch.turn \in Nat \ {0}
    /\ watch.at \in {"steer", "steered"} => watch.due \in Percents

GInv == TypeOK /\ LedgerKept /\ Window /\ EndsOnce /\ ReleasedMeansEnded /\ Carried

-----------------------------------------------------------------------------
(* The wire                                                                *)
LEMMA PostOther ==
    ASSUME wire \in Seq(Notes), NEW n \in Notes, n.kind # "done", Post(n)
    PROVE  wire' \in Seq(Notes) /\ (NoEnd => NoEnd') /\ (OneEnd => OneEnd')
  <1>1. /\ wire' \in Seq(Notes) /\ Len(wire') = Len(wire) + 1 /\ Len(wire) \in Nat
        /\ \A i \in 1..Len(wire) : wire'[i] = wire[i]
        /\ wire'[Len(wire) + 1] = n
    BY AppendProperties DEF Post
  <1>2. NoEnd => NoEnd'
    BY <1>1 DEF NoEnd
  <1>3. OneEnd => OneEnd'
    BY <1>1 DEF OneEnd
  <1> QED BY <1>1, <1>2, <1>3

LEMMA PostEnd ==
    ASSUME wire \in Seq(Notes), NEW n \in Notes, Post(n), NoEnd
    PROVE  wire' \in Seq(Notes) /\ OneEnd'
  <1>1. /\ wire' \in Seq(Notes) /\ Len(wire') = Len(wire) + 1 /\ Len(wire) \in Nat
        /\ \A i \in 1..Len(wire) : wire'[i] = wire[i]
    BY AppendProperties DEF Post
  <1>2. OneEnd'
    BY <1>1 DEF OneEnd, NoEnd
  <1> QED BY <1>1, <1>2

LEMMA TakeNote ==
    ASSUME wire \in Seq(Notes), wire # <<>>, wire' = Tail(wire)
    PROVE  /\ wire' \in Seq(Notes) /\ Head(wire) \in Notes
           /\ (NoEnd => NoEnd' /\ Head(wire).kind # "done")
           /\ (OneEnd => OneEnd')
           /\ (OneEnd /\ Head(wire).kind = "done" => NoEnd')
  <1>1. /\ wire' \in Seq(Notes) /\ Head(wire) \in Notes /\ Len(wire) \in Nat \ {0}
        /\ Len(wire') = Len(wire) - 1 /\ Head(wire) = wire[1]
        /\ \A i \in 1..Len(wire') : wire'[i] = wire[i + 1]
    BY HeadTailProperties, EmptySeq
  <1>2. NoEnd => NoEnd' /\ Head(wire).kind # "done"
    BY <1>1 DEF NoEnd
  <1>3. OneEnd => OneEnd'
    BY <1>1 DEF OneEnd
  <1>4. OneEnd /\ Head(wire).kind = "done" => NoEnd'
    BY <1>1 DEF NoEnd, OneEnd
  <1> QED BY <1>1, <1>2, <1>3, <1>4

(* The end of a turn that runs.                                             *)
LEMMA EndPosted ==
    ASSUME GInv, live # 0, NEW s \in {"completed", "interrupted", "failed"}, Ended(s)
    PROVE  /\ wire' \in Seq(Notes) /\ OneEnd' /\ live' = 0 /\ pump.at \notin Busy
  <1>1. NoEnd /\ pump.at \notin Busy /\ live \in Nat /\ wire \in Seq(Notes)
    BY DEF GInv, EndsOnce, TypeOK
  <1>2. [kind |-> "done", turn |-> live, status |-> s] \in Notes
    BY <1>1 DEF Notes
  <1> QED
    BY <1>1, <1>2, PostEnd DEF Ended

-----------------------------------------------------------------------------
(* Leases                                                                  *)
(* The pump takes a notification that is not an end, or nothing at all.     *)
LEMMA EndsOnceTaken ==
    ASSUME GInv, pump.at = "idle", wire # <<>>, wire' = Tail(wire),
           UNCHANGED <<live, pump, task, leases, lost>>
    PROVE  EndsOnce' /\ ReleasedMeansEnded'
  <1>1. (NoEnd => NoEnd') /\ (OneEnd => OneEnd')
    BY TakeNote DEF GInv, TypeOK
  <1> QED
    BY <1>1 DEF GInv, EndsOnce, ReleasedMeansEnded

(* The attempt stays open while the pump goes on.                           *)
LEMMA EndsOnceWorking ==
    ASSUME GInv, pump.at \in Busy, pump'.at \in Busy \cup {"preserve"},
           leases, UNCHANGED <<live, wire, task, leases, lost>>
    PROVE  EndsOnce' /\ ReleasedMeansEnded'
  BY DEF GInv, EndsOnce, ReleasedMeansEnded, OneEnd, NoEnd, Busy, Working

(* Nothing of it moves.                                                     *)
LEMMA EndsOnceSame ==
    ASSUME GInv, UNCHANGED <<live, wire, pump, task, leases, lost>>
    PROVE  EndsOnce' /\ ReleasedMeansEnded'
  BY DEF GInv, EndsOnce, ReleasedMeansEnded, OneEnd, NoEnd

(* The turn that runs ends while the pump is not at the end of one.         *)
LEMMA EndsOnceEnded ==
    ASSUME GInv, live # 0, NEW s \in {"completed", "interrupted", "failed"}, Ended(s),
           UNCHANGED <<pump, task, leases, lost>>
    PROVE  EndsOnce' /\ ReleasedMeansEnded'
  <1>1. OneEnd' /\ live' = 0 /\ pump.at \notin Busy
    BY EndPosted
  <1> QED
    BY <1>1 DEF GInv, EndsOnce, ReleasedMeansEnded

(* The leases are released at the end of a turn or of an attempt.           *)
LEMMA EndsOnceClosed ==
    ASSUME GInv, pump.at \in Busy \cup {"preserve"},
           NEW t, t # "IMPLEMENTING", NEW a, Closes(t, a), UNCHANGED <<live, wire, lost>>
    PROVE  EndsOnce' /\ ReleasedMeansEnded'
  <1>1. task' = t /\ leases' = FALSE /\ pump'.at = "idle"
    BY DEF Closes, PumpIdle
  <1>2. OneEnd' /\ (live # 0 => NoEnd')
    BY DEF GInv, EndsOnce, OneEnd, NoEnd
  <1>3. live # 0 => lost
    BY DEF GInv, EndsOnce
  <1> QED
    BY <1>1, <1>2, <1>3 DEF EndsOnce, ReleasedMeansEnded, Busy, Working

LEMMA EndsKept ==
    ASSUME GInv, Next
    PROVE  EndsOnce' /\ ReleasedMeansEnded'
  <1>0. wire \in Seq(Notes) /\ live \in Nat /\ spent.turns \in Nat
    BY DEF GInv, TypeOK
  <1>1. CASE persist_governor_checkpoint
    BY <1>1, EndsOnceTaken DEF persist_governor_checkpoint, At
  <1>2. CASE PumpUsage
    BY <1>2, EndsOnceTaken DEF PumpUsage, At
  <1>3. CASE PumpStarted
    BY <1>3, EndsOnceTaken DEF PumpStarted, At
  <1>4. CASE project_turn_completed
    <2>1. OneEnd' /\ NoEnd' /\ ~NoEnd
      BY <1>4, <1>0, TakeNote DEF project_turn_completed, GInv, EndsOnce
    <2>2. live = 0 /\ live' = 0 /\ pump'.at = "ended" /\ UNCHANGED <<task, leases>>
      BY <2>1, <1>4 DEF project_turn_completed, GInv, EndsOnce
    <2> QED
      BY <2>1, <2>2 DEF GInv, EndsOnce, ReleasedMeansEnded, Busy, Working
  <1>5. CASE handle_turn_failed
    <2>1. pump.at \in Busy /\ UNCHANGED <<live, wire, lost>>
      BY <1>5 DEF handle_turn_failed, At, Busy
    <2>2. CASE task = "IMPLEMENTING"
      BY <2>1, <2>2, <1>5, EndsOnceClosed DEF handle_turn_failed
    <2>3. CASE task # "IMPLEMENTING"
      BY <2>1, <2>3, <1>5, EndsOnceClosed DEF handle_turn_failed
    <2> QED BY <2>2, <2>3
  <1>6. CASE handle_turn_completed
    <2>1. pump.at \in Busy /\ UNCHANGED <<live, wire, task, leases, lost>>
      BY <1>6 DEF handle_turn_completed, At, Busy
    <2>2. CASE task = "IMPLEMENTING"
      <3>1. pump'.at = "candidate" /\ leases
        BY <2>2, <1>6 DEF handle_turn_completed, GInv, EndsOnce
      <3> QED
        BY <2>1, <3>1, EndsOnceWorking DEF Busy
    <2>3. CASE task # "IMPLEMENTING"
      <3>1. pump'.at = "idle"
        BY <2>3, <1>6 DEF handle_turn_completed, PumpIdle
      <3> QED
        BY <2>1, <3>1 DEF GInv, EndsOnce, ReleasedMeansEnded, OneEnd, NoEnd, Busy, Working
    <2> QED BY <2>2, <2>3
  <1>7. CASE recover_governor_candidate
    <2>1. pump.at = "candidate" /\ pump'.at = "diff"
          /\ UNCHANGED <<live, wire, task, leases, lost>>
      BY <1>7 DEF recover_governor_candidate, At
    <2> QED
      BY <2>1, EndsOnceWorking DEF Busy, Working, GInv, EndsOnce
  <1>8. CASE finalize_worker
    <2>1. pump.at = "diff" /\ UNCHANGED <<live, wire, lost>> /\ leases
      BY <1>8 DEF finalize_worker, At, GInv, EndsOnce, Working
    <2>2. CASE Closes("NEEDS_HELP", "FAILED")
      BY <2>1, <2>2, EndsOnceClosed DEF Busy
    <2>3. CASE task' = "REVIEW_READY" /\ PumpIdle /\ UNCHANGED leases
      BY <2>1, <2>3
      DEF PumpIdle, GInv, EndsOnce, ReleasedMeansEnded, OneEnd, NoEnd, Busy, Working
    <2>4. CASE pump' = [at |-> "checkpoint"] /\ UNCHANGED <<task, gov, leases>>
      BY <2>1, <2>4, EndsOnceWorking DEF Busy
    <2> QED
      BY <1>8, <2>2, <2>3, <2>4 DEF finalize_worker
  <1>9. CASE finalize_governor_checkpoint
    <2>1. pump.at = "checkpoint" /\ UNCHANGED <<live, wire, task, leases, lost>> /\ leases
      BY <1>9 DEF finalize_governor_checkpoint, At, GInv, EndsOnce, Working
    <2>2. pump'.at \in {"prepare", "preserve"}
      BY <1>9 DEF finalize_governor_checkpoint
    <2> QED
      BY <2>1, <2>2, EndsOnceWorking DEF Busy
  <1>10. CASE PreserveCheckpoint
    BY <1>10, EndsOnceClosed DEF PreserveCheckpoint, At
  <1>11. CASE prepare_agent_continuation
    <2>1. pump.at = "prepare" /\ UNCHANGED <<live, wire, task, leases, lost>> /\ leases
          /\ pump'.at \in {"start", "preserve"}
      BY <1>11 DEF prepare_agent_continuation, At, GInv, EndsOnce, Working
    <2> QED
      BY <2>1, EndsOnceWorking DEF Busy
  <1>12. CASE continue_governor_thread
    <2> DEFINE t == spent.turns + 1
    <2>1. /\ pump.at = "start" /\ leases /\ NoEnd /\ OneEnd /\ live = 0
          /\ UNCHANGED <<task, leases>>
      BY <1>12 DEF continue_governor_thread, At, GInv, EndsOnce, Busy, Working
    <2>2. [kind |-> "started", turn |-> t] \in Notes
      BY <1>0 DEF Notes
    <2>3. CASE Post([kind |-> "started", turn |-> t]) /\ pump' = [at |-> "attach", turn |-> t]
               /\ UNCHANGED lost
      <3>1. NoEnd' /\ OneEnd'
        BY <1>0, <2>1, <2>2, <2>3, PostOther
      <3> QED
        BY <2>1, <2>3, <3>1 DEF EndsOnce, ReleasedMeansEnded, Busy, Working
    <2>4. CASE Post([kind |-> "started", turn |-> t]) /\ pump' = [at |-> "preserve"]
               /\ lost' = TRUE
      <3>1. NoEnd' /\ OneEnd'
        BY <1>0, <2>1, <2>2, <2>4, PostOther
      <3> QED
        BY <2>1, <2>4, <3>1 DEF EndsOnce, ReleasedMeansEnded, Busy, Working
    <2>5. CASE pump' = [at |-> "preserve"] /\ UNCHANGED <<live, wire, lost>>
      BY <2>1, <2>5, EndsOnceWorking DEF Busy
    <2> QED
      BY <1>12, <2>3, <2>4, <2>5 DEF continue_governor_thread
  <1>13. CASE AttachContinuation \/ DeleteKeys
    <2>1. /\ pump.at \in {"attach", "keys"} /\ pump'.at \in {"keys", "idle"}
          /\ UNCHANGED <<live, wire, task, leases, lost>> /\ leases
      BY <1>13 DEF AttachContinuation, DeleteKeys, PumpIdle, At, GInv, EndsOnce, Working
    <2> QED
      BY <2>1 DEF GInv, EndsOnce, ReleasedMeansEnded, OneEnd, NoEnd, Busy, Working
  <1>14. CASE controller_handoff
    <2>1. CASE Ended("interrupted")
      BY <1>14, <2>1, EndsOnceEnded DEF controller_handoff
    <2>2. CASE UNCHANGED <<live, wire, gov>>
      BY <1>14, <2>2, EndsOnceSame DEF controller_handoff
    <2> QED
      BY <1>14, <2>1, <2>2 DEF controller_handoff
  <1>15. CASE ReadGovernor \/ JudgeGovernor \/ RecordHardStop \/ SteerGovernor
              \/ RecordSteering
    BY <1>15, EndsOnceSame
    DEF ReadGovernor, JudgeGovernor, RecordHardStop, SteerGovernor, RecordSteering
  <1>16. CASE HardStop
    <2>1. watch.turn # 0 /\ UNCHANGED <<pump, task, leases, lost>>
      BY <1>16 DEF HardStop, At, GInv, Carried
    <2>2. CASE live = watch.turn /\ Ended("interrupted")
      BY <2>1, <2>2, EndsOnceEnded
    <2>3. CASE UNCHANGED <<live, wire>>
      BY <2>1, <2>3, EndsOnceSame
    <2> QED
      BY <1>16, <2>2, <2>3 DEF HardStop
  <1>17. CASE ServerReports
    <2>1. live # 0 /\ UNCHANGED <<live, pump, task, leases, lost>>
      BY <1>17 DEF ServerReports
    <2>2. PICK k \in {"usage", "message"} : Post([kind |-> k, turn |-> live])
      BY <1>17 DEF ServerReports
    <2>3. [kind |-> k, turn |-> live] \in Notes
      BY <1>0 DEF Notes
    <2>4. (NoEnd => NoEnd') /\ (OneEnd => OneEnd')
      BY <1>0, <2>2, <2>3, PostOther
    <2> QED
      BY <2>1, <2>4 DEF GInv, EndsOnce, ReleasedMeansEnded
  <1>18. CASE ServerEndsTurn
    BY <1>18, EndsOnceEnded DEF ServerEndsTurn
  <1>19. CASE schedule_governor_runtime_recovery
    <2>1. /\ live' = 0 /\ wire' = <<>> /\ pump'.at = "idle" /\ UNCHANGED leases
          /\ task' = IF task \in {"IMPLEMENTING", "REVIEW_READY"} THEN "STALLED" ELSE task
      BY <1>19 DEF schedule_governor_runtime_recovery, PumpIdle
    <2>2. OneEnd'
      BY <2>1 DEF OneEnd
    <2> QED
      BY <2>1, <2>2 DEF EndsOnce, ReleasedMeansEnded, Busy, Working
  <1> QED
    BY <1>1, <1>2, <1>3, <1>4, <1>5, <1>6, <1>7, <1>8, <1>9, <1>10, <1>11, <1>12, <1>13,
       <1>14, <1>15, <1>16, <1>17, <1>18, <1>19 DEF Next

-----------------------------------------------------------------------------
(* The no-progress window                                                  *)
LEMMA WindowSame ==
    ASSUME GInv, UNCHANGED idle, gov'.used = gov.used, gov'.envelope = gov.envelope,
           gov'.sig = gov.sig,
           \/ UNCHANGED <<pump, ledger>> /\ gov'.budget = gov.budget
           \/ pump'.at \notin {"prepare", "start"}
    PROVE  Window'
  BY DEF GInv, Window, NoProgressWindow, At, HasLedger

LEMMA SignatureTyped ==
    ASSUME GInv
    PROVE  /\ HasLedger => governor_progress_fingerprint \in Fingerprints
           /\ Signature \subseteq Fingerprints \cup Texts
  <1>1. ASSUME HasLedger PROVE governor_progress_fingerprint \in Fingerprints
    <2>1. ledger.cp \in Ledgers
      BY <1>1 DEF GInv, TypeOK, LedgerTyped, HasLedger, NoLedger
    <2> QED BY <2>1 DEF governor_progress_fingerprint, Fingerprints, Ledgers
  <1>2. gov.text \subseteq Texts
    BY DEF GInv, TypeOK, Session
  <1> QED BY <1>1, <1>2 DEF Signature

(* The window that is left is what the next turn may use.                   *)
LEMMA WindowLeft ==
    ASSUME NEW used \in Nat, NEW base \in Nat, base <= used,
           Less(GoalBudget, Less(used, base)) > MinTokens
    PROVE  LET b == Least(TurnBudget, Less(GoalBudget, Less(used, base)))
           IN  b \in Nat /\ b >= MinTokens /\ used - base + b <= GoalBudget
  BY BudgetAssumption DEF Less, Least

LEMMA WindowKept ==
    ASSUME GInv, Next
    PROVE  Window'
  <1>0. /\ gov \in Session /\ idle \in Nat /\ gov.used \in Nat /\ gov.envelope \in Nat
        /\ gov.envelope <= gov.used
        /\ gov.sig \subseteq Fingerprints => idle = gov.used - gov.envelope
    BY DEF GInv, TypeOK, Session, Window
  <1>1. CASE persist_governor_checkpoint
    <2>1. /\ UNCHANGED <<idle, pump>> /\ pump.at = "idle"
          /\ UNCHANGED gov \/ \E st, x : gov' = [gov EXCEPT !.state = st, !.text = x]
      BY <1>1 DEF persist_governor_checkpoint, At
    <2> QED
      BY <2>1, <1>0, WindowSame DEF Session
  <1>2. CASE PumpUsage
    <2>1. /\ pump.at = "idle" /\ UNCHANGED pump /\ idle' = idle + 1
          /\ gov' = [gov EXCEPT !.used = @ + 1]
      BY <1>2 DEF PumpUsage, At
    <2>2. gov'.used = gov.used + 1 /\ gov'.envelope = gov.envelope /\ gov'.sig = gov.sig
      BY <2>1, <1>0 DEF Session
    <2> QED
      BY <2>1, <2>2, <1>0 DEF Window, NoProgressWindow, At
  <1>3. CASE PumpStarted \/ AttachContinuation
    <2>1. /\ UNCHANGED idle /\ \E t : gov' = [gov EXCEPT !.state = "RUNNING", !.turn = t]
          /\ pump'.at \notin {"prepare", "start"}
      <3>1. CASE PumpStarted
        <4>1. gov' = [gov EXCEPT !.state = "RUNNING", !.turn = Head(wire).turn]
          BY <3>1 DEF PumpStarted, attach_codex_turn
        <4>2. UNCHANGED idle /\ pump'.at = "idle"
          BY <3>1 DEF PumpStarted, At
        <4> QED BY <4>1, <4>2
      <3>2. CASE AttachContinuation
        <4>1. gov' = [gov EXCEPT !.state = "RUNNING", !.turn = pump.turn]
          BY <3>2 DEF AttachContinuation, attach_codex_turn
        <4>2. UNCHANGED idle /\ pump'.at = "keys"
          BY <3>2 DEF AttachContinuation
        <4> QED BY <4>1, <4>2
      <3> QED BY <1>3, <3>1, <3>2
    <2> QED
      BY <2>1, <1>0, WindowSame DEF Session
  <1>4. CASE project_turn_completed
    <2>1. /\ UNCHANGED idle /\ pump'.at = "ended"
          /\ \E s : gov' = [gov EXCEPT !.turn = 0, !.state = s]
      BY <1>4 DEF project_turn_completed
    <2> QED
      BY <2>1, <1>0, WindowSame DEF Session
  <1>5. ASSUME NEW t, NEW a, Closes(t, a), UNCHANGED idle PROVE Window'
    <2>1. pump'.at = "idle" /\ gov' = [gov EXCEPT !.state = a]
      BY <1>5 DEF Closes, PumpIdle
    <2> QED
      BY <2>1, <1>5, <1>0, WindowSame DEF Session
  <1>6. CASE handle_turn_failed \/ PreserveCheckpoint
    BY <1>5, <1>6 DEF handle_turn_failed, PreserveCheckpoint
  <1>7. CASE handle_turn_completed
    <2>1. /\ UNCHANGED idle /\ pump'.at \in {"candidate", "idle"}
          /\ \E h : gov' = [gov EXCEPT !.handoff = h]
      BY <1>7 DEF handle_turn_completed, PumpIdle
    <2> QED
      BY <2>1, <1>0, WindowSame DEF Session
  <1>8. CASE recover_governor_candidate
    <2>1. UNCHANGED <<idle, gov>> /\ pump'.at = "diff"
      BY <1>8 DEF recover_governor_candidate
    <2> QED
      BY <2>1, WindowSame
  <1>9. CASE finalize_worker
    <2>1. CASE Closes("NEEDS_HELP", "FAILED")
      BY <2>1, <1>5, <1>9 DEF finalize_worker
    <2>2. CASE gov' = [gov EXCEPT !.state = "COMPLETED"] /\ PumpIdle
      <3>1. /\ gov'.used = gov.used /\ gov'.envelope = gov.envelope /\ gov'.sig = gov.sig
            /\ pump'.at = "idle"
        BY <2>2, <1>0 DEF Session, PumpIdle
      <3> QED
        BY <3>1, <1>9, WindowSame DEF finalize_worker
    <2>3. CASE pump' = [at |-> "checkpoint"] /\ UNCHANGED <<task, gov, leases>>
      BY <2>3, <1>9, WindowSame DEF finalize_worker
    <2> QED
      BY <1>9, <2>1, <2>2, <2>3 DEF finalize_worker
  <1>10. CASE finalize_governor_checkpoint
    <2> DEFINE base == IF Repeated THEN gov.envelope ELSE gov.used
               sig == IF Signature = {} THEN gov.sig ELSE Signature
    <2>1. PICK incomplete \in BOOLEAN, automatic \in BOOLEAN, blocked \in BOOLEAN :
             /\ gov' = [gov EXCEPT !.envelope = base, !.sig = sig]
             /\ idle' = IF HasLedger /\ Signature # gov.sig THEN 0 ELSE idle
             /\ pump' = IF should_continue(automatic, incomplete, blocked, base)
                        THEN [at |-> "prepare", budget |-> next_turn_budget(base)]
                        ELSE [at |-> "preserve"]
      BY <1>10 DEF finalize_governor_checkpoint
    <2>2. gov'.used = gov.used /\ gov'.envelope = base /\ gov'.sig = sig
      BY <2>1, <1>0 DEF Session
    <2>3. base \in Nat /\ base <= gov.used /\ idle' \in Nat /\ UNCHANGED ledger
      BY <1>10, <2>1, <1>0 DEF finalize_governor_checkpoint
    <2>a. HasLedger => Signature # {} /\ Signature \subseteq Fingerprints
      BY SignatureTyped DEF Signature
    <2>b. HasLedger \/ sig \subseteq Fingerprints => idle' = gov.used - base
      <3>1. CASE HasLedger
        BY <1>0, <2>1, <2>a, <3>1 DEF Repeated
      <3>2. CASE ~HasLedger /\ sig \subseteq Fingerprints
        <4>1. Signature \subseteq Texts
          BY <3>2, <1>0 DEF Signature, Session
        <4>2. Signature = {}
          BY <3>2, <4>1, SignatureAssumption
        <4> QED BY <1>0, <2>1, <3>2, <4>2 DEF Repeated
      <3> QED BY <3>1, <3>2
    <2> HIDE DEF base, sig
    <2>4. CASE should_continue(automatic, incomplete, blocked, base)
      <3>1. Less(GoalBudget, Less(gov.used, base)) > MinTokens
        BY <2>4 DEF should_continue, Envelope
      <3>2. pump'.at = "prepare" /\ pump'.budget = next_turn_budget(base)
        BY <2>1, <2>4
      <3>3. /\ next_turn_budget(base) \in Nat /\ next_turn_budget(base) >= MinTokens
            /\ gov.used - base + next_turn_budget(base) <= GoalBudget
        BY <1>0, <2>3, <3>1, WindowLeft DEF next_turn_budget, Envelope
      <3> QED
        BY <2>2, <2>3, <2>b, <3>2, <3>3 DEF Window, NoProgressWindow, At, HasLedger
    <2>5. CASE ~should_continue(automatic, incomplete, blocked, base)
      BY <2>1, <2>2, <2>3, <2>b, <2>5 DEF Window, NoProgressWindow, At
    <2> QED BY <2>4, <2>5
  <1>11. CASE prepare_agent_continuation
    <2>1. /\ pump.at = "prepare" /\ pump.budget \in Nat /\ UNCHANGED <<idle, ledger>>
          /\ (HasLedger => idle + pump.budget <= GoalBudget) /\ pump.budget >= MinTokens
      BY <1>11 DEF prepare_agent_continuation, At, GInv, Window
    <2>2. CASE /\ gov' = [gov EXCEPT !.budget = pump.budget, !.state = "STARTING", !.turn = 0,
                                     !.base = gov.used]
               /\ pump' = [at |-> "start"]
      <3>1. /\ gov'.used = gov.used /\ gov'.envelope = gov.envelope /\ gov'.sig = gov.sig
            /\ gov'.budget = pump.budget /\ pump'.at = "start"
        BY <2>2, <1>0 DEF Session
      <3> QED
        BY <1>0, <2>1, <3>1 DEF Window, NoProgressWindow, At, HasLedger
    <2>3. CASE pump' = [at |-> "preserve"] /\ UNCHANGED gov
      BY <2>1, <2>3, WindowSame
    <2> QED
      BY <1>11, <2>2, <2>3 DEF prepare_agent_continuation
  <1>12. CASE continue_governor_thread
    <2>1. UNCHANGED <<gov, idle>> /\ pump'.at \in {"attach", "preserve"}
      BY <1>12 DEF continue_governor_thread
    <2> QED
      BY <2>1, WindowSame
  <1>13. CASE DeleteKeys
    <2>1. UNCHANGED idle /\ gov' = [gov EXCEPT !.hard = FALSE, !.mark = 0] /\ pump'.at = "idle"
      BY <1>13 DEF DeleteKeys, PumpIdle
    <2> QED
      BY <2>1, <1>0, WindowSame DEF Session
  <1>14. CASE controller_handoff
    <2>1. UNCHANGED <<idle, pump, ledger>> /\ (UNCHANGED gov
             \/ gov' = [gov EXCEPT !.handoff = live, !.state = "HANDOFF_REQUESTED"])
      BY <1>14 DEF controller_handoff
    <2> QED
      BY <2>1, <1>0, WindowSame DEF Session
  <1>15. CASE ReadGovernor \/ JudgeGovernor \/ SteerGovernor \/ HardStop \/ ServerReports
              \/ ServerEndsTurn
    <2>1. UNCHANGED <<idle, pump, ledger, gov>>
      BY <1>15 DEF ReadGovernor, JudgeGovernor, SteerGovernor, HardStop, ServerReports,
                   ServerEndsTurn
    <2> QED
      BY <2>1, WindowSame
  <1>16. CASE RecordHardStop
    <2>1. UNCHANGED <<idle, pump, ledger>> /\ gov' = [gov EXCEPT !.hard = TRUE]
      BY <1>16 DEF RecordHardStop
    <2> QED
      BY <2>1, <1>0, WindowSame DEF Session
  <1>17. CASE RecordSteering
    <2>1. UNCHANGED <<idle, pump, ledger>> /\ \E m : gov' = [gov EXCEPT !.mark = m, !.state = "STEERED"]
      BY <1>17 DEF RecordSteering
    <2> QED
      BY <2>1, <1>0, WindowSame DEF Session
  <1>18. CASE schedule_governor_runtime_recovery
    <2>1. UNCHANGED idle /\ pump'.at = "idle" /\ \E s : gov' = [gov EXCEPT !.turn = 0, !.state = s]
      BY <1>18 DEF schedule_governor_runtime_recovery, PumpIdle
    <2> QED
      BY <2>1, <1>0, WindowSame DEF Session
  <1> QED
    BY <1>1, <1>2, <1>3, <1>4, <1>6, <1>7, <1>8, <1>9, <1>10, <1>11, <1>12, <1>13,
       <1>14, <1>15, <1>16, <1>17, <1>18 DEF Next

-----------------------------------------------------------------------------
(* What the programs carry                                                 *)
LEMMA CarriedKept ==
    ASSUME GInv, Next
    PROVE  Carried'
  <1>0. /\ gov \in Session /\ gov.turn \in Nat /\ wire \in Seq(Notes) /\ live \in Nat
        /\ spent.turns \in Nat /\ Carried
    BY DEF GInv, TypeOK, Session
  <1>1. CASE ReadGovernor
    <2>1. UNCHANGED pump /\ watch'.at = "judge" /\ watch'.turn = gov.turn /\ gov.turn # 0
      BY <1>1 DEF ReadGovernor
    <2> QED
      BY <2>1, <1>0 DEF Carried
  <1>2. CASE JudgeGovernor
    <2>1. UNCHANGED pump /\ watch.turn \in Nat \ {0}
      BY <1>2, <1>0 DEF JudgeGovernor, At, Carried
    <2>2. Due # {} => (CHOOSE p \in Due : TRUE) \in Percents
      <3>1. Due \subseteq Percents
        BY DEF Due
      <3> QED BY <3>1
    <2>3. \/ watch' = [at |-> "idle"] \/ watch' = [at |-> "stop", turn |-> watch.turn]
          \/ \E d \in Percents : watch' = [at |-> "steer", turn |-> watch.turn, due |-> d]
      <3>1. CASE Percent >= 100 \/ Due = {}
        BY <1>2, <3>1 DEF JudgeGovernor
      <3>2. CASE ~(Percent >= 100) /\ Due # {}
        BY <1>2, <3>2, <2>2 DEF JudgeGovernor
      <3> QED BY <3>1, <3>2
    <2> QED
      BY <2>1, <2>3, <1>0 DEF Carried
  <1>3. CASE HardStop
    <2>1. UNCHANGED pump /\ watch'.at \in {"key", "idle"}
      BY <1>3 DEF HardStop, WatchIdle
    <2> QED
      BY <2>1, <1>0 DEF Carried
  <1>4. CASE SteerGovernor
    <2>1. UNCHANGED pump /\ watch.due \in Percents
      BY <1>4, <1>0 DEF SteerGovernor, At, Carried
    <2>2. watch' = [at |-> "steered", due |-> watch.due] \/ watch' = [at |-> "idle"]
      BY <1>4 DEF SteerGovernor
    <2> QED
      BY <2>1, <2>2, <1>0 DEF Carried
  <1>5. CASE RecordHardStop \/ RecordSteering
    <2>1. UNCHANGED pump /\ watch'.at = "idle"
      BY <1>5 DEF RecordHardStop, RecordSteering, WatchIdle
    <2> QED
      BY <2>1, <1>0 DEF Carried
  <1>6. CASE schedule_governor_runtime_recovery
    <2>1. pump'.at = "idle" /\ watch'.at = "idle"
      BY <1>6 DEF schedule_governor_runtime_recovery, WatchIdle, PumpIdle
    <2> QED
      BY <2>1 DEF Carried
  <1>7. CASE project_turn_completed
    <2>1. Head(wire) \in Notes
      BY <1>7, <1>0, TakeNote DEF project_turn_completed
    <2>2. Head(wire).turn \in Nat
      BY <2>1 DEF Notes
    <2>3. UNCHANGED watch /\ pump'.at = "ended" /\ pump'.turn = Head(wire).turn
      BY <1>7 DEF project_turn_completed
    <2> QED
      BY <2>2, <2>3, <1>0 DEF Carried
  <1>8. CASE continue_governor_thread
    <2>1. UNCHANGED watch /\ (pump' = [at |-> "attach", turn |-> spent.turns + 1]
                              \/ pump' = [at |-> "preserve"])
      BY <1>8 DEF continue_governor_thread
    <2> QED
      BY <2>1, <1>0 DEF Carried
  <1>9. CASE persist_governor_checkpoint \/ PumpUsage \/ PumpStarted \/ controller_handoff
             \/ ServerReports \/ ServerEndsTurn
    <2>1. UNCHANGED <<watch, pump>>
      BY <1>9 DEF persist_governor_checkpoint, PumpUsage, PumpStarted, controller_handoff,
                  ServerReports, ServerEndsTurn
    <2> QED
      BY <2>1, <1>0 DEF Carried
  <1>10. CASE handle_turn_failed \/ handle_turn_completed \/ recover_governor_candidate
              \/ finalize_worker \/ finalize_governor_checkpoint \/ PreserveCheckpoint
              \/ prepare_agent_continuation \/ AttachContinuation \/ DeleteKeys
    <2>1. UNCHANGED watch /\ pump'.at \notin {"ended", "attach"}
      <3>1. CASE finalize_governor_checkpoint
        BY <3>1 DEF finalize_governor_checkpoint
      <3> QED
        BY <1>10, <3>1 DEF handle_turn_failed, handle_turn_completed, finalize_worker,
           recover_governor_candidate, PreserveCheckpoint, prepare_agent_continuation,
           AttachContinuation, DeleteKeys, Closes, PumpIdle
    <2> QED
      BY <2>1, <1>0 DEF Carried
  <1> QED
    BY <1>1, <1>2, <1>3, <1>4, <1>5, <1>6, <1>7, <1>8, <1>9, <1>10 DEF Next

-----------------------------------------------------------------------------
(* The ledger                                                              *)
(* Whatever the model sends, reconciliation returns a ledger that completes *)
(* what the prior one completed.                                            *)
LEMMA Reconciles ==
    ASSUME NEW prior \in Ledgers, NEW sent \in Checkpoint,
           NEW cp \in reconcile_governor_checkpoint(prior, sent)
    PROVE  cp \in Ledgers /\ With(prior, "completed") \subseteq With(cp, "completed")
  <1> DEFINE next == KeepCompleted(prior, sent)
             active == IF next.status = "blocked" THEN "blocked" ELSE "in_progress"
             kept == [m \in Planned |-> IF prior.ms[m] = "completed" THEN "completed"
                                        ELSE sent.ms[m]]
  <1>1. prior.ms \in [Planned -> Statuses] /\ sent.ms \in [Planned -> Statuses]
    BY DEF Ledgers, Checkpoint
  <1>2. kept \in [Planned -> Statuses]
    BY <1>1 DEF Statuses
  <1>3. next = [sent EXCEPT !.ms = kept]
    BY DEF KeepCompleted
  <1>4. \A m \in Planned : prior.ms[m] = "completed" => kept[m] = "completed"
    BY <1>1
  <1> HIDE DEF kept
  <1>5. next \in Ledgers /\ next.ms = kept
    BY <1>2, <1>3 DEF Checkpoint, Ledgers
  <1>6. \/ cp = [next EXCEPT !.status = "complete", !.current = None]
        \/ cp = next
        \/ \E m \in Candidates(next, active) : cp = Focused(next, active, m)
    BY DEF reconcile_governor_checkpoint
  <1>7. active \in Statuses
    BY DEF Statuses
  <1> HIDE DEF next, active
  <1>8. CASE cp = [next EXCEPT !.status = "complete", !.current = None]
    <2>1. cp \in Ledgers /\ cp.ms = kept
      BY <1>5, <1>8 DEF Ledgers
    <2> QED BY <2>1, <1>4 DEF With
  <1>9. CASE cp = next
    BY <1>9, <1>5, <1>4 DEF With
  <1>10. ASSUME NEW m \in Candidates(next, active), cp = Focused(next, active, m)
         PROVE  cp \in Ledgers /\ With(prior, "completed") \subseteq With(cp, "completed")
    <2> DEFINE focus == [n \in Planned |-> IF n \notin Open(next) THEN next.ms[n]
                                           ELSE IF n = m THEN active ELSE "pending"]
    <2>1. m \in Planned
      BY <1>10 DEF Candidates, Open, With
    <2>2. focus \in [Planned -> Statuses]
      BY <1>5, <1>2, <1>7 DEF Statuses
    <2>3. \A n \in Planned : kept[n] = "completed" => focus[n] = "completed"
      BY <1>5 DEF Open
    <2>4. cp = [next EXCEPT !.current = m, !.ms = focus]
      BY <1>10 DEF Focused
    <2> HIDE DEF focus
    <2>5. cp \in Ledgers /\ cp.ms = focus
      BY <1>5, <2>1, <2>2, <2>4 DEF Ledgers
    <2> QED
      BY <2>3, <2>5, <1>4 DEF With
  <1> QED
    BY <1>6, <1>8, <1>9, <1>10

(* The checkpoint that is accepted.                                         *)
LEMMA Accepted ==
    ASSUME GInv, NEW sent \in Checkpoint, NEW cp \in Reconciled(sent)
    PROVE  /\ cp \in Ledgers /\ validate_governor_checkpoint(cp)
           /\ done \subseteq With(cp, "completed")
  <1>1. validate_governor_checkpoint(cp)
    BY DEF Reconciled
  <1>2. CASE HasLedger
    <2>1. ledger.cp \in Ledgers
      BY <1>2 DEF GInv, TypeOK, LedgerTyped, HasLedger, NoLedger
    <2>2. cp \in reconcile_governor_checkpoint(ledger.cp, sent)
      BY <1>2 DEF Reconciled
    <2>3. cp \in Ledgers /\ With(ledger.cp, "completed") \subseteq With(cp, "completed")
      BY <2>1, <2>2, Reconciles
    <2> QED
      BY <1>1, <1>2, <2>3 DEF GInv, LedgerKept, LedgerMonotone
  <1>3. CASE ~HasLedger
    <2>1. cp = sent
      BY <1>3 DEF Reconciled
    <2>2. cp \in Ledgers
      BY <2>1 DEF Checkpoint, Ledgers
    <2> QED
      BY <1>1, <1>3, <2>2 DEF GInv, LedgerKept
  <1> QED BY <1>2, <1>3

LEMMA LedgerIsKept ==
    ASSUME GInv, Next
    PROVE  LedgerTyped' /\ LedgerKept' /\ (done \subseteq Planned)'
  <1>0. LedgerTyped /\ LedgerKept /\ done \subseteq Planned
    BY DEF GInv, TypeOK
  <1>1. CASE UNCHANGED <<ledger, done>>
    <2>1. LedgerTyped' /\ (done \subseteq Planned)'
      BY <1>0, <1>1 DEF LedgerTyped
    <2>2. LedgerKept'
      BY <1>0, <1>1 DEF LedgerKept, LedgerMonotone, HasLedger
    <2> QED BY <2>1, <2>2
  <1>2. ASSUME NEW sent \in Checkpoint, NEW cp \in Reconciled(sent),
               ledger' = [revision |-> ledger.revision + 1, cp |-> cp],
               done' = done \cup With(cp, "completed")
        PROVE  LedgerTyped' /\ LedgerKept' /\ (done \subseteq Planned)'
    <2>1. /\ cp \in Ledgers /\ validate_governor_checkpoint(cp)
          /\ done \subseteq With(cp, "completed")
      BY Accepted
    <2>2. ledger.revision \in Nat
      BY <1>0 DEF LedgerTyped, NoLedger
    <2>3. LedgerTyped' /\ HasLedger' /\ ledger'.cp = cp
      BY <1>2, <2>1, <2>2 DEF LedgerTyped, HasLedger
    <2>4. done' \subseteq With(cp, "completed") /\ done' \subseteq Planned
      BY <1>2, <2>1, <1>0 DEF With
    <2>5. LedgerKept'
      BY <2>1, <2>3, <2>4 DEF LedgerKept, LedgerMonotone
    <2> QED BY <2>3, <2>4, <2>5
  <1>3. CASE persist_governor_checkpoint
    <2>1. CASE UNCHANGED <<ledger, done>>
      BY <1>1, <2>1
    <2> QED
      BY <1>2, <1>3, <2>1 DEF persist_governor_checkpoint
  <1>4. CASE recover_governor_candidate
    <2>1. UNCHANGED done
      BY <1>4 DEF recover_governor_candidate
    <2>2. CASE ledger' = ledger
      BY <1>1, <2>1, <2>2
    <2>3. CASE HasLedger /\ ledger' = [ledger EXCEPT !.cp.work = "uncommitted"]
      <3> DEFINE cp == [ledger.cp EXCEPT !.work = "uncommitted"]
      <3>1. ledger \in [revision : Nat \ {0}, cp : Ledgers]
        BY <1>0, <2>3 DEF LedgerTyped, HasLedger, NoLedger
      <3>2. ledger.cp \in Ledgers /\ ledger.revision \in Nat \ {0}
        BY <3>1
      <3>3. /\ cp \in Ledgers /\ cp.ms = ledger.cp.ms /\ cp.status = ledger.cp.status
            /\ cp.current = ledger.cp.current
        BY <3>2 DEF Ledgers
      <3>4. ledger' = [revision |-> ledger.revision, cp |-> cp]
        BY <2>3, <3>1
      <3> HIDE DEF cp
      <3>5. LedgerTyped' /\ HasLedger' /\ ledger'.cp = cp
        BY <3>2, <3>3, <3>4 DEF LedgerTyped, HasLedger
      <3>6. /\ \A s : With(cp, s) = With(ledger.cp, s)
            /\ Open(cp) = Open(ledger.cp)
        BY <3>3 DEF With, Open
      <3>7. validate_governor_checkpoint(ledger.cp) => validate_governor_checkpoint(cp)
        BY <3>3, <3>6 DEF validate_governor_checkpoint
      <3>8. LedgerKept'
        BY <1>0, <2>1, <2>3, <3>5, <3>6, <3>7 DEF LedgerKept, LedgerMonotone
      <3> QED BY <1>0, <2>1, <3>5, <3>8
    <2> QED
      BY <1>4, <2>2, <2>3 DEF recover_governor_candidate
  <1>5. Next => \/ UNCHANGED <<ledger, done>> \/ persist_governor_checkpoint
                \/ recover_governor_candidate
    BY DEF Next, PumpUsage, PumpStarted, project_turn_completed, handle_turn_failed,
           handle_turn_completed, finalize_worker, finalize_governor_checkpoint,
           PreserveCheckpoint, prepare_agent_continuation, continue_governor_thread,
           AttachContinuation, DeleteKeys, controller_handoff, ReadGovernor, JudgeGovernor,
           HardStop, RecordHardStop, SteerGovernor, RecordSteering, ServerReports,
           ServerEndsTurn, schedule_governor_runtime_recovery
  <1> QED
    BY <1>1, <1>3, <1>4, <1>5

-----------------------------------------------------------------------------
(* Types                                                                   *)
LEMMA WireIsTyped ==
    ASSUME GInv, Next
    PROVE  wire' \in Seq(Notes) /\ live' \in Nat
  <1>0. wire \in Seq(Notes) /\ live \in Nat /\ spent.turns \in Nat
    BY DEF GInv, TypeOK
  <1>1. CASE UNCHANGED <<wire, live>>
    BY <1>0, <1>1
  <1>2. CASE wire # <<>> /\ wire' = Tail(wire) /\ UNCHANGED live
    BY <1>0, <1>2, TakeNote
  <1>3. CASE live # 0 /\ \E s \in {"completed", "interrupted", "failed"} : Ended(s)
    BY <1>3, EndPosted
  <1>4. ASSUME NEW k \in {"usage", "message", "started"}, NEW t \in Nat,
               Post([kind |-> k, turn |-> t]), live' \in {live, t}
        PROVE  wire' \in Seq(Notes) /\ live' \in Nat
    <2>1. [kind |-> k, turn |-> t] \in Notes
      BY <1>4 DEF Notes
    <2> QED BY <1>0, <1>4, <2>1, PostOther
  <1>5. CASE wire' = <<>> /\ live' = 0
    BY <1>5
  <1>6. CASE persist_governor_checkpoint \/ PumpUsage \/ PumpStarted \/ project_turn_completed
    BY <1>6, <1>2 DEF persist_governor_checkpoint, PumpUsage, PumpStarted,
         project_turn_completed
  <1>7. CASE ServerEndsTurn
    BY <1>7, <1>3 DEF ServerEndsTurn
  <1>8. CASE controller_handoff
    BY <1>8, <1>1, <1>3 DEF controller_handoff
  <1>9. CASE HardStop
    <2>1. watch.turn # 0
      BY <1>9 DEF HardStop, At, GInv, Carried
    <2> QED
      BY <1>9, <1>1, <1>3, <2>1 DEF HardStop
  <1>10. CASE ServerReports
    BY <1>10, <1>0, <1>4 DEF ServerReports
  <1>11. CASE continue_governor_thread
    <2> DEFINE t == spent.turns + 1
    <2>1. t \in Nat
      BY <1>0
    <2>2. CASE live' = t /\ Post([kind |-> "started", turn |-> t])
      BY <2>1, <2>2, <1>4
    <2>3. CASE UNCHANGED <<live, wire, lost>>
      BY <2>3, <1>1
    <2> QED
      BY <1>11, <2>2, <2>3 DEF continue_governor_thread
  <1>12. CASE schedule_governor_runtime_recovery
    BY <1>12, <1>5 DEF schedule_governor_runtime_recovery
  <1>13. CASE handle_turn_failed \/ handle_turn_completed \/ recover_governor_candidate
              \/ finalize_worker \/ finalize_governor_checkpoint \/ PreserveCheckpoint
              \/ prepare_agent_continuation \/ AttachContinuation \/ DeleteKeys
              \/ ReadGovernor \/ JudgeGovernor \/ RecordHardStop \/ SteerGovernor
              \/ RecordSteering
    BY <1>13, <1>1
    DEF handle_turn_failed, handle_turn_completed, recover_governor_candidate, finalize_worker,
        finalize_governor_checkpoint, PreserveCheckpoint, prepare_agent_continuation,
        AttachContinuation, DeleteKeys, ReadGovernor, JudgeGovernor, RecordHardStop,
        SteerGovernor, RecordSteering
  <1> QED
    BY <1>6, <1>7, <1>8, <1>9, <1>10, <1>11, <1>12, <1>13 DEF Next

LEMMA Spends ==
    ASSUME GInv, NEW f \in {"usage", "messages", "faults"}, NEW max, Spend(f, max)
    PROVE  spent' \in [turns : Nat, usage : Nat, messages : Nat, faults : Nat]
  <1>1. spent \in [turns : Nat, usage : Nat, messages : Nat, faults : Nat]
    BY DEF GInv, TypeOK
  <1>2. CASE f = "usage"
    BY <1>1, <1>2 DEF Spend
  <1>3. CASE f = "messages"
    BY <1>1, <1>3 DEF Spend
  <1>4. CASE f = "faults"
    BY <1>1, <1>4 DEF Spend
  <1> QED BY <1>2, <1>3, <1>4

LEMMA SpentIsTyped ==
    ASSUME GInv, Next
    PROVE  spent' \in [turns : Nat, usage : Nat, messages : Nat, faults : Nat]
  <1>0. spent \in [turns : Nat, usage : Nat, messages : Nat, faults : Nat]
    BY DEF GInv, TypeOK
  <1>1. CASE UNCHANGED spent
    BY <1>0, <1>1
  <1>2. CASE prepare_agent_continuation
    BY <1>2, <1>1, Spends DEF prepare_agent_continuation
  <1>3. CASE continue_governor_thread
    <2>0. spent.turns + 1 \in Nat /\ spent.faults + 1 \in Nat
      BY <1>0
    <2>1. CASE spent' = [spent EXCEPT !.turns = spent.turns + 1]
      BY <2>0, <2>1, <1>0
    <2>2. CASE spent' = [spent EXCEPT !.turns = spent.turns + 1, !.faults = spent.faults + 1]
      BY <2>0, <2>2, <1>0
    <2>3. CASE Spend("faults", MaxFaults)
      BY <2>3, Spends
    <2> QED
      BY <1>3, <2>1, <2>2, <2>3 DEF continue_governor_thread
  <1>4. CASE controller_handoff
    BY <1>4, <1>1, Spends DEF controller_handoff
  <1>5. CASE HardStop
    BY <1>5, <1>1, Spends DEF HardStop
  <1>6. CASE ServerReports
    BY <1>6, Spends DEF ServerReports
  <1>7. CASE schedule_governor_runtime_recovery
    BY <1>7, Spends DEF schedule_governor_runtime_recovery
  <1>8. Next => \/ UNCHANGED spent \/ prepare_agent_continuation \/ continue_governor_thread
                \/ controller_handoff \/ HardStop \/ ServerReports
                \/ schedule_governor_runtime_recovery
    BY DEF Next, persist_governor_checkpoint, PumpUsage, PumpStarted, project_turn_completed,
           handle_turn_failed, handle_turn_completed, recover_governor_candidate,
           finalize_worker, finalize_governor_checkpoint, PreserveCheckpoint,
           AttachContinuation, DeleteKeys, ReadGovernor, JudgeGovernor, RecordHardStop,
           SteerGovernor, RecordSteering, ServerEndsTurn
  <1> QED
    BY <1>1, <1>2, <1>3, <1>4, <1>5, <1>6, <1>7, <1>8

(* Where the task and the two programs are.                                 *)
Placed ==
    /\ task \in {"IMPLEMENTING", "REVIEW_READY", "NEEDS_HELP", "STALLED"}
    /\ leases \in BOOLEAN /\ lost \in BOOLEAN /\ idle \in Nat
    /\ pump.at \in {"idle", "ended", "candidate", "diff", "checkpoint", "preserve", "prepare",
                    "start", "attach", "keys"}
    /\ watch.at \in {"idle", "judge", "stop", "key", "steer", "steered"}

LEMMA PlacedKept ==
    ASSUME GInv, Next
    PROVE  Placed'
  <1>0. Placed
    BY DEF GInv, TypeOK, Placed
  <1>1. CASE UNCHANGED <<task, leases, lost, idle>> /\ (UNCHANGED pump \/ pump'.at \in
               {"idle", "candidate", "diff", "checkpoint", "preserve", "prepare",
                "start", "attach", "keys"})
             /\ (UNCHANGED watch \/ watch'.at \in {"idle", "judge", "stop", "key", "steer",
                                                   "steered"})
    BY <1>0, <1>1 DEF Placed
  <1>2. CASE persist_governor_checkpoint \/ PumpStarted \/ ServerReports \/ ServerEndsTurn
             \/ controller_handoff
    BY <1>2, <1>1
    DEF persist_governor_checkpoint, PumpStarted, ServerReports, ServerEndsTurn,
        controller_handoff
  <1>3. CASE PumpUsage
    <2>1. UNCHANGED <<task, leases, lost, pump, watch>> /\ idle' = idle + 1
      BY <1>3 DEF PumpUsage
    <2> QED BY <2>1, <1>0 DEF Placed
  <1>4. CASE project_turn_completed
    <2>1. /\ UNCHANGED <<task, leases, idle, watch>> /\ pump'.at = "ended"
          /\ lost' = (lost /\ live # 0)
      BY <1>4 DEF project_turn_completed
    <2> QED BY <2>1, <1>0 DEF Placed
  <1>5. ASSUME NEW t \in {"IMPLEMENTING", "REVIEW_READY", "NEEDS_HELP", "STALLED"}, NEW a,
               Closes(t, a), UNCHANGED <<watch, idle, lost>>
        PROVE  Placed'
    <2>1. task' = t /\ leases' = FALSE /\ pump'.at = "idle"
      BY <1>5 DEF Closes, PumpIdle
    <2> QED BY <2>1, <1>5, <1>0 DEF Placed
  <1>6. CASE handle_turn_failed
    <2>1. UNCHANGED <<watch, idle, lost>> /\ \E t \in {task, "NEEDS_HELP"} : Closes(t, "FAILED")
      BY <1>6 DEF handle_turn_failed
    <2> QED BY <2>1, <1>0, <1>5 DEF Placed
  <1>7. CASE PreserveCheckpoint
    BY <1>7, <1>5 DEF PreserveCheckpoint
  <1>8. CASE finalize_worker
    <2>1. UNCHANGED <<watch, idle, lost>>
      BY <1>8 DEF finalize_worker
    <2>2. CASE Closes("NEEDS_HELP", "FAILED")
      BY <2>1, <2>2, <1>5
    <2>3. CASE task' = "REVIEW_READY" /\ PumpIdle /\ UNCHANGED leases
      BY <2>1, <2>3, <1>0 DEF PumpIdle, Placed
    <2>4. CASE pump' = [at |-> "checkpoint"] /\ UNCHANGED <<task, gov, leases>>
      BY <2>1, <2>4, <1>1
    <2> QED
      BY <1>8, <2>2, <2>3, <2>4 DEF finalize_worker
  <1>9. CASE handle_turn_completed
    BY <1>9, <1>1 DEF handle_turn_completed, PumpIdle
  <1>10. CASE recover_governor_candidate
    BY <1>10, <1>1 DEF recover_governor_candidate
  <1>11. CASE finalize_governor_checkpoint
    <2>1. /\ UNCHANGED <<task, leases, lost, watch>> /\ idle' \in {0, idle}
          /\ pump'.at \in {"prepare", "preserve"}
      BY <1>11 DEF finalize_governor_checkpoint
    <2> QED BY <2>1, <1>0 DEF Placed
  <1>12. CASE prepare_agent_continuation
    BY <1>12, <1>1 DEF prepare_agent_continuation
  <1>13. CASE continue_governor_thread
    <2>1. UNCHANGED <<task, leases, idle, watch>> /\ pump'.at \in {"attach", "preserve"}
      BY <1>13 DEF continue_governor_thread
    <2>2. lost' = TRUE \/ UNCHANGED lost
      BY <1>13, Zenon DEF continue_governor_thread
    <2>3. lost' \in BOOLEAN
      BY <2>2, <1>0 DEF Placed
    <2> QED BY <2>1, <2>3, <1>0 DEF Placed
  <1>14. CASE AttachContinuation \/ DeleteKeys
    BY <1>14, <1>1 DEF AttachContinuation, DeleteKeys, PumpIdle
  <1>15. CASE ReadGovernor \/ HardStop \/ RecordHardStop \/ SteerGovernor \/ RecordSteering
    BY <1>15, <1>1 DEF ReadGovernor, HardStop, RecordHardStop, SteerGovernor,
                       RecordSteering, WatchIdle
  <1>16. CASE JudgeGovernor
    <2>1. UNCHANGED <<task, leases, lost, idle, pump>>
          /\ watch'.at \in {"idle", "stop", "steer"}
      BY <1>16 DEF JudgeGovernor
    <2> QED BY <2>1, <1>1
  <1>17. CASE schedule_governor_runtime_recovery
    <2>1. /\ pump'.at = "idle" /\ watch'.at = "idle" /\ lost' = FALSE
          /\ UNCHANGED <<leases, idle>> /\ task' \in {task, "STALLED"}
      BY <1>17 DEF schedule_governor_runtime_recovery, PumpIdle, WatchIdle
    <2> QED BY <2>1, <1>0 DEF Placed
  <1> QED
    BY <1>2, <1>3, <1>4, <1>6, <1>7, <1>8, <1>9, <1>10, <1>11, <1>12, <1>13, <1>14, <1>15,
       <1>16, <1>17 DEF Next

LEMMA SessionKept ==
    ASSUME GInv, Next
    PROVE  gov' \in Session
  <1>0. /\ gov \in Session /\ live \in Nat /\ wire \in Seq(Notes)
    BY DEF GInv, TypeOK
  <1>1. CASE UNCHANGED gov
    BY <1>0, <1>1
  <1>2. ASSUME NEW s \in {"STARTING", "RUNNING", "STEERED", "HANDOFF_REQUESTED", "COMPLETED",
                          "TURN_COMPLETE", "FAILED", "INTERRUPTED", "STALLED"}
        PROVE  /\ gov' = [gov EXCEPT !.state = s] => gov' \in Session
               /\ \A t \in Nat : gov' = [gov EXCEPT !.state = s, !.turn = t] => gov' \in Session
    BY <1>0 DEF Session
  <1>3. CASE persist_governor_checkpoint
    <2>1. ASSUME NEW text \in Texts, NEW st \in {gov.state, "RUNNING"},
                 gov' = [gov EXCEPT !.state = st, !.text = Remembered(text)]
          PROVE  gov' \in Session
      <3>1. Remembered(text) \subseteq Texts
        BY <1>0 DEF Remembered, Session
      <3>2. st \in {gov.state, "RUNNING"} /\ gov.state \in {"STARTING", "RUNNING", "STEERED",
              "HANDOFF_REQUESTED", "COMPLETED", "TURN_COMPLETE", "FAILED", "INTERRUPTED",
              "STALLED"}
        BY <1>0 DEF Session
      <3> QED BY <1>0, <2>1, <3>1, <3>2 DEF Session
    <2> QED BY <1>3, <1>1, <2>1 DEF persist_governor_checkpoint
  <1>4. CASE PumpUsage
    <2>1. gov' = [gov EXCEPT !.used = @ + 1]
      BY <1>4 DEF PumpUsage
    <2>2. gov.used + 1 \in Nat
      BY <1>0 DEF Session
    <2> QED BY <2>1, <2>2, <1>0 DEF Session
  <1>5. CASE PumpStarted
    <2>1. Head(wire).turn \in Nat
      BY <1>5, <1>0, TakeNote DEF PumpStarted, Notes
    <2> QED BY <1>5, <1>2, <2>1 DEF PumpStarted, attach_codex_turn
  <1>6. CASE project_turn_completed
    <2> DEFINE s == CASE Head(wire).status = "completed" -> "TURN_COMPLETE"
                      [] Head(wire).status = "interrupted" -> "INTERRUPTED"
                      [] OTHER -> "FAILED"
    <2>1. gov' = [gov EXCEPT !.turn = 0, !.state = s]
      BY <1>6 DEF project_turn_completed
    <2>2. s \in {"TURN_COMPLETE", "INTERRUPTED", "FAILED"}
      OBVIOUS
    <2> HIDE DEF s
    <2> QED BY <2>1, <2>2, <1>0 DEF Session
  <1>7. CASE handle_turn_failed \/ PreserveCheckpoint
    <2>1. gov' = [gov EXCEPT !.state = "FAILED"] \/ gov' = [gov EXCEPT !.state = "TURN_COMPLETE"]
      BY <1>7 DEF handle_turn_failed, PreserveCheckpoint, Closes
    <2> QED BY <2>1, <1>2
  <1>8. CASE handle_turn_completed
    <2>1. \E h \in {0, gov.handoff} : gov' = [gov EXCEPT !.handoff = h]
      <3>1. gov' = [gov EXCEPT !.handoff = IF HandedOff THEN 0 ELSE gov.handoff]
        BY <1>8 DEF handle_turn_completed
      <3> QED BY <3>1
    <2> QED BY <2>1, <1>0 DEF Session
  <1>9. CASE finalize_worker
    <2>1. \/ gov' = [gov EXCEPT !.state = "FAILED"] \/ gov' = [gov EXCEPT !.state = "COMPLETED"]
          \/ UNCHANGED gov
      BY <1>9 DEF finalize_worker, Closes
    <2> QED BY <2>1, <1>1, <1>2
  <1>10. CASE finalize_governor_checkpoint
    <2>1. PICK e \in {gov.used, gov.envelope}, x \in {Signature, gov.sig} :
             gov' = [gov EXCEPT !.envelope = e, !.sig = x]
      BY <1>10 DEF finalize_governor_checkpoint
    <2> QED BY <2>1, <1>0, SignatureTyped DEF Session
  <1>11. CASE prepare_agent_continuation
    <2>1. pump.budget \in Nat
      BY <1>11 DEF prepare_agent_continuation, At, GInv, Window
    <2>2. \/ UNCHANGED gov
          \/ gov' = [gov EXCEPT !.budget = pump.budget, !.state = "STARTING", !.turn = 0,
                                !.base = gov.used]
      BY <1>11 DEF prepare_agent_continuation
    <2>3. gov.used \in Nat
      BY <1>0 DEF Session
    <2>4. CASE UNCHANGED gov
      BY <2>4, <1>1
    <2>5. CASE gov' = [gov EXCEPT !.budget = pump.budget, !.state = "STARTING", !.turn = 0,
                                  !.base = gov.used]
      BY <2>1, <2>3, <2>5, <1>0 DEF Session
    <2> QED BY <2>2, <2>4, <2>5
  <1>12. CASE AttachContinuation
    <2>1. pump.turn \in Nat
      BY <1>12 DEF AttachContinuation, At, GInv, Carried
    <2> QED BY <1>12, <1>2, <2>1 DEF AttachContinuation, attach_codex_turn
  <1>13. CASE DeleteKeys
    <2>1. gov' = [gov EXCEPT !.hard = FALSE, !.mark = 0]
      BY <1>13 DEF DeleteKeys
    <2> QED BY <2>1, <1>0 DEF Session
  <1>14. CASE controller_handoff
    <2>1. UNCHANGED gov \/ gov' = [gov EXCEPT !.handoff = live, !.state = "HANDOFF_REQUESTED"]
      BY <1>14 DEF controller_handoff
    <2> QED BY <2>1, <1>0 DEF Session
  <1>15. CASE RecordHardStop
    <2>1. gov' = [gov EXCEPT !.hard = TRUE]
      BY <1>15 DEF RecordHardStop
    <2> QED BY <2>1, <1>0 DEF Session
  <1>16. CASE RecordSteering
    <2>1. watch.due \in Nat
      BY <1>16, BudgetAssumption DEF RecordSteering, At, GInv, Carried
    <2>2. gov' = [gov EXCEPT !.mark = watch.due, !.state = "STEERED"]
      BY <1>16 DEF RecordSteering
    <2> QED BY <2>1, <2>2, <1>0 DEF Session
  <1>17. CASE schedule_governor_runtime_recovery
    <2>1. \/ gov' = [gov EXCEPT !.turn = 0, !.state = "STALLED"]
          \/ gov' = [gov EXCEPT !.turn = 0, !.state = gov.state]
      BY <1>17 DEF schedule_governor_runtime_recovery
    <2>2. gov.state \in {"STARTING", "RUNNING", "STEERED", "HANDOFF_REQUESTED", "COMPLETED",
                         "TURN_COMPLETE", "FAILED", "INTERRUPTED", "STALLED"}
      BY <1>0 DEF Session
    <2>3. CASE gov' = [gov EXCEPT !.turn = 0, !.state = "STALLED"]
      BY <2>3, <1>0 DEF Session
    <2>4. CASE gov' = [gov EXCEPT !.turn = 0, !.state = gov.state]
      BY <2>4, <2>2, <1>0 DEF Session
    <2> QED BY <2>1, <2>3, <2>4
  <1>18. CASE recover_governor_candidate \/ continue_governor_thread \/ ReadGovernor
              \/ JudgeGovernor \/ HardStop \/ SteerGovernor \/ ServerReports \/ ServerEndsTurn
    BY <1>18, <1>1
    DEF recover_governor_candidate, continue_governor_thread, ReadGovernor, JudgeGovernor,
        HardStop, SteerGovernor, ServerReports, ServerEndsTurn
  <1> QED
    BY <1>3, <1>4, <1>5, <1>6, <1>7, <1>8, <1>9, <1>10, <1>11, <1>12, <1>13, <1>14, <1>15,
       <1>16, <1>17, <1>18 DEF Next

-----------------------------------------------------------------------------
(* The custody of a governed task rests on this invariant: the ledger with *)
(* what was completed, the window with the envelope, and the turn that     *)
(* runs with its end on the wire and the pump that handles it.             *)
THEOREM GovernorKept == Spec => []GInv
  <1>1. Init => GInv
    <2> SUFFICES ASSUME Init PROVE GInv
      OBVIOUS
    <2>1. ledger = NoLedger /\ ledger.revision = 0 /\ ~HasLedger
      BY DEF Init, NoLedger, HasLedger
    <2>2. gov \in Session
      BY BudgetAssumption DEF Init, Session
    <2>3. wire = <<>> /\ Len(wire) = 0 /\ wire \in Seq(Notes)
      BY DEF Init
    <2>4. TypeOK
      BY <2>1, <2>2, <2>3 DEF Init, TypeOK, LedgerTyped
    <2>5. LedgerKept
      BY <2>1 DEF Init, LedgerKept, LedgerMonotone
    <2>6. Window /\ Carried /\ ReleasedMeansEnded
      BY BudgetAssumption DEF Init, Window, NoProgressWindow, At, Carried, ReleasedMeansEnded
    <2>7. EndsOnce
      BY <2>3 DEF Init, EndsOnce, OneEnd, NoEnd, Busy, Working
    <2> QED BY <2>4, <2>5, <2>6, <2>7 DEF GInv
  <1>2. GInv /\ [Next]_governorVars => GInv'
    <2> SUFFICES ASSUME GInv, [Next]_governorVars PROVE GInv'
      OBVIOUS
    <2>1. CASE Next
      <3>1. TypeOK'
        BY <2>1, LedgerIsKept, WireIsTyped, SpentIsTyped, PlacedKept, SessionKept
        DEF TypeOK, Placed
      <3> QED
        BY <2>1, <3>1, LedgerIsKept, WindowKept, EndsKept, CarriedKept DEF GInv
    <2>2. CASE UNCHANGED governorVars
      <3>1. TypeOK' /\ LedgerKept'
        BY <2>2 DEF governorVars, GInv, TypeOK, LedgerTyped, LedgerKept, LedgerMonotone,
             HasLedger
      <3>2. Window' /\ Carried'
        BY <2>2 DEF governorVars, GInv, Window, NoProgressWindow, At, Carried, HasLedger
      <3>3. EndsOnce' /\ ReleasedMeansEnded'
        BY <2>2, EndsOnceSame DEF governorVars
      <3> QED BY <3>1, <3>2, <3>3 DEF GInv
    <2> QED BY <2>1, <2>2
  <1> QED
    BY <1>1, <1>2, PTL DEF Spec

(* Whatever the governor sends and whatever fails, its ledger never loses a *)
(* completed milestone (persist_governor_checkpoint), a warm turn of a      *)
(* governor with a ledger gets no more tokens than what the no-progress     *)
(* window has left (finalize_governor_checkpoint), and the write leases are released only   *)
(* when no answered turn runs (handle_turn_completed).                      *)
THEOREM GovernorCustodyHolds == Spec => []GovernorCustody
  <1>1. GInv => GovernorCustody
    BY DEF GInv, GovernorCustody, LedgerKept, Window
  <1> QED
    BY <1>1, GovernorKept, PTL
=============================================================================
