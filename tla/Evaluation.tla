----------------------------- MODULE Evaluation -----------------------------
(***************************************************************************)
(* The one-shot evaluation of the observer snapshot regression.  An        *)
(* invocation runs the historical and then the fixed arm in a worktree of  *)
(* its own, records attempt-scoped evidence for each, appends the          *)
(* immutable grader, case and taskset wires, starts the evaluation run,    *)
(* records its one sample and completes it.  It may fail or die anywhere,  *)
(* is repeated until it succeeds, may run beside another invocation, and   *)
(* the operator may purge its controller run.                              *)
(***************************************************************************)
EXTENDS Naturals, FiniteSets, Sequences

CONSTANTS
    Attempts,   \* invocations
    MaxFaults   \* bound on failing steps, crashes and purges

VARIABLES
    att,        \* invocations: step, arm, whether it met no disturbance
    controller, \* arms whose controller run exists
    tree,       \* worktrees on disk: attempt, arm
    row,        \* worktrees rows: attempt, arm, state
    overlay,    \* the materialization file of each arm: absent, torn or whole
    sealed,     \* sealed registry, toolchain and target directories of an invocation
    ev,         \* what an arm has persisted: attempt, arm, how far, bytes and inputs cited
    wires,      \* appended immutable revisions, in order
    member,     \* taskset membership
    evaluation, \* status of the evaluation run
    sample,     \* the sample: attempt whose evidence it cites, bytes cited
    receipt,    \* attempt whose sample the completed status names
    faults

evaluationVars == <<att, controller, tree, row, overlay, sealed, ev, wires, member, evaluation, sample, receipt, faults>>

Wires == <<"grader", "case", "taskset">>
NoSample == [attempt |-> "none", bytes |-> "none"]
New == [pc |-> "new", arm |-> "historical", clean |-> TRUE, drifted |-> FALSE]
Running(a) == att[a].pc \notin {"new", "done", "error", "dead"}
Alone(a) == \A b \in Attempts : b = a \/ ~Running(b)
Goto(a, pc) == att' = [att EXCEPT ![a].pc = pc]
At(a, pc) == att[a].pc = pc
Arm(a) == att[a].arm

-----------------------------------------------------------------------------
(* run_observer_snapshot_once starts by looking for its own sample.        *)
begin_once(a) ==
    /\ At(a, "new")
    /\ att' = [b \in Attempts |->
          IF b = a THEN [att[a] EXCEPT !.clean = Alone(a),
                                       !.pc = IF sample = NoSample THEN "ensure" ELSE "complete"]
          ELSE [att[b] EXCEPT !.clean = @ /\ ~Running(b)]]
    /\ UNCHANGED <<controller, tree, row, overlay, sealed, ev, wires, member, evaluation,
                   sample, receipt, faults>>

(* The arm's controller run exists from here on, unless it is purged.      *)
ensure_controller_run(a) ==
    /\ At(a, "ensure")
    /\ controller' = controller \cup {Arm(a)} /\ Goto(a, "worktree")
    /\ UNCHANGED <<tree, row, overlay, sealed, ev, wires, member, evaluation,
                   sample, receipt, faults>>

(* run_arm: the worktree is created under a fresh attempt suffix, then     *)
(* registered; a failed registration removes it again.                     *)
create_worktree(a) ==
    /\ At(a, "worktree")
    /\ tree' = tree \cup {<<a, Arm(a)>>} /\ Goto(a, "register")
    /\ UNCHANGED <<controller, row, overlay, sealed, ev, wires, member, evaluation,
                   sample, receipt, faults>>
create_or_validate_evaluation_worktree(a) ==
    /\ At(a, "register")
    /\ IF Arm(a) \in controller
       THEN row' = [row EXCEPT ![<<a, Arm(a)>>] = "ACTIVE"] /\ Goto(a, "materialize") /\ UNCHANGED tree
       ELSE tree' = tree \ {<<a, Arm(a)>>} /\ Goto(a, "error") /\ UNCHANGED row
    /\ UNCHANGED <<controller, overlay, sealed, ev, wires, member, evaluation,
                   sample, receipt, faults>>

(* The materialization file is shared by all invocations of an arm.        *)
materialize_overlay(a) ==
    /\ At(a, "materialize")
    /\ overlay' = [overlay EXCEPT ![Arm(a)] = "torn"] /\ Goto(a, "written")
    /\ UNCHANGED <<controller, tree, row, sealed, ev, wires, member, evaluation,
                   sample, receipt, faults>>
OverlayWritten(a) ==
    /\ At(a, "written")
    /\ overlay' = [overlay EXCEPT ![Arm(a)] = "whole"] /\ Goto(a, "seal")
    /\ UNCHANGED <<controller, tree, row, sealed, ev, wires, member, evaluation,
                   sample, receipt, faults>>

(* cargo_cache_admission copies the registry and the toolchain into sealed *)
(* directories of this invocation and pins their digests.                  *)
cargo_cache_admission(a) ==
    /\ At(a, "seal")
    /\ sealed' = [sealed EXCEPT ![a] = "sealed"] /\ Goto(a, "candidate")
    /\ UNCHANGED <<controller, tree, row, overlay, ev, wires, member, evaluation,
                   sample, receipt, faults>>

(* The sealed inputs change under a command (a fault of the host).         *)
SnapshotDrifts(a) ==
    /\ sealed[a] = "sealed" /\ faults < MaxFaults /\ faults' = faults + 1
    /\ sealed' = [sealed EXCEPT ![a] = "drifted"] /\ att' = [att EXCEPT ![a].clean = FALSE]
    /\ UNCHANGED <<controller, tree, row, overlay, ev, wires, member, evaluation, sample, receipt>>

SnapshotTrusted(a) == TRUE
snapshot_manifest_digests(a) == sealed[a] = "sealed"
run_candidate(a) ==
    /\ At(a, "candidate")
    /\ IF snapshot_manifest_digests(a) /\ <<a, Arm(a)>> \in tree
       THEN Goto(a, "grade") /\ UNCHANGED sealed
       ELSE Goto(a, "remove_error") /\ sealed' = [sealed EXCEPT ![a] = "none"]
    /\ UNCHANGED <<controller, tree, row, overlay, ev, wires, member, evaluation,
                   sample, receipt, faults>>

(* The grader's copy of the artifact must have the digest of what was      *)
(* written; the sealed directories are removed on every way out.           *)
run_grader(a) ==
    /\ At(a, "grade")
    /\ sealed' = [sealed EXCEPT ![a] = "none"]
    /\ att' = [att EXCEPT ![a].drifted = sealed[a] = "drifted",
                          ![a].pc = IF overlay[Arm(a)] = "whole" /\ snapshot_manifest_digests(a)
                                    THEN "persist" ELSE "remove_error"]
    /\ UNCHANGED <<controller, tree, row, overlay, ev, wires, member, evaluation,
                   sample, receipt, faults>>

(* persist_arm under ids that carry the attempt: the captured streams, the *)
(* commands and their validations; the materialization file as it is now   *)
(* and the controller's evidence; the grader's evidence.  Each is refused  *)
(* once the rows before it have gone with their run.                       *)
ArmScoped(a) == {e \in ev : e.arm = Arm(a)}
AttemptScoped(a) == {e \in ev : e.arm = Arm(a) /\ e.attempt = a}
persist_arm(a) ==
    /\ At(a, "persist")
    /\ IF AttemptScoped(a) = {} /\ Arm(a) \in controller
       THEN /\ ev' = ev \cup {[attempt |-> a, arm |-> Arm(a), part |-> "commands",
                               bytes |-> "none", drifted |-> att[a].drifted]}
            /\ Goto(a, "controller")
       ELSE Goto(a, "remove_error") /\ UNCHANGED ev
    /\ UNCHANGED <<controller, tree, row, overlay, sealed, wires, member, evaluation,
                   sample, receipt, faults>>
record_evaluation_evidence(a, part, next) ==
    LET own == {e \in ev : e.arm = Arm(a) /\ e.attempt = a}
        bytes(e) == IF part = "controller" THEN overlay[Arm(a)] ELSE e.bytes
    IN /\ At(a, part)
       /\ ev' = (ev \ own) \cup {[e EXCEPT !.part = part, !.bytes = bytes(e)] : e \in own}
       /\ Goto(a, IF own = {} THEN "remove_error" ELSE next)
       /\ UNCHANGED <<controller, tree, row, overlay, sealed, wires, member, evaluation,
                      sample, receipt, faults>>

RowFollowsTree(a) == [row EXCEPT ![<<a, Arm(a)>>] = IF @ = "ACTIVE" THEN "REMOVED" ELSE @]
\* A worktree that is no longer there cannot be removed, which is an error.
remove_worktree(a) ==
    /\ At(a, "remove") \/ At(a, "remove_error")
    /\ tree' = tree \ {<<a, Arm(a)>>}
    /\ Goto(a, IF <<a, Arm(a)>> \notin tree THEN "error"
               ELSE IF At(a, "remove") THEN "mark" ELSE "mark_error")
    /\ UNCHANGED <<controller, row, overlay, sealed, ev, wires, member, evaluation,
                   sample, receipt, faults>>

(* A purged row is gone; marking it removed is then an error.              *)
mark_worktree_removed(a) ==
    /\ At(a, "mark") \/ At(a, "mark_error")
    /\ row' = RowFollowsTree(a)
    /\ Goto(a, IF At(a, "mark_error") \/ row[<<a, Arm(a)>>] = "none" THEN "error"
               ELSE IF Arm(a) = "historical" THEN "wires" ELSE "start")
    /\ UNCHANGED <<controller, tree, overlay, sealed, ev, wires, member, evaluation,
                   sample, receipt, faults>>

-----------------------------------------------------------------------------
(* append_wire: one immutable revision after the other; a repetition with  *)
(* the same payload reads the revision back.                               *)
append_wire(a) ==
    /\ At(a, "wires")
    /\ IF Len(wires) < Len(Wires)
       THEN wires' = Append(wires, Wires[Len(wires) + 1]) /\ UNCHANGED att
       ELSE Goto(a, "member") /\ UNCHANGED wires
    /\ UNCHANGED <<controller, tree, row, overlay, sealed, ev, member, evaluation,
                   sample, receipt, faults>>

FrozenFirst == evaluation = "none"
MembershipAdmitted == member \/ evaluation = "none"
append_taskset_membership(a) ==
    /\ At(a, "member")
    /\ IF MembershipAdmitted
       THEN member' = TRUE /\ att' = [att EXCEPT ![a].pc = "ensure", ![a].arm = "fixed"]
       ELSE Goto(a, "error") /\ UNCHANGED member
    /\ UNCHANGED <<controller, tree, row, overlay, sealed, ev, wires, evaluation,
                   sample, receipt, faults>>

(* Launch pins: every wire and the whole membership.                       *)
evaluation_launch_pins == Len(wires) = Len(Wires) /\ member
start_evaluation_run(a) ==
    /\ At(a, "start")
    /\ IF evaluation_launch_pins /\ "fixed" \in controller
       THEN /\ evaluation' = IF evaluation = "none" THEN "recording" ELSE evaluation
            /\ Goto(a, "sample")
       ELSE Goto(a, "error") /\ UNCHANGED evaluation
    /\ UNCHANGED <<controller, tree, row, overlay, sealed, ev, wires, member,
                   sample, receipt, faults>>

validate_evaluation_sample_evidence(a) ==
    \E e \in ev : e.attempt = a /\ e.arm = "fixed" /\ e.part = "grader"
SampleAdmitted(a) == evaluation = "recording" /\ validate_evaluation_sample_evidence(a)
record_evaluation_sample(a) ==
    /\ At(a, "sample")
    /\ IF SampleAdmitted(a) /\ sample.attempt \in {"none", a}
       THEN /\ sample' = [attempt |-> a, bytes |-> (CHOOSE e \in ev : e.attempt = a /\ e.arm = "fixed").bytes]
            /\ Goto(a, "complete")
       ELSE Goto(a, "error") /\ UNCHANGED sample
    /\ UNCHANGED <<controller, tree, row, overlay, sealed, ev, wires, member, evaluation, receipt, faults>>

(* The receipt digest is the sample's; the evaluation run is completed     *)
(* from recording, or already completed with this receipt.                 *)
complete_from_sample(a) ==
    /\ At(a, "complete")
    /\ IF sample # NoSample /\ evaluation \in {"recording", "completed"}
       THEN /\ evaluation' = "completed" /\ receipt' = sample.attempt /\ Goto(a, "done")
       ELSE Goto(a, "error") /\ UNCHANGED <<evaluation, receipt>>
    /\ UNCHANGED <<controller, tree, row, overlay, sealed, ev, wires, member, sample, faults>>

-----------------------------------------------------------------------------
(* A failing step: a registration, command, persistence or append error.   *)
StepFails(a) ==
    /\ Running(a) /\ faults < MaxFaults /\ faults' = faults + 1
    /\ tree' = IF At(a, "register") THEN tree \ {<<a, Arm(a)>>} ELSE tree
    /\ att' = [att EXCEPT ![a].clean = FALSE,
                          ![a].pc = IF @ \in {"materialize", "written", "seal", "candidate", "grade", "persist",
                                                "controller", "grader"}
                                    THEN "remove_error" ELSE "error"]
    /\ sealed' = [sealed EXCEPT ![a] = "none"]
    /\ UNCHANGED <<controller, row, overlay, ev, wires, member, evaluation, sample, receipt>>

Crash(a) ==
    /\ Running(a) /\ faults < MaxFaults /\ faults' = faults + 1
    /\ att' = [att EXCEPT ![a].clean = FALSE, ![a].pc = "dead"]
    /\ UNCHANGED <<controller, tree, row, overlay, sealed, ev, wires, member, evaluation,
                   sample, receipt>>

(* The operator deletes the fixed arm's controller run.  Its worktrees go  *)
(* first.  Then its evidence and worktree rows go with it, and wires and   *)
(* membership stay, unless its evaluation run was started: the append-only *)
(* triggers of status revisions and samples abort the purge.               *)
Purgeable == evaluation = "none"
delete_run ==
    /\ "fixed" \in controller /\ faults < MaxFaults /\ faults' = faults + 1
    /\ att' = [a \in Attempts |-> [att[a] EXCEPT !.clean = @ /\ ~Running(a)]]
    /\ tree' = {k \in tree : ~(k[2] = "fixed" /\ row[k] = "ACTIVE")}
    /\ IF Purgeable
       THEN /\ row' = [k \in DOMAIN row |-> IF k[2] = "fixed" THEN "none" ELSE row[k]]
            /\ ev' = {e \in ev : e.arm # "fixed"}
            /\ controller' = controller \ {"fixed"}
       ELSE /\ row' = [k \in DOMAIN row |->
                         IF k[2] = "fixed" /\ row[k] = "ACTIVE" THEN "REMOVED" ELSE row[k]]
            /\ UNCHANGED <<ev, controller>>
    /\ UNCHANGED <<overlay, sealed, wires, member, evaluation, sample, receipt>>

Init ==
    /\ att = [a \in Attempts |-> New] /\ controller = {} /\ tree = {} /\ ev = {} /\ wires = <<>> /\ member = FALSE
    /\ row = [k \in Attempts \X {"historical", "fixed"} |-> "none"]
    /\ sealed = [a \in Attempts |-> "none"]
    /\ overlay = [arm \in {"historical", "fixed"} |-> "absent"]
    /\ evaluation = "none" /\ sample = NoSample /\ receipt = "none" /\ faults = 0

Next ==
    \/ \E a \in Attempts :
          \/ begin_once(a) \/ ensure_controller_run(a) \/ create_worktree(a)
          \/ create_or_validate_evaluation_worktree(a)
          \/ materialize_overlay(a) \/ OverlayWritten(a) \/ cargo_cache_admission(a)
          \/ SnapshotDrifts(a) \/ run_candidate(a) \/ run_grader(a)
          \/ persist_arm(a) \/ record_evaluation_evidence(a, "controller", "grader")
          \/ record_evaluation_evidence(a, "grader", "remove")
          \/ remove_worktree(a) \/ mark_worktree_removed(a)
          \/ append_wire(a) \/ append_taskset_membership(a) \/ start_evaluation_run(a)
          \/ record_evaluation_sample(a) \/ complete_from_sample(a) \/ StepFails(a) \/ Crash(a)
    \/ delete_run
Spec == Init /\ [][Next]_evaluationVars

-----------------------------------------------------------------------------
(* A completed evaluation names its own sample, and that sample cites      *)
(* evidence of the fixed arm that is still there, for a case that belongs  *)
(* to the launched taskset.                                                *)
CompletionGrounded ==
    evaluation = "completed" =>
        /\ sample # NoSample /\ receipt = sample.attempt
        /\ \E e \in ev : e.arm = "fixed" /\ e.attempt = sample.attempt /\ e.part = "grader"
        /\ evaluation_launch_pins

(* An invocation that fails by no fault of its own and is not disturbed by *)
(* another one or a purge never ends in an error, whatever earlier ones    *)
(* left behind.                                                            *)
RetrySafe == \A a \in Attempts : att[a].pc = "error" => ~att[a].clean

(* A worktree recorded as removed is gone from disk.                       *)
RemovedIsGone == \A k \in DOMAIN row : row[k] = "REMOVED" => k \notin tree

(* No evidence rests on inputs that changed under it, and an invocation    *)
(* that ends otherwise than by dying leaves no sealed directory.           *)
SealedInputs ==
    /\ \A e \in ev : ~e.drifted
    /\ \A a \in Attempts : sealed[a] # "none" => Running(a) \/ att[a].pc = "dead"
EvaluationCustody == CompletionGrounded /\ RetrySafe /\ RemovedIsGone /\ SealedInputs

(* The evidence binds the materialization it was graded on                 *)
(* ("materialization_bound").  The file is shared: another invocation may  *)
(* truncate it between the grading and its registration.                   *)
MaterializationBound == \A e \in ev : e.part # "commands" => e.bytes = "whole"
=============================================================================
