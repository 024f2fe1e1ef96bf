-------------------------- MODULE CandidateCustody --------------------------
(***************************************************************************)
(* How an agent's uncommitted edits become a commit of the run: the diff   *)
(* custody of harness-git and its callers in the orchestrator.             *)
(*                                                                         *)
(* A task has a `current` worktree and, on a retry, the `prior` one.  At   *)
(* launch the controller may copy the prior attempt's edits               *)
(* (materialize_prior_attempt_candidate).  When the turn has ended it may  *)
(* copy a governor's attested tree (recover_governor_candidate), inspects  *)
(* the diff (verify_diff), commits it (commit), runs a validator between   *)
(* two fingerprints (execute_validator) and hands the exact patch to a     *)
(* reviewer (exact_clean_patch).  Every git command is a step of its own,  *)
(* so a process the agent left behind can edit files between two of them.  *)
(*                                                                         *)
(* A tree gives every file its content.  A path is one of three: two the   *)
(* task owns and one it does not.  Content "-" is an absent file, "w" one  *)
(* that `git diff --check` complains about.                                *)
(***************************************************************************)
EXTENDS Integers, FiniteSets

CONSTANTS
    MaxFiles,     \* diff_budget.files of the task packet
    MaxEdits,     \* bound: edits the agent makes in a turn
    MaxStrays,    \* bound: edits of a process that outlives the turn
    MaxFaults     \* bound: git commands that fail

Files == {"owned", "moved", "foreign"}
Absent == "-"
Contents == {"a", "b", "w", Absent}
Base == [f \in Files |-> IF f = "moved" THEN Absent ELSE "a"]
None == [none |-> TRUE]

VARIABLES
    tree,        \* worktree -> [head, index, work]
    stage,       \* where the controller is in the attempt
    candidate,   \* the governor's attested candidate tree, or None
    seen,        \* what the verify_diff under way has read so far
    verified,    \* the VerifiedDiff it returned
    commit_sha,  \* tree of the controller's commit, or None
    review,      \* patch given to the evidence reviewer, or None
    print,       \* fingerprint taken before the validator
    proof,       \* outcome of the validator
    raced,       \* a stray edit happened since the last inspection began
    copied,      \* the continuity receipt's prior_candidate_copied
    edits, strays, faults

vars == <<tree, stage, candidate, seen, verified, commit_sha, review, print,
          proof, raced, copied, edits, strays, faults>>

Worktrees == {"prior", "current"}

(***************************************************************************)
(* What git reports.                                                       *)
(***************************************************************************)

\* The tree `git diff <base>` compares with: files git does not track are
\* invisible to it.
Tracked(t) == [f \in Files |-> IF t.index[f] = Absent THEN Absent ELSE t.work[f]]

\* git ls-files --others --exclude-standard
Untracked(t) == {f \in Files : t.index[f] = Absent /\ t.work[f] # Absent}

\* Pairs that rename detection folds into one entry.
Renames(old, new) ==
    {p \in Files \X Files : /\ old[p[1]] # Absent /\ new[p[1]] = Absent
                            /\ old[p[2]] = Absent /\ new[p[2]] = old[p[1]]}

\* git diff --name-only --find-renames: a renamed file is listed by its new
\* name only.
NameOnly(old, new) ==
    {f \in Files : old[f] # new[f]} \ {p[1] : p \in Renames(old, new)}

\* Mutant: the untracked files are not added to the list.
changed_paths_tracked(t) == NameOnly(Base, Tracked(t))

changed_paths(t) == NameOnly(Base, Tracked(t)) \cup Untracked(t)

\* git status --porcelain=v2 is empty.
Clean(t) == t.work = t.index /\ t.index = t.head

\* git diff --check <base>: tracked changes only.
diff_check(t) == {f \in Files : Tracked(t)[f] = "w" /\ Base[f] # "w"}

\* git diff --numstat, plus the lines of the untracked files that were listed;
\* a file has one line, a renamed one no changed line.
Lines(t, others) ==
    LET new == Tracked(t)
        moved == Renames(Base, new)
        changed == {f \in Files : Base[f] # new[f]}
        added == {f \in changed : new[f] # Absent} \ {p[2] : p \in moved}
        deleted == {f \in changed : Base[f] # Absent} \ {p[1] : p \in moved}
    IN <<Cardinality(added \cup others), Cardinality(deleted)>>

\* The binary patch: tracked changes and every untracked file that was listed.
PatchOf(t, others) == [f \in Files |-> IF f \in others THEN t.work[f] ELSE Tracked(t)[f]]

\* owned_paths of the policy; everything else is unexpected.
OwnedPaths == {"owned", "moved"}
unexpected_paths(names) == names \ OwnedPaths

acceptable(v) == v.unexpected = {} /\ v.check = {}

Fails == faults < MaxFaults /\ faults' = faults + 1
Succeeds == UNCHANGED faults

-----------------------------------------------------------------------------

Init ==
    /\ tree \in [Worktrees -> {[head |-> Base, index |-> Base, work |-> Base]}]
    /\ stage = "prior_work"
    /\ candidate = None
    /\ seen = None
    /\ verified = None
    /\ commit_sha = None
    /\ review = None
    /\ print = None
    /\ proof = "none"
    /\ raced = FALSE
    /\ copied = FALSE
    /\ edits = 0
    /\ strays = 0
    /\ faults = 0

Rest == <<candidate, seen, verified, commit_sha, review, print, proof, copied>>

\* The worktree whose agent is at work.
Working == IF stage = "prior_work" THEN "prior" ELSE "current"

\* What one edit does to a working tree: a write, a deletion, or a move.
Edited(work) ==
    {[work EXCEPT ![f] = c] : f \in Files, c \in Contents \ {"a"}}
        \cup {[work EXCEPT ![s] = Absent, ![d] = work[s]] :
                s \in {f \in Files : work[f] # Absent}, d \in Files}

\* External: the agent edits files during its turn.
agent_edit ==
    /\ stage \in {"prior_work", "implementing"}
    /\ edits < MaxEdits
    /\ \E w \in Edited(tree[Working].work) :
         /\ w # tree[Working].work
         /\ tree' = [tree EXCEPT ![Working].work = w]
    /\ edits' = edits + 1
    /\ UNCHANGED <<stage, raced, strays, faults, Rest>>

\* External: the agent commits, which the controller forbids.
agent_commit ==
    /\ stage \in {"prior_work", "implementing"}
    /\ ~Clean(tree[Working])
    /\ tree' = [tree EXCEPT ![Working] =
                  [head |-> @.work, index |-> @.work, work |-> @.work]]
    /\ UNCHANGED <<stage, raced, edits, strays, faults, Rest>>

\* External: a governor leaves an attested tree in an object directory.
attest_candidate ==
    /\ stage = "implementing"
    /\ candidate = None
    /\ \E t \in Edited(Base) : candidate' = t
    /\ UNCHANGED <<tree, stage, seen, verified, commit_sha, review, print, proof,
                   raced, copied, edits, strays, faults>>

\* External: a process the agent started outlives its turn and writes.
stray_edit ==
    /\ strays < MaxStrays
    /\ \E w \in Worktrees, f \in Files, c \in {"a", "b"} :
         /\ stage \in (IF w = "prior" THEN {"inspect_prior", "inspect_prior_patch"}
                       ELSE {"recover", "inspect", "inspect_patch", "add", "commit",
                             "gate", "snapshot", "validate", "compare", "review"})
         /\ tree[w].work[f] # c
         /\ tree' = [tree EXCEPT ![w].work[f] = c]
    /\ strays' = strays + 1
    /\ raced' = TRUE
    /\ UNCHANGED <<stage, edits, faults, Rest>>

-----------------------------------------------------------------------------

\* verify_diff, first commands: HEAD, status and the changed paths.
VerifyNames(t) ==
    seen' = [head |-> t.head, names |-> changed_paths(t), others |-> Untracked(t)]

\* verify_diff, last commands: line counts, budgets, `diff --check`, the patch.
VerifyPatch(t) ==
    verified' = [head |-> seen.head, names |-> seen.names,
                 unexpected |-> unexpected_paths(seen.names),
                 lines |-> Lines(t, seen.others), check |-> diff_check(t),
                 patch |-> PatchOf(t, seen.others)]

WithinBudget == Cardinality(seen.names) <= MaxFiles

\* The prior turn ends and a retry is launched.
start_retry ==
    /\ stage = "prior_work"
    /\ stage' = "inspect_prior"
    /\ edits' = 0
    /\ UNCHANGED <<tree, raced, strays, faults, Rest>>

\* materialize_prior_attempt_candidate: inspect the prior worktree.
inspect_prior ==
    /\ stage = "inspect_prior"
    /\ \/ /\ VerifyNames(tree["prior"])
          /\ stage' = "inspect_prior_patch"
          /\ Succeeds
       \/ stage' = "implementing" /\ seen' = None /\ Fails
    /\ UNCHANGED <<tree, candidate, verified, commit_sha, review, print, proof,
                   raced, copied, edits, strays>>

\* ... and decide: anything but an acceptable, uncommitted, non-empty diff
\* is left behind.
inspect_prior_patch ==
    /\ stage = "inspect_prior_patch"
    /\ IF WithinBudget
       THEN /\ VerifyPatch(tree["prior"])
            /\ stage' = IF /\ acceptable(verified') /\ verified'.head = Base
                           /\ verified'.names # {}
                        THEN "materialize" ELSE "implementing"
       ELSE stage' = "implementing" /\ UNCHANGED verified
    /\ seen' = None
    /\ UNCHANGED <<tree, candidate, commit_sha, review, print, proof, raced,
                   copied, edits, strays, faults>>

\* materialize_verified_diff: check the target, apply the patch to index and
\* files.
materialize ==
    /\ stage = "materialize"
    /\ IF /\ tree["current"].head = Base /\ Clean(tree["current"])
          /\ verified.patch # Base
       THEN \/ /\ tree' = [tree EXCEPT !["current"].index = verified.patch,
                                       !["current"].work = verified.patch]
               /\ stage' = "materialized"
               /\ Succeeds
            \/ stage' = "done" /\ UNCHANGED tree /\ Fails
       ELSE stage' = "done" /\ UNCHANGED <<tree, faults>>
    /\ UNCHANGED <<raced, edits, strays, Rest>>

\* Mutant: the summary of the result is not compared.
SummaryMatchesAlways(t) == TRUE

\* The comparison of diff_summary with what was verified: head, paths and
\* numbers of lines, not contents.
SummaryMatches(t) ==
    /\ t.head = Base
    /\ changed_paths(t) = verified.names
    /\ Lines(t, Untracked(t)) = verified.lines

\* ... and prove that the result is what was verified; otherwise the launch
\* fails.
check_materialized ==
    /\ stage = "materialized"
    /\ LET t == tree["current"] IN
       IF t.head = Base /\ ~Clean(t) /\ diff_check(t) = {} /\ SummaryMatches(t)
       THEN stage' = "implementing" /\ copied' = TRUE
       ELSE stage' = "done" /\ UNCHANGED copied
    /\ UNCHANGED <<tree, candidate, seen, verified, commit_sha, review, print,
                   proof, raced, edits, strays, faults>>

-----------------------------------------------------------------------------

\* The turn ends: finalize_worker begins.
turn_completed ==
    /\ stage = "implementing"
    /\ stage' = "recover"
    /\ raced' = FALSE
    /\ UNCHANGED <<tree, edits, strays, faults, Rest>>

\* recover_governor_candidate with materialize_candidate_tree: a failure is
\* only recorded.  The candidate is not read again.
recover_governor_candidate ==
    /\ stage = "recover"
    /\ stage' = "inspect"
    /\ IF /\ candidate # None /\ candidate # Base
          /\ tree["current"].head = Base /\ Clean(tree["current"])
       THEN \/ /\ tree' = [tree EXCEPT !["current"].index = candidate,
                                       !["current"].work = candidate]
               /\ Succeeds
            \/ UNCHANGED tree /\ Fails
       ELSE UNCHANGED <<tree, faults>>
    /\ candidate' = None
    /\ UNCHANGED <<seen, verified, commit_sha, review, print, proof, raced, copied, edits,
                   strays>>

\* finalize_worker: verify_diff reads HEAD and the names ...
inspect ==
    /\ stage = "inspect"
    /\ \/ /\ VerifyNames(tree["current"])
          /\ raced' = FALSE
          /\ stage' = "inspect_patch"
          /\ Succeeds
       \/ stage' = "done" /\ UNCHANGED <<seen, raced>> /\ Fails
    /\ UNCHANGED <<tree, candidate, verified, commit_sha, review, print, proof,
                   copied, edits, strays>>

\* Mutant: a commit of the agent is taken for its diff.
ReadyToCommitAnyHead(v) == acceptable(v) /\ v.names # {}

\* What finalize_worker lets through: an acceptable diff that is not empty
\* and not committed by the agent.
ReadyToCommit(v) == acceptable(v) /\ v.names # {} /\ v.head = Base

\* ... and then the patch.
inspect_patch ==
    /\ stage = "inspect_patch"
    /\ IF WithinBudget
       THEN /\ VerifyPatch(tree["current"])
            /\ stage' = IF ReadyToCommit(verified') THEN "add" ELSE "done"
       ELSE stage' = "done" /\ UNCHANGED verified
    /\ seen' = None
    /\ UNCHANGED <<tree, candidate, commit_sha, review, print, proof, raced,
                   copied, edits, strays, faults>>

\* commit: `git add --all` ...
add_all ==
    /\ stage = "add"
    /\ \/ /\ tree' = [tree EXCEPT !["current"].index = tree["current"].work]
          /\ stage' = "commit"
          /\ Succeeds
       \/ UNCHANGED tree /\ stage' = "done" /\ Fails
    /\ UNCHANGED <<raced, edits, strays, Rest>>

\* ... and `git commit`; a failure leaves the index staged.
commit ==
    /\ stage = "commit"
    /\ \/ /\ tree["current"].index # tree["current"].head
          /\ tree' = [tree EXCEPT !["current"].head = tree["current"].index]
          /\ commit_sha' = tree["current"].index
          /\ stage' = "gate"
          /\ Succeeds
       \/ UNCHANGED <<tree, commit_sha>> /\ stage' = "done" /\ Fails
       \/ /\ tree["current"].index = tree["current"].head
          /\ UNCHANGED <<tree, commit_sha, faults>>
          /\ stage' = "done"
    /\ UNCHANGED <<candidate, seen, verified, review, print, proof, raced,
                   copied, edits, strays>>

-----------------------------------------------------------------------------

\* worktree_snapshot: HEAD, index and every file, tracked or not.
worktree_snapshot(t) == t

\* execute_validator: HEAD must be the recorded one; worktree_fingerprint
\* takes two snapshots that must agree.
fingerprint_before ==
    /\ stage = "gate"
    /\ IF tree["current"].head = commit_sha
       THEN print' = worktree_snapshot(tree["current"]) /\ stage' = "snapshot"
       ELSE stage' = "done" /\ UNCHANGED print
    /\ UNCHANGED <<tree, candidate, seen, verified, commit_sha, review, proof,
                   raced, copied, edits, strays, faults>>

second_snapshot ==
    /\ stage = "snapshot"
    /\ stage' = IF worktree_snapshot(tree["current"]) = print THEN "validate"
                ELSE "done"
    /\ UNCHANGED <<tree, raced, edits, strays, faults, Rest>>

\* The validator runs, and may write to the checkout itself.
run_validator ==
    /\ stage = "validate"
    /\ stage' = "compare"
    /\ \/ UNCHANGED tree
       \/ \E f \in Files : tree' = [tree EXCEPT !["current"].work[f] = "b"]
    /\ \E r \in {"passed", "failed"} : proof' = r
    /\ UNCHANGED <<candidate, seen, verified, commit_sha, review, print, raced,
                   copied, edits, strays, faults>>

\* Mutant: only HEAD is compared after the validator.
SourceUnchangedHead(t) == t.head = print.head

\* source_unchanged
SourceUnchanged(t) == t.head = print.head /\ worktree_snapshot(t) = print

\* A validator that changed the checkout is a source failure.
fingerprint_after ==
    /\ stage = "compare"
    /\ stage' = "review"
    /\ proof' = IF SourceUnchanged(tree["current"]) THEN proof ELSE "failed"
    /\ UNCHANGED <<tree, candidate, seen, verified, commit_sha, review, print,
                   raced, copied, edits, strays, faults>>

\* qwodex_evidence_only_review_packet with exact_clean_patch: the patch
\* between two commits, only from a clean checkout at the recorded head.
exact_clean_patch ==
    /\ stage = "review"
    /\ stage' = "done"
    /\ review' = IF tree["current"].head = commit_sha /\ Clean(tree["current"])
                 THEN commit_sha ELSE None
    /\ UNCHANGED <<tree, candidate, seen, verified, commit_sha, print, proof,
                   raced, copied, edits, strays, faults>>

Done == stage = "done" /\ UNCHANGED vars

Next ==
    \/ agent_edit \/ agent_commit \/ attest_candidate \/ stray_edit
    \/ start_retry \/ inspect_prior \/ inspect_prior_patch
    \/ materialize \/ check_materialized
    \/ turn_completed \/ recover_governor_candidate
    \/ inspect \/ inspect_patch \/ add_all \/ commit
    \/ fingerprint_before \/ second_snapshot \/ run_validator
    \/ fingerprint_after \/ exact_clean_patch
    \/ Done

Spec == Init /\ [][Next]_vars

-----------------------------------------------------------------------------

\* Unless a stray process writes between inspection and commit, the commit is
\* exactly what verify_diff saw; and then no path outside the task's is
\* changed, except the source of a move that git reported as a rename.
CommitIsVerified ==
    commit_sha # None /\ ~raced =>
        /\ commit_sha = verified.patch
        /\ verified.head = Base
        /\ \A f \in Files \ OwnedPaths :
             commit_sha[f] # Base[f] =>
                \E d \in OwnedPaths : <<f, d>> \in Renames(Base, commit_sha)

\* The receipt that says the prior candidate was copied is true: when the
\* worker starts, its worktree is the base plus exactly the edits that were
\* verified in the prior worktree, with no new content outside the owned
\* paths even if the prior agent's processes still wrote during inspection.
CopiedIsVerified ==
    stage = "implementing" /\ copied /\ edits = 0 =>
        /\ tree["current"].work = verified.patch
        /\ \A f \in Files \ OwnedPaths :
             tree["current"].work[f] \in {Base[f], Absent}

\* A validator's success is proof about the committed tree: the files it ran
\* on were those of the commit, from the first snapshot to the last, unless
\* somebody else wrote to the checkout in between.
ProofIsAboutCommit ==
    proof = "passed" /\ stage \in {"review", "done"} =>
        /\ print.head = commit_sha
        /\ ~raced => print.work = commit_sha /\ tree["current"].work = commit_sha

\* The evidence reviewer is shown the commit that was made.
ReviewedIsCommitted == review # None => review = commit_sha

CandidateSound ==
    /\ CommitIsVerified
    /\ CopiedIsVerified
    /\ ProofIsAboutCommit
    /\ ReviewedIsCommitted

\* "only leased paths changed": the controller's commit touches no path
\* outside the task's.
OnlyLeasedPathsChanged ==
    commit_sha # None /\ ~raced =>
        \A f \in Files \ OwnedPaths : commit_sha[f] = Base[f]

=============================================================================
