----------------------------- MODULE Runner -----------------------------
(***************************************************************************)
(* The command runner and its isolated variant.  A run takes a permit of   *)
(* its resource class, spawns a child in a process group of its own, feeds *)
(* it, captures its output to a file, waits for it up to a timeout, and    *)
(* then terminates and finally kills the group.  The child may fork a      *)
(* descendant that keeps the output pipe, leaves the group or ignores the  *)
(* terminate signal.  Candidates and graders run under Bubblewrap, whose   *)
(* namespace dies with it, a grader on a private copy of its artifact.     *)
(***************************************************************************)
EXTENDS Integers, FiniteSets

CONSTANTS
    Commands,    \* commands of one resource class
    Isolated,    \* those that run under Bubblewrap: candidates and graders
    Fed,         \* those that are given more input than a pipe holds
    Slots,       \* permits of the class
    PipeSize,    \* what the output pipe holds
    MaxOutput    \* bound on what a command writes

VARIABLES
    run,       \* each run: where it stands, whether it timed out, its result
    child,     \* the spawned process
    forked,    \* a descendant of it
    fed,       \* the child has read its input
    pipe,      \* output written, and not yet captured
    artifact,  \* the artifact graders are given
    staged     \* the copy each grader runs on

tree == <<child, forked, fed, pipe>>
vars == <<run, tree, artifact, staged>>

NoProcess == [alive |-> FALSE, exit |-> "none"]
NoFork == [alive |-> FALSE, pipe |-> FALSE, group |-> FALSE, stubborn |-> FALSE]

Init ==
    /\ run = [c \in Commands |-> [pc |-> "idle", timed_out |-> FALSE, result |-> "none"]]
    /\ child = [c \in Commands |-> NoProcess]
    /\ forked = [c \in Commands |-> NoFork]
    /\ fed = [c \in Commands |-> FALSE]
    /\ pipe = [c \in Commands |-> [written |-> 0, captured |-> 0]]
    /\ artifact = "attested"
    /\ staged = [c \in Commands |-> "none"]

Permitted == {"feeding", "running", "terminating", "killing", "capturing"}
Active == {c \in Commands : run[c].pc \in Permitted}
At(c, pc) == run[c].pc = pc
Go(c, pc) == run' = [run EXCEPT ![c].pc = pc]

---------------------------------------------------------------------------
(* The isolated runner: probe, stage, run.                                 *)

Return(c, result) ==
    run' = [run EXCEPT ![c].pc = "returned", ![c].result = result]

\* probe: no namespace boundary, no command.
probe(c, pc) == Go(c, pc) \/ Return(c, "unavailable")

run_candidate(c) ==
    /\ At(c, "idle")
    /\ c \in Isolated
    /\ probe(c, "staged")
    /\ UNCHANGED <<tree, artifact, staged>>

run_grader(c) ==
    /\ At(c, "idle")
    /\ c \in Isolated
    /\ probe(c, "staging")
    /\ UNCHANGED <<tree, artifact, staged>>

\* stage_artifact reads the artifact once, checks what it read, and writes
\* that to a private file; the source may change before the command starts.
stage_by_path(c) == "by path"

stage_bytes(c) == artifact

stage_artifact(c) ==
    /\ At(c, "staging")
    /\ IF artifact = "attested"
       THEN /\ staged' = [staged EXCEPT ![c] = stage_bytes(c)]
            /\ Go(c, "staged")
       ELSE /\ Return(c, "error")
            /\ UNCHANGED staged
    /\ UNCHANGED <<tree, artifact>>

\* Whoever produced the artifact replaces it.
replace_artifact ==
    /\ artifact = "attested"
    /\ artifact' = "replaced"
    /\ UNCHANGED <<run, tree, staged>>

\* What a running grader reads.
Graded(c) == IF staged[c] = "by path" THEN artifact ELSE staged[c]

---------------------------------------------------------------------------
(* CommandRunner::run.                                                     *)

\* acquire, spawn: the child leads a process group of its own.
spawn(c) ==
    /\ IF c \in Isolated THEN At(c, "staged") ELSE At(c, "idle")
    /\ Cardinality(Active) < Slots
    /\ child' = [child EXCEPT ![c].alive = TRUE]
    /\ Go(c, IF c \in Fed THEN "feeding" ELSE "running")
    /\ UNCHANGED <<forked, fed, pipe, artifact, staged>>

\* The input is written before the output is captured and before the timeout
\* starts; a child that dies first breaks the pipe and the run fails, upon
\* which run_grader removes what it staged.
feed(c) ==
    /\ At(c, "feeding")
    /\ \/ /\ fed[c]
          /\ Go(c, "running")
          /\ UNCHANGED staged
       \/ /\ ~ child[c].alive
          /\ ~ fed[c]
          /\ Return(c, "error")
          /\ staged' = [staged EXCEPT ![c] = "none"]
    /\ UNCHANGED <<tree, artifact>>

Unread(c) == pipe[c].written - pipe[c].captured

\* capture_stream runs once the input is written, until the pipe is closed.
capture_stream(c) ==
    /\ run[c].pc \in Permitted \ {"feeding"}
    /\ Unread(c) > 0
    /\ pipe' = [pipe EXCEPT ![c].captured = @ + 1]
    /\ UNCHANGED <<run, child, forked, fed, artifact, staged>>

wait(c) ==
    /\ run[c].pc \in {"running", "terminating", "killing"}
    /\ ~ child[c].alive
    /\ Go(c, "capturing")
    /\ UNCHANGED <<tree, artifact, staged>>

\* A descendant in a namespace dies with it, others when a signal reaches them.
Survives(c, fatal) ==
    /\ forked[c].alive
    /\ c \notin Isolated
    /\ ~ forked[c].group \/ (forked[c].stubborn /\ ~ fatal)

\* signal_isolated_process_group
signal_group(c, fatal) ==
    /\ \E dies \in {TRUE, fatal} :
         /\ child' = [child EXCEPT ![c] = IF dies THEN [alive |-> FALSE, exit |-> "signal"] ELSE @]
         /\ forked' = [forked EXCEPT ![c] =
                         IF dies \/ c \notin Isolated
                         THEN IF Survives(c, fatal) THEN @ ELSE NoFork
                         ELSE @]
    /\ UNCHANGED <<fed, pipe>>

\* The timeout fires while the child runs: terminate the group ...
time_out(c) ==
    /\ At(c, "running")
    /\ child[c].alive
    /\ run' = [run EXCEPT ![c].pc = "terminating", ![c].timed_out = TRUE]
    /\ signal_group(c, FALSE)
    /\ UNCHANGED <<artifact, staged>>

\* ... and kill it when the child has not exited within five seconds.
kill(c) ==
    /\ At(c, "terminating")
    /\ child[c].alive
    /\ Go(c, "killing")
    /\ signal_group(c, TRUE)
    /\ UNCHANGED <<artifact, staged>>

result_by_exit(c) == IF child[c].exit = "ok" THEN "success" ELSE "source_failure"

result_class(c) ==
    IF run[c].timed_out THEN "infrastructure_unavailable"
    ELSE IF child[c].exit = "ok" THEN "success" ELSE "source_failure"

\* join_capture: the run returns once both streams have ended, that is when
\* no process holds the other end of a pipe.
join_nothing(c) == TRUE

join_capture(c) ==
    /\ Unread(c) = 0
    /\ ~ (forked[c].alive /\ forked[c].pipe)

finish(c) ==
    /\ At(c, "capturing")
    /\ join_capture(c)
    /\ Return(c, result_class(c))
    /\ UNCHANGED <<tree, artifact, staged>>

\* The future of the run is dropped: kill_on_drop reaches the child alone.
drop_run(c) ==
    /\ run[c].pc \in Permitted
    /\ Return(c, "dropped")
    /\ child' = [child EXCEPT ![c].alive = FALSE]
    /\ forked' = [forked EXCEPT ![c] = IF c \in Isolated THEN NoFork ELSE @]
    /\ UNCHANGED <<fed, pipe, artifact, staged>>

\* discard removes the spool and the staged copy of a run that has an outcome.
discard(c) ==
    /\ At(c, "returned")
    /\ run[c].result \notin {"error", "dropped"}
    /\ Go(c, "discarded")
    /\ staged' = [staged EXCEPT ![c] = "none"]
    /\ UNCHANGED <<tree, artifact>>

---------------------------------------------------------------------------
(* The command itself.                                                     *)

fork(c) ==
    /\ child[c].alive
    /\ ~ forked[c].alive
    /\ \E p, g, s \in BOOLEAN :
         forked' = [forked EXCEPT ![c] = [alive |-> TRUE, pipe |-> p, group |-> g, stubborn |-> s]]
    /\ UNCHANGED <<run, child, fed, pipe, artifact, staged>>

read_input(c) ==
    /\ c \in Fed
    /\ child[c].alive
    /\ ~ fed[c]
    /\ fed' = [fed EXCEPT ![c] = TRUE]
    /\ UNCHANGED <<run, child, forked, pipe, artifact, staged>>

write_output(c) ==
    /\ child[c].alive \/ (forked[c].alive /\ forked[c].pipe)
    /\ pipe[c].written < MaxOutput
    /\ Unread(c) < PipeSize
    /\ pipe' = [pipe EXCEPT ![c].written = @ + 1]
    /\ UNCHANGED <<run, child, forked, fed, artifact, staged>>

exit(c) ==
    /\ \/ /\ child[c].alive
          /\ \E e \in {"ok", "failed"} :
               child' = [child EXCEPT ![c] = [alive |-> FALSE, exit |-> e]]
          /\ forked' = [forked EXCEPT ![c] = IF c \in Isolated THEN NoFork ELSE @]
       \/ /\ forked[c].alive
          /\ forked' = [forked EXCEPT ![c] = NoFork]
          /\ UNCHANGED child
    /\ UNCHANGED <<run, fed, pipe, artifact, staged>>

---------------------------------------------------------------------------

Controller(c) ==
    run_candidate(c) \/ run_grader(c) \/ stage_artifact(c) \/ spawn(c) \/ feed(c) \/ capture_stream(c)
      \/ wait(c) \/ time_out(c) \/ kill(c) \/ finish(c)

Next ==
    \/ \E c \in Commands :
         \/ Controller(c) \/ drop_run(c) \/ discard(c)
         \/ fork(c) \/ read_input(c) \/ write_output(c) \/ exit(c)
    \/ replace_artifact

Spec == Init /\ [][Next]_vars

\* The controller's tasks and its timers run; nothing is assumed of a command.
FairSpec == Spec /\ \A c \in Commands : WF_vars(Controller(c))

TypeOK ==
    /\ \A c \in Commands :
         /\ run[c].pc \in Permitted \cup {"idle", "staging", "staged", "returned", "discarded"}
         /\ pipe[c].captured <= pipe[c].written
    /\ artifact \in {"attested", "replaced"}

\* The log a finished command leaves is all of its output: nothing is unread,
\* and nothing that could still write to it is alive.
LogComplete ==
    \A c \in Commands :
        /\ run[c].pc = "returned"
        /\ run[c].result \in {"success", "source_failure", "infrastructure_unavailable"}
        => /\ Unread(c) = 0
           /\ ~ child[c].alive
           /\ ~ (forked[c].alive /\ forked[c].pipe)

\* A command succeeds only when its own exit says so and no signal of the
\* runner, however late it came, can have cut it short.
NoFalseSuccess ==
    \A c \in Commands :
        run[c].result = "success" => child[c].exit = "ok" /\ ~ run[c].timed_out

\* A child lives only while its run holds a permit.
PermitCoversChild ==
    /\ \A c \in Commands : child[c].alive => c \in Active
    /\ Cardinality(Active) <= Slots

\* A grader works on the bytes whose digest was checked, whatever becomes of
\* the artifact in the meantime.
GradesAttested ==
    \A c \in Active : staged[c] # "none" => Graded(c) = "attested"

RunnerCustody == LogComplete /\ NoFalseSuccess /\ PermitCoversChild /\ GradesAttested

\* "interrupt gracefully then kill within a bound": a run that has started
\* its command returns.
CommandReturns == \A c \in Commands : c \in Active ~> c \notin Active

\* The same of isolated commands, whose namespace dies with the child.
IsolatedReturns == \A c \in Isolated : c \in Active ~> c \notin Active
=============================================================================
