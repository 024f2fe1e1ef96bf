--------------------------- MODULE MCTaskProgress ---------------------------
(***************************************************************************)
(* Two instances of TaskExecution over the same variables, with fairness:  *)
(* two tasks that share one worker and one verifier slot; and one task,    *)
(* under a profile without the review-ready gate, whose run the operator   *)
(* stops.  The initial state chooses one.  The constants of the cfg are    *)
(* those of the first.                                                     *)
(***************************************************************************)
EXTENDS TaskExecution, TLC

CONSTANTS t1, t2, s1   \* tasks that share the slots; the task of the stopped run

VARIABLE scenario

MCTwo == {t1, t2}
MCIndependent == [t \in MCTwo |-> {}]

Stopped == INSTANCE TaskExecution WITH
    Tasks <- {s1}, Deps <- [t \in {s1} |-> {}], MaxVerifiers <- 2, MaxTotal <- 3,
    MaxCommands <- 1, Commands <- {"stop"}, ReviewReady <- FALSE

MCInit == \/ scenario = "shared" /\ Init
          \/ scenario = "stopped" /\ Stopped!Init
MCNext == /\ UNCHANGED scenario
          /\ \/ scenario = "shared" /\ Next
             \/ scenario = "stopped" /\ Stopped!Next

(* TaskExecution's Fairness for the instance that runs.                    *)
MCFairness ==
    /\ WF_vars(\/ scenario = "shared" /\ Maintenance
               \/ scenario = "stopped" /\ Stopped!Maintenance)
    /\ SF_vars(/\ \/ scenario = "shared" /\ TickCount("maint")
                  \/ scenario = "stopped" /\ Stopped!TickCount("maint")
               /\ pc'["maint"] = "tk_review")
    /\ SF_vars(/\ \/ scenario = "shared" /\ GateBegins("maint")
                  \/ scenario = "stopped" /\ Stopped!GateBegins("maint")
               /\ pc'["maint"] # "idle")
    /\ SF_vars(/\ \/ scenario = "shared" /\ run_review_ready_validation_gate("maint")
                  \/ scenario = "stopped" /\ Stopped!run_review_ready_validation_gate("maint")
               /\ pc'["maint"] # "idle")
    /\ SF_vars(\/ scenario = "shared" /\ github_capability("maint", TRUE)
               \/ scenario = "stopped" /\ Stopped!github_capability("maint", TRUE))
    /\ WF_vars(\/ scenario = "shared" /\ PumpGoesOn
               \/ scenario = "stopped" /\ Stopped!PumpGoesOn)
    /\ SF_vars(\/ scenario = "shared" /\ TickBegin("pump")
               \/ scenario = "stopped" /\ Stopped!TickBegin("pump"))
    /\ \A o \in Operators :
          WF_vars(\/ scenario = "shared" /\ OperatorGoesOn(o)
                  \/ scenario = "stopped" /\ Stopped!OperatorGoesOn(o))
MCSpec == MCInit /\ [][MCNext]_<<vars, scenario>> /\ MCFairness

-----------------------------------------------------------------------------
(* Nothing waits for the scheduler for ever, although gates, launches and  *)
(* verdicts may fail and the slots are scarce: a task does not stay        *)
(* REVIEW_READY (t1 and t2 are alike); a task does not stay READY while    *)
(* its run executes unpaused, nor a run EXECUTING while its tasks are all  *)
(* VERIFIED.                                                               *)
Waiting ==
    CASE scenario = "shared" -> task[t1] = "REVIEW_READY"
      [] scenario = "stopped" -> /\ run = "EXECUTING"
                                 /\ Stopped!AllVerified \/ (task[s1] = "READY" /\ ~paused)

(* A run stopped before its candidate is prepared ends in CANCELED, with   *)
(* or without interrupts, whatever tick and the pump were doing.           *)
StopEnds ==
    (scenario = "stopped" /\ run = "STOPPING" /\ integration = "none") ~> run = "CANCELED"

(* tick never runs more mutable workers than max_mutable_tasks, although   *)
(* it counts them once per pass and not again before each launch.          *)
SharedSlotRespected == scenario = "shared" => MutableLimit
=============================================================================
