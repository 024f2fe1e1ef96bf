--------------------------- MODULE MCTaskSchedule ---------------------------
(***************************************************************************)
(* TaskExecution with two tasks on the same paths, in two scenarios over   *)
(* the same variables: independent tasks, with every operator command but  *)
(* stop; and a chain of the two, in either order, with a crash and an App  *)
(* Server exit.  The initial state chooses one.  The constants of the cfg  *)
(* are those of the first.                                                 *)
(***************************************************************************)
EXTENDS TaskExecution, TLC

CONSTANTS t1, t2

VARIABLE scenario       \* "contention", or the task the chain begins with

MCTwo == {t1, t2}
MCIndependent == [t \in MCTwo |-> {}]
MCContend == {MCTwo}
MCSymmetry == Permutations(MCTwo)

Chain(first) == INSTANCE TaskExecution WITH
    Deps <- [t \in MCTwo |-> {first} \ {t}], GithubTasks <- MCTwo \ {first},
    MaxMutable <- 1, MaxVerifiers <- 1,
    MaxCrashes <- 1, MaxExits <- 1, MaxCommands <- 0, Commands <- {}

MCInit == \/ scenario = "contention" /\ Init
          \/ \E first \in MCTwo : scenario = first /\ Chain(first)!Init
MCNext == /\ UNCHANGED scenario
          /\ \/ scenario = "contention" /\ Next
             \/ \E first \in MCTwo : scenario = first /\ Chain(first)!Next
MCSpec == MCInit /\ [][MCNext]_<<vars, scenario>>

-----------------------------------------------------------------------------
(* An attempt starts only from dependencies a verifier has accepted, also  *)
(* after a restart or an exit in the middle of a launch or a verdict.      *)
DependentsWait ==
    \A first \in MCTwo : scenario = first => Chain(first)!DependenciesAccepted
=============================================================================
