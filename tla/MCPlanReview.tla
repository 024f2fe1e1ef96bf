---------------------------- MODULE MCPlanReview ----------------------------
(***************************************************************************)
(* Three finite instances of PlanReview over the same variables: a run     *)
(* with automatic approval, two revisions, failures and a crash; a manual  *)
(* run whose architect's answers need repair; an interviewed run whose     *)
(* bindings change.  The initial state chooses one.  The constants of the  *)
(* cfg only serve the properties, which do not depend on them.             *)
(***************************************************************************)
EXTENDS PlanReview

VARIABLE scenario

MCFindings == {<<"a", 1>>, <<"b", 1>>}
MCOneFinding == {<<"a", 1>>}

Auto == INSTANCE PlanReview WITH
    Findings <- MCFindings, Interviewed <- FALSE, Automatic <- TRUE, MaxRevisions <- 2,
    MaxBriefs <- 0, MaxCommands <- 1, MaxFailures <- 1, MaxInvalid <- 0, MaxWorlds <- 0
Manual == INSTANCE PlanReview WITH
    Findings <- MCOneFinding, Interviewed <- FALSE, Automatic <- FALSE, MaxRevisions <- 1,
    MaxBriefs <- 0, MaxCommands <- 2, MaxFailures <- 0, MaxInvalid <- 1, MaxWorlds <- 0
Asked == INSTANCE PlanReview WITH
    Findings <- MCOneFinding, Interviewed <- TRUE, Automatic <- FALSE, MaxRevisions <- 1,
    MaxBriefs <- 2, MaxCommands <- 1, MaxFailures <- 0, MaxInvalid <- 0, MaxWorlds <- 1

MCInit == \/ scenario = "automatic" /\ Auto!Init
          \/ scenario = "manual" /\ Manual!Init
          \/ scenario = "interview" /\ Asked!Init
MCNext == /\ UNCHANGED scenario
          /\ \/ scenario = "automatic" /\ Auto!Next
             \/ scenario = "manual" /\ Manual!Next
             \/ scenario = "interview" /\ Asked!Next
MCSpec == MCInit /\ [][MCNext]_<<vars, scenario>> /\ Auto!Fairness
=============================================================================
