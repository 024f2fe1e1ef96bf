--------------------------- MODULE EvidenceStore ---------------------------
(***************************************************************************)
(* Artifacts, command records, validations and evidence of several runs in *)
(* one database.  Artifacts are content addressed: the first run that      *)
(* produces some bytes owns their row and every later run shares it, so    *)
(* purging one run, sweeping aged records and registering the output of an *)
(* evaluation all meet rows of other runs.  Foreign keys are enforced: a   *)
(* transaction that would leave a reference to a removed row is refused.   *)
(***************************************************************************)
EXTENDS Naturals, FiniteSets

CONSTANTS
    Runs,         \* ordinary runs
    Evaluations,  \* controller runs of evaluations
    Contents,     \* contents of a captured stream ("empty" is a usual one)
    MaxJobs,      \* bound on commands whose output is recorded
    MaxFaults     \* bound on crashes

VARIABLES
    run,        \* live, stopped or deleted
    blobs,      \* contents held by the artifact directory
    artifact,   \* artifacts row of each content
    command,    \* command_runs rows
    validation, \* validations rows
    evidence,   \* evidence_records rows
    link,       \* evidence_artifacts rows: evidence, artifact
    binding,    \* artifact_run_bindings rows: artifact, run
    transcript, \* a raw event: fresh, aged or swept
    job,        \* command whose output a run is recording
    refused,    \* operations the database has refused
    ids, jobs, faults

evidenceVars == <<run, blobs, artifact, command, validation, evidence, link, binding, transcript,
                  job, refused, ids, jobs, faults>>

All == Runs \cup Evaluations
NoArtifact == [id |-> 0, run |-> "", envelope |-> "none"]
NoJob == [pc |-> "idle", kind |-> "validator", content |-> "", art |-> 0, cmd |-> 0, val |-> 0, ev |-> 0]
Envelope(r) == IF r \in Evaluations THEN "evaluation" ELSE "validation"
ArtifactRows == {artifact[c] : c \in Contents} \ {NoArtifact}
IsArtifact(i) == \E a \in ArtifactRows : a.id = i

Job(r, j) == job' = [job EXCEPT ![r] = j]
At(r, pc) == job[r].pc = pc
Error(r) == /\ Job(r, NoJob)
            /\ UNCHANGED <<run, blobs, artifact, command, validation, evidence, link, binding,
                           transcript, ids, jobs, faults>>

-----------------------------------------------------------------------------
(* A command has run and its stream is in the spool.                       *)
runner_run(r, kind, c) ==
    /\ At(r, "idle") /\ run[r] = "live" /\ jobs < MaxJobs /\ jobs' = jobs + 1
    /\ kind \in (IF r \in Evaluations THEN {"evaluation"} ELSE {"validator", "publication"})
    /\ Job(r, [NoJob EXCEPT !.pc = "register", !.kind = kind, !.content = c])
    /\ UNCHANGED <<run, blobs, artifact, command, validation, evidence, link, binding, transcript,
                   refused, ids, faults>>

(* put_file publishes the bytes under their digest; register_artifact      *)
(* returns the row that already owns them, whoever registered it.          *)
Registered(r, c) ==
    IF artifact[c] # NoArtifact THEN artifact[c]
    ELSE [id |-> ids, run |-> r, envelope |-> Envelope(r)]
InsertArtifact(r, c) ==
    /\ blobs' = blobs \cup {c}
    /\ artifact' = [artifact EXCEPT ![c] = Registered(r, c)]
    /\ ids' = IF artifact[c] = NoArtifact THEN ids + 1 ELSE ids

register_command_artifact(r) ==
    /\ At(r, "register") /\ job[r].kind # "evaluation"
    /\ \/ /\ artifact[job[r].content] # NoArtifact \/ run[r] # "deleted"
          /\ InsertArtifact(r, job[r].content)
          /\ Job(r, [job[r] EXCEPT !.pc = "command", !.art = Registered(r, job[r].content).id])
          /\ UNCHANGED <<run, command, validation, evidence, link, binding, transcript, refused,
                         jobs, faults>>
       \/ /\ artifact[job[r].content] = NoArtifact /\ run[r] = "deleted"
          /\ Error(r) /\ UNCHANGED refused

(* An evaluation shares a row only when its envelope is the evaluation's.  *)
AnyEnvelope(r, c) == TRUE
common_matches(r, c) == artifact[c] # NoArtifact => artifact[c].envelope = Envelope(r)

register_or_validate_evaluation_artifact(r) ==
    /\ At(r, "register") /\ job[r].kind = "evaluation"
    /\ IF common_matches(r, job[r].content) /\ run[r] # "deleted"
       THEN /\ InsertArtifact(r, job[r].content)
            /\ binding' = binding \cup {<<Registered(r, job[r].content).id, r>>}
            /\ Job(r, [job[r] EXCEPT !.pc = "command", !.art = Registered(r, job[r].content).id])
            /\ UNCHANGED <<run, command, validation, evidence, link, transcript, refused, jobs, faults>>
       ELSE /\ Error(r)
            /\ refused' = IF run[r] = "deleted" THEN refused ELSE refused \cup {"evaluation"}

record_command(r) ==
    /\ At(r, "command")
    /\ IF run[r] # "deleted" /\ IsArtifact(job[r].art)
       THEN /\ command' = command \cup {[id |-> ids, run |-> r, art |-> job[r].art, aged |-> FALSE]}
            /\ ids' = ids + 1
            /\ Job(r, IF job[r].kind = "publication" THEN NoJob
                      ELSE [job[r] EXCEPT !.pc = "validation", !.cmd = ids])
            /\ UNCHANGED <<run, blobs, artifact, validation, evidence, link, binding, transcript,
                           refused, jobs, faults>>
       ELSE Error(r) /\ UNCHANGED refused

record_validation(r) ==
    /\ At(r, "validation")
    /\ IF \E c \in command : c.id = job[r].cmd
       THEN /\ validation' = validation \cup {[id |-> ids, run |-> r, cmd |-> job[r].cmd]}
            /\ ids' = ids + 1 /\ Job(r, [job[r] EXCEPT !.pc = "evidence", !.val = ids])
            /\ UNCHANGED <<run, blobs, artifact, command, evidence, link, binding, transcript,
                           refused, jobs, faults>>
       ELSE Error(r) /\ UNCHANGED refused

(* EvidenceService::record stores the stream again, records the evidence   *)
(* and links its artifacts in statements of their own.                     *)
record_evidence(r) ==
    /\ At(r, "evidence") /\ job[r].kind = "validator"
    /\ IF run[r] = "deleted" THEN Error(r) /\ UNCHANGED refused
       ELSE LET a == Registered(r, job[r].content).id IN
            /\ blobs' = blobs \cup {job[r].content}
            /\ artifact' = [artifact EXCEPT ![job[r].content] = Registered(r, job[r].content)]
            /\ evidence' = evidence \cup {[id |-> ids + 1, run |-> r, val |-> job[r].val, art |-> a,
                                           complete |-> FALSE, sampled |-> FALSE]}
            /\ ids' = ids + 2
            /\ Job(r, [job[r] EXCEPT !.pc = "link", !.art = a, !.ev = ids + 1])
            /\ UNCHANGED <<run, command, validation, link, binding, transcript, refused, jobs, faults>>

(* An evaluation's evidence and its links are one transaction.             *)
record_or_validate_evaluation_evidence(r) ==
    /\ At(r, "evidence") /\ job[r].kind = "evaluation"
    /\ IF run[r] = "deleted" \/ <<job[r].art, r>> \notin binding THEN Error(r) /\ UNCHANGED refused
       ELSE /\ evidence' = evidence \cup {[id |-> ids, run |-> r, val |-> job[r].val,
                                           art |-> job[r].art, complete |-> TRUE, sampled |-> FALSE]}
            /\ link' = link \cup {<<ids, job[r].art>>} /\ ids' = ids + 1 /\ Job(r, NoJob)
            /\ UNCHANGED <<run, blobs, artifact, command, validation, binding, transcript, refused,
                           jobs, faults>>

link_evidence_artifact(r) ==
    /\ At(r, "link")
    /\ IF IsArtifact(job[r].art) /\ \E e \in evidence : e.id = job[r].ev
       THEN /\ link' = link \cup {<<job[r].ev, job[r].art>>}
            /\ evidence' = {IF e.id = job[r].ev THEN [e EXCEPT !.complete = TRUE] ELSE e : e \in evidence}
            /\ Job(r, NoJob)
            /\ UNCHANGED <<run, blobs, artifact, command, validation, binding, transcript, refused,
                           ids, jobs, faults>>
       ELSE Error(r) /\ UNCHANGED refused

(* The evaluation is started and its sample cites the evidence.            *)
record_evaluation_sample(r) ==
    /\ run[r] # "deleted"
    /\ \E e \in evidence :
          /\ e.run = r /\ r \in Evaluations /\ e.complete /\ ~e.sampled
          /\ evidence' = (evidence \ {e}) \cup {[e EXCEPT !.sampled = TRUE]}
    /\ UNCHANGED <<run, blobs, artifact, command, validation, link, binding, transcript, job,
                   refused, ids, jobs, faults>>

-----------------------------------------------------------------------------
(* Purge of one run: the links to its artifacts go first, then the run and *)
(* what cascades from it.                                                  *)
stop_run(r) ==
    /\ run[r] = "live" /\ run' = [run EXCEPT ![r] = "stopped"]
    /\ UNCHANGED <<blobs, artifact, command, validation, evidence, link, binding, transcript, job,
                   refused, ids, jobs, faults>>

Owned(r) == {a.id : a \in {b \in ArtifactRows : b.run = r}}
ForeignKeysOff(r) == TRUE
\* An export is an artifact of its own run's bytes and never stands in the way.
ForeignKeysHold(r) ==
    /\ \A c \in command : c.run # r => c.art \notin Owned(r)
    /\ \A b \in binding : b[2] # r => b[1] \notin Owned(r)
\* The triggers of samples and status revisions abort every deletion of one.
AppendOnly(r) == \E e \in evidence : e.run = r /\ e.sampled

delete_run(r) ==
    /\ run[r] = "stopped"
    /\ IF ForeignKeysHold(r) /\ ~AppendOnly(r)
       THEN /\ run' = [run EXCEPT ![r] = "deleted"]
            /\ artifact' = [c \in Contents |-> IF artifact[c].run = r THEN NoArtifact ELSE artifact[c]]
            /\ command' = {c \in command : c.run # r}
            /\ validation' = {v \in validation : v.run # r}
            /\ evidence' = {e \in evidence : e.run # r}
            /\ link' = {l \in link : l[2] \notin Owned(r) /\ \A e \in evidence : e.id = l[1] => e.run # r}
            /\ binding' = {b \in binding : b[2] # r}
            /\ UNCHANGED refused
       ELSE /\ refused' = refused \cup {"delete"}
            /\ UNCHANGED <<run, artifact, command, validation, evidence, link, binding>>
    /\ UNCHANGED <<blobs, transcript, job, ids, jobs, faults>>

(* One transaction removes aged raw events and aged command records.       *)
Cited(c) == \E v \in validation : v.cmd = c.id
sweep_retention ==
    /\ LET aged == {c \in command : c.aged} IN
       /\ transcript = "aged" \/ aged # {}
       /\ IF \A c \in aged : ~Cited(c)
          THEN /\ command' = command \ aged /\ UNCHANGED refused
               /\ transcript' = IF transcript = "aged" THEN "swept" ELSE transcript
          ELSE refused' = refused \cup {"sweep"} /\ UNCHANGED <<command, transcript>>
    /\ UNCHANGED <<run, blobs, artifact, validation, evidence, link, binding, job, ids, jobs, faults>>

TimePasses ==
    /\ transcript = "fresh" /\ transcript' = "aged"
    /\ command' = {[c EXCEPT !.aged = TRUE] : c \in command}
    /\ UNCHANGED <<run, blobs, artifact, validation, evidence, link, binding, job, refused, ids,
                   jobs, faults>>

Crash ==
    /\ faults < MaxFaults /\ faults' = faults + 1 /\ job' = [r \in All |-> NoJob]
    /\ UNCHANGED <<run, blobs, artifact, command, validation, evidence, link, binding, transcript,
                   refused, ids, jobs>>

Init ==
    /\ run = [r \in All |-> "live"] /\ blobs = {} /\ artifact = [c \in Contents |-> NoArtifact]
    /\ command = {} /\ validation = {} /\ evidence = {} /\ link = {} /\ binding = {}
    /\ transcript = "fresh" /\ job = [r \in All |-> NoJob] /\ refused = {}
    /\ ids = 1 /\ jobs = 0 /\ faults = 0

Next ==
    \/ \E r \in All :
          \/ \E k \in {"validator", "publication", "evaluation"}, c \in Contents : runner_run(r, k, c)
          \/ register_command_artifact(r) \/ register_or_validate_evaluation_artifact(r)
          \/ record_command(r) \/ record_validation(r) \/ record_evidence(r)
          \/ record_or_validate_evaluation_evidence(r) \/ record_evaluation_sample(r)
          \/ link_evidence_artifact(r) \/ stop_run(r) \/ delete_run(r)
    \/ sweep_retention \/ TimePasses \/ Crash
Spec == Init /\ [][Next]_evidenceVars

-----------------------------------------------------------------------------
(* Evidence recorded to the end keeps the bytes it cites, its link to them *)
(* and the command that produced them, whatever runs are purged, swept or  *)
(* recorded meanwhile.                                                     *)
ProofKeepsBytes ==
    \A e \in evidence : e.complete =>
        /\ <<e.id, e.art>> \in link
        /\ \E c \in Contents : artifact[c].id = e.art /\ c \in blobs
        /\ \E v \in validation, c \in command : v.id = e.val /\ v.cmd = c.id /\ c.art = e.art

(* A purged run leaves no row behind, not even one a validator that was    *)
(* still recording inserts afterwards.                                     *)
PurgeLeavesNothing ==
    \A r \in All : run[r] = "deleted" =>
        /\ \A x \in command \cup validation \cup evidence \cup ArtifactRows : x.run # r
        /\ \A b \in binding : b[2] # r

(* An evaluation's evidence cites only rows kept under its own retention   *)
(* and pin.                                                                *)
EvaluationEnvelope ==
    \A e \in evidence : e.run \in Evaluations =>
        \A c \in Contents : artifact[c].id = e.art => artifact[c].envelope = "evaluation"
EvidenceCustody == ProofKeepsBytes /\ PurgeLeavesNothing /\ EvaluationEnvelope

-----------------------------------------------------------------------------
(* harnessd ages out the transcript on the maintenance cadence: "Protocol  *)
(* transcript dominates database growth, so age it out".  A command record *)
(* a validation cites makes the whole sweep fail.                          *)
SweepSucceeds == "sweep" \notin refused
(* A stopped run can be purged: the triggers "were not meant to make a     *)
(* finished run immortal".                                                 *)
DeletionSucceeds == "delete" \notin refused
(* Shared bytes do not stop an evaluation from recording its output.       *)
EvaluationRecords == "evaluation" \notin refused
=============================================================================
