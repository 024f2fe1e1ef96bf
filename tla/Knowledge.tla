----------------------------- MODULE Knowledge -----------------------------
(***************************************************************************)
(* Knowledge candidates and their human review.  A candidate is seeded by  *)
(* two recovered liveness episodes, two preserved reconciliation episodes  *)
(* or one confirmed investigation finding: the evidence is read in one     *)
(* transaction and the candidate appended in another, which resolves every *)
(* receipt again.  A review binds one decision to the exact candidate.     *)
(* All the while observations arrive, episodes advance, evidence ages and  *)
(* runs are purged with the records that hang off them.                    *)
(***************************************************************************)
EXTENDS Integers, FiniteSets, FiniteSetsExt

CONSTANTS
    Runs,             \* runs of one repository, each with one attempt
    Trigger,          \* trigger_kind of the reconciliation episode of each run
    Restricted,       \* runs whose investigation artifact is restricted
    Reviewers,        \* authenticated sessions
    RevalidateAfter,  \* KNOWLEDGE_REVALIDATE_AFTER_MS
    MaxEpisodes,      \* MAX_LIVENESS_ and MAX_RECONCILIATION_KNOWLEDGE_EPISODES
    MaxTime,          \* bound on the clock
    MaxRecords,       \* bound on the observations, or records, of an episode
    MaxEvidence,      \* bound on the records of all episodes
    MaxCandidates     \* bound on the knowledge aggregates

VARIABLES
    now,
    runs,       \* runs not purged
    live,       \* liveness episode of a run: state, version
    obs,        \* liveness observations of a run's episode
    recon,      \* reconciliation episode: version, when updated, its findings and receipts
    artifact,   \* when a run's investigation artifact was created, or None
    proposal,   \* the proposal between its two transactions
    revisions,  \* revisions of knowledge aggregates
    decisions   \* human_actions of reviews

vars == <<now, runs, live, obs, recon, artifact, proposal, revisions, decisions>>
Episodes == <<live, obs, recon, artifact>>

None == -1
Times == 0..MaxTime
NoEpisode == [state |-> "none", version |-> 0]
NoReconciliation == [version |-> 0, at |-> 0, findings |-> 0, receipts |-> 0]
Idle == [pc |-> "idle"]
Observations == [kind : {"stall", "progress"}, at : Times]

\* The receipts a candidate can cite.
Stall(r, s) == [kind |-> "observation", run |-> r, what |-> s]
Episode(r, v) == [kind |-> "episode", run |-> r, version |-> v]
Artifact(r) == [kind |-> "artifact", run |-> r]

Init ==
    /\ now = 0
    /\ runs = Runs
    /\ live = [r \in Runs |-> NoEpisode]
    /\ obs = [r \in Runs |-> {}]
    /\ recon = [r \in Runs |-> NoReconciliation]
    /\ artifact = [r \in Runs |-> None]
    /\ proposal = Idle
    /\ revisions = {}
    /\ decisions = {}

\* The bound on evidence: records of episodes and artifacts that are left.
Room == MapThenSumSet(LAMBDA r : live[r].version + recon[r].version
                                     + (IF artifact[r] = None THEN 0 ELSE 1), Runs) < MaxEvidence

Tick == now < MaxTime /\ now' = now + 1 /\ UNCHANGED <<runs, Episodes, proposal, revisions, decisions>>

-----------------------------------------------------------------------------
(* The evidence.  An observation may be recorded after the time it is      *)
(* about.  Every finding and action receipt changes the digest of its      *)
(* reconciliation episode.                                                 *)

reduce_episode(kind) == IF kind = "stall" THEN "confirmed_stall" ELSE "healthy"

record_liveness_observation(r) ==
    /\ r \in runs /\ live[r].version < MaxRecords /\ Room
    /\ \E o \in Observations \ obs[r] :
        /\ o.at <= now
        /\ obs' = [obs EXCEPT ![r] = @ \cup {o}]
        /\ live' = [live EXCEPT ![r] = [state |-> reduce_episode(o.kind), version |-> @.version + 1]]
    /\ UNCHANGED <<now, runs, recon, artifact, proposal, revisions, decisions>>

advance_reconciliation_episode(e) == [e EXCEPT !.version = @ + 1, !.at = now]

record_reconciliation(r) ==
    /\ r \in runs /\ recon[r].version < MaxRecords /\ Room
    /\ \E e \in {[recon[r] EXCEPT !.findings = @ + 1], [recon[r] EXCEPT !.receipts = @ + 1]} :
        /\ e.findings >= e.receipts
        /\ recon' = [recon EXCEPT ![r] = advance_reconciliation_episode(e)]
    /\ UNCHANGED <<now, runs, live, obs, artifact, proposal, revisions, decisions>>

record_investigation_artifact(r) ==
    /\ r \in runs /\ artifact[r] = None /\ Room
    /\ artifact' = [artifact EXCEPT ![r] = now]
    /\ UNCHANGED <<now, runs, live, obs, recon, proposal, revisions, decisions>>

\* delete_run.  The statements that clear the children of a run's episodes
\* select `episode_id` from a table whose key is `id`: SQL resolves the name
\* to the row being deleted, so one episode of the run is enough for every
\* observation, and one reconciliation episode for every finding and
\* receipt, of every run to go.
ChildrenGone(owned, all, kept) == IF owned THEN all ELSE kept
delete_run(r) ==
    LET rest(f, none) == [f EXCEPT ![r] = none]
        bare == [q \in Runs |-> [recon[q] EXCEPT !.findings = 0, !.receipts = 0]]
    IN /\ r \in runs
       /\ runs' = runs \ {r}
       /\ obs' = ChildrenGone(live[r].version > 0, [q \in Runs |-> {}], obs)
       /\ live' = rest(live, NoEpisode)
       /\ recon' = rest(ChildrenGone(recon[r].version > 0, bare, recon), NoReconciliation)
       /\ artifact' = rest(artifact, None)
       /\ UNCHANGED <<now, proposal, revisions, decisions>>

-----------------------------------------------------------------------------
(* What resolves, and what counts as evidence.                             *)

resolved(e) ==
    \/ e.kind = "observation" /\ e.what \in obs[e.run]
    \/ e.kind = "episode" /\ recon[e.run].version = e.version
    \/ e.kind = "artifact" /\ artifact[e.run] # None
learning_receipt_clean(e) == resolved(e) /\ (e.kind = "artifact" => e.run \notin Restricted)

\* The first progress later than some confirmed stall, with the last stall before it.
recovered_observations(r) ==
    LET stalls(p) == {s \in obs[r] : s.kind = "stall" /\ s.at < p.at}
        recoveries == {p \in obs[r] : p.kind = "progress" /\ stalls(p) # {}}
        first == {p \in recoveries : \A q \in recoveries : p.at <= q.at}
    IN {<<CHOOSE s \in stalls(p) : \A q \in stalls(p) : q.at <= s.at, p>> : p \in first}
recovered_liveness_episodes == {r \in runs : live[r].state = "healthy" /\ recovered_observations(r) # {}}

\* More episodes than the bound make the whole query an error.
Bounded(episode) == Cardinality({r \in runs : episode[r].version > 0}) <= MaxEpisodes

\* So do two preservation findings, or receipts, in any episode of the trigger.
\* A preservation receipt carries no authority event: its only writer sets none.
Triggered(r) == {q \in runs : Trigger[q] = Trigger[r]}
ambiguous(r) ==
    \E q \in Triggered(r) : recon[q].findings > 1 \/ (recon[q].findings > 0 /\ recon[q].receipts > 1)
preserved_reconciliation_episodes(r) ==
    {q \in Triggered(r) : recon[q].findings = 1 /\ recon[q].receipts = 1}

Fresh(created) == created <= now /\ now < created + RevalidateAfter

-----------------------------------------------------------------------------
(* A proposal: the transaction that reads, then the one that appends.      *)

Read(id, evidence, created) ==
    /\ Fresh(created)
    /\ Cardinality({k.id : k \in revisions} \cup {id}) <= MaxCandidates
    /\ proposal' = [pc |-> "append", id |-> id, evidence |-> evidence, created |-> created]
    /\ UNCHANGED <<now, runs, Episodes, revisions, decisions>>

Two(sources, r, o) == {r, o} \subseteq sources /\ o # r

propose_knowledge_from_repeated_liveness(r, o) ==
    /\ proposal = Idle
    /\ Bounded(live)
    /\ Two(recovered_liveness_episodes, r, o)
    /\ \E a \in recovered_observations(r), b \in recovered_observations(o) :
        Read([selected |-> r, liveness |-> <<a, b>>, versions |-> <<live[r].version, live[o].version>>],
             {Stall(r, a[1]), Stall(r, a[2]), Stall(o, b[1]), Stall(o, b[2])},
             IF a[2].at < b[2].at THEN a[2].at ELSE b[2].at)

propose_knowledge_from_repeated_reconciliation(r, o) ==
    /\ proposal = Idle
    /\ Bounded(recon) /\ ~ambiguous(r)
    /\ Two(preserved_reconciliation_episodes(r), r, o)
    /\ Read([selected |-> r, versions |-> <<recon[r].version, recon[o].version>>],
            {Episode(r, recon[r].version), Episode(o, recon[o].version)},
            IF recon[r].at < recon[o].at THEN recon[r].at ELSE recon[o].at)

propose_knowledge_from_investigation(r) ==
    /\ proposal = Idle
    /\ r \in runs /\ artifact[r] # None
    /\ Read([selected |-> r, artifact |-> artifact[r]], {Artifact(r)}, artifact[r])

\* The same identity replays the recorded candidate; a receipt that no
\* longer resolves refuses the append.
validate_learning_references_unread(evidence) == TRUE
validate_learning_references(evidence) == \A e \in evidence : resolved(e)
append_improvement_revision ==
    /\ proposal.pc = "append"
    /\ proposal' = Idle
    /\ revisions' = IF \/ \E k \in revisions : k.id = proposal.id
                       \/ ~validate_learning_references(proposal.evidence)
                    THEN revisions
                    ELSE revisions \cup
                         {[id |-> proposal.id, revision |-> 1, state |-> "candidate",
                           evidence |-> proposal.evidence, created |-> proposal.created,
                           proven |-> \A e \in proposal.evidence : resolved(e)]}
    /\ UNCHANGED <<now, runs, Episodes, decisions>>

-----------------------------------------------------------------------------
(* The review.                                                             *)

current_knowledge_item(id) ==
    CHOOSE k \in revisions : k.id = id /\ \A q \in revisions : q.id = id => q.revision <= k.revision
ExactCandidateAny(k) == k.state = "candidate"
ExactCandidate(k) == k.state = "candidate" /\ k = current_knowledge_item(k.id)
AcceptableStale(k) == \A e \in k.evidence : resolved(e)
Acceptable(k) == now < k.created + RevalidateAfter /\ \A e \in k.evidence : learning_receipt_clean(e)

review_knowledge_candidate(who, decision) ==
    \E k \in revisions :
        /\ ExactCandidate(k)
        /\ decision = "accept" => Acceptable(k)
        /\ decisions' = decisions \cup {[actor |-> who, decision |-> decision, candidate |-> k.id]}
        /\ revisions' = revisions \cup
             {[k EXCEPT !.revision = 1 + current_knowledge_item(k.id).revision,
                        !.state = IF decision = "accept" THEN "active" ELSE "rejected",
                        !.proven = decision = "accept" =>
                            /\ now < k.created + RevalidateAfter
                            /\ \A e \in k.evidence : resolved(e) /\ (e.kind = "artifact" => e.run \notin Restricted)]}
        /\ UNCHANGED <<now, runs, Episodes, proposal>>

Next ==
    \/ Tick
    \/ \E r \in Runs : \/ record_liveness_observation(r)
                       \/ record_reconciliation(r)
                       \/ record_investigation_artifact(r)
                       \/ delete_run(r)
                       \/ propose_knowledge_from_investigation(r)
                       \/ \E o \in Runs : \/ propose_knowledge_from_repeated_liveness(r, o)
                                          \/ propose_knowledge_from_repeated_reconciliation(r, o)
    \/ append_improvement_revision
    \/ \E who \in Reviewers, decision \in {"accept", "reject"} : review_knowledge_candidate(who, decision)

Spec == Init /\ [][Next]_vars

-----------------------------------------------------------------------------
\* Every recorded revision was proven when it was written: a candidate's
\* receipts all resolved although the runs they come from may be purged
\* between the two transactions of the proposal, and an accepted one was
\* within its window, with evidence neither changed nor restricted.
ProvenWhenWritten == \A k \in revisions : k.proven

\* One candidate gets one verdict, of one human action, however many sessions
\* decide at once and however often the proposal is replayed.
OneVerdict ==
    /\ \A d, f \in decisions : d.candidate = f.candidate => d = f
    /\ \A k, q \in revisions : k.id = q.id /\ k.revision = q.revision => k = q
    /\ \A k \in revisions : k.state # "candidate" =>
        \E d \in decisions : d.candidate = k.id /\ (d.decision = "accept") = (k.state = "active")

\* Repetition is repetition: evidence of episodes comes from two attempts.
Repeated ==
    \A k \in revisions : \/ \A e \in k.evidence : e.kind = "artifact"
                         \/ Cardinality({e.run : e \in k.evidence}) = 2

\* Knowledge is reviewed once, over evidence that was there when it was cited.
KnowledgeCustody == ProvenWhenWritten /\ OneVerdict /\ Repeated

\* The children of a run's records are removed with their run: an episode
\* that is left has every observation its version counts, and every finding
\* and receipt.
PurgeIsRunScoped ==
    \A r \in runs : /\ live[r].version = Cardinality(obs[r])
                    /\ recon[r].version = recon[r].findings + recon[r].receipts
=============================================================================
