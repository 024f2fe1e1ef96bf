--------------------------- MODULE OutcomesProofs ---------------------------
(***************************************************************************)
(* Edits of failure clusters fit what their reviewers saw, operator        *)
(* assertions have one successor and marked cursors are captured, for any  *)
(* number of reviewers, tabs, receipts and failed observations.            *)
(***************************************************************************)
EXTENDS Outcomes, FiniteSetTheorems, SequenceTheorems, TLAPS

ClusterIds ==
    ({"run_terminal", "attempt_terminal", "typed_outcome"}
       \X (RunCodes \cup AttemptCodes \cup {None})) \cup {Manual}
Histories == [lineage : Seq(ClusterIds) \ {<<>>}, labels : Seq(Nat)]

(* What the observer reads is finite, so that the number of members that    *)
(* arrive in a cluster is a number.                                         *)
Recorded ==
    /\ class \in [Attempts -> [code : AttemptCodes \cup {None}, writes : Nat]]
    /\ events \in Seq(RunCodes \cup Moves)
    /\ IsFiniteSet(outcomes)
    /\ IsFiniteSet(observer.inputs)

(* The cursor the observer is about to mark is that of a trace.             *)
Tracing ==
    /\ mark = [cursor |-> mark.cursor, deferred |-> mark.deferred]
    /\ IF observer.pc = "marking" THEN observer.cursor \in traces
       ELSE observer = [pc |-> observer.pc, inputs |-> observer.inputs]
    /\ MarkedIsCaptured

Clustered ==
    /\ failures \in [DOMAIN failures -> Histories]
    /\ clusters \in [DOMAIN clusters -> Nat]
    /\ DOMAIN clusters \subseteq ClusterIds

(* An overview is of this cluster's past, and of its present while the      *)
(* version is the same: no member comes or goes without a new version.      *)
Overview(e) ==
    LET o == editor[e] IN
    o.pc = "editing" =>
        /\ DOMAIN o.versions \subseteq DOMAIN clusters
        /\ \A c \in DOMAIN o.versions :
             /\ o.versions[c] \in Nat /\ o.versions[c] <= clusters[c]
             /\ o.versions[c] = clusters[c] => o.members[c] = Members(c)
        /\ DOMAIN o.labels \subseteq DOMAIN failures
        /\ \A f \in DOMAIN o.labels : o.labels[f] \in Nat
Overviews ==
    /\ DOMAIN editor = Editors
    /\ \A e \in Editors : Overview(e)

OInv == Recorded /\ Tracing /\ Clustered /\ Overviews /\ EditsFitOverview /\ OneSuccessor

-----------------------------------------------------------------------------
LEMMA ImageFinite ==
    ASSUME NEW S, IsFiniteSet(S), NEW f
    PROVE  IsFiniteSet({f[x] : x \in S})
  <1> DEFINE T == {f[x] : x \in S}
             g == [x \in S |-> f[x]]
  <1>1. g \in Surjection(S, T)
    BY DEF Surjection
  <1> HIDE DEF g, T
  <1>2. IsFiniteSet(T)
    BY <1>1, FS_Surjection
  <1> QED BY <1>2 DEF T

LEMMA StoppedFinite ==
    ASSUME OInv
    PROVE  IsFiniteSet(Stopped)
  <1>1. Len(events) \in Nat /\ DOMAIN events = 1..Len(events)
    BY LenProperties DEF OInv, Recorded
  <1>2. IsFiniteSet(1..Len(events))
    BY <1>1, FS_Interval
  <1>3. Stopped \in SUBSET (1..Len(events))
    BY <1>1 DEF Stopped
  <1> QED BY <1>2, <1>3, FS_Subset

(* What the observer reads of the receipts of a run.                        *)
LEMMA InputsFinite ==
    ASSUME OInv
    PROVE  IsFiniteSet(ValidationInputs \cup CompletionInputs \cup ResourceInputs)
  <1>0. IsFiniteSet(Stopped)
    BY StoppedFinite
  <1>1. IsFiniteSet(ValidationInputs)
    <2> DEFINE S == {w \in Validations : validation[w].result # None /\ validation[w].valid}
               f == [v \in S |-> [dimension |-> "validation", source |-> <<"validation", v>>,
                        digest |-> 0, label |-> authoritative_result_label(validation[v].result)]]
    <2>1. IsFiniteSet(S)
      <3>1. S \in SUBSET Validations
        OBVIOUS
      <3> QED BY <3>1, RowsAssumption, FS_Subset
    <2>2. ValidationInputs = {f[v] : v \in S}
      BY DEF ValidationInputs
    <2> HIDE DEF f, S
    <2> QED BY <2>1, <2>2, ImageFinite
  <1>2. IsFiniteSet(CompletionInputs)
    <2> DEFINE f == [i \in Stopped |-> [dimension |-> "completion", source |-> <<"event", i>>,
                                        digest |-> 0, label |-> "neutral"]]
    <2>1. CompletionInputs = {f[i] : i \in Stopped}
      BY DEF CompletionInputs
    <2> HIDE DEF f
    <2> QED BY <1>0, <2>1, ImageFinite
  <1>3. IsFiniteSet(ResourceInputs)
    <2> DEFINE f == [i \in Stopped |-> [dimension |-> "resource", source |-> <<"event", i>>,
                                        digest |-> samples, label |-> ResourceLabel]]
    <2>1. ResourceInputs = {f[i] : i \in Stopped}
      BY DEF ResourceInputs
    <2> HIDE DEF f
    <2> QED BY <1>0, <2>1, ImageFinite
  <1>4. IsFiniteSet(ValidationInputs \cup CompletionInputs)
    BY <1>1, <1>2, FS_Union
  <1> QED BY <1>3, <1>4, FS_Union

(* The failures a projection finds.                                         *)
Found == RunFailures \cup AttemptFailures \cup OutcomeFailures

LEMMA FoundFinite ==
    ASSUME OInv
    PROVE  IsFiniteSet(Found)
  <1>1. IsFiniteSet(RunFailures)
    <2> DEFINE S == {j \in Stopped : events[j] = failure_class}
               f == [i \in S |-> [kind |-> "run_terminal", source |-> <<"event", i>>,
                                  code |-> failure_class]]
    <2>1. IsFiniteSet(S)
      <3>1. S \in SUBSET Stopped
        OBVIOUS
      <3> QED BY <3>1, StoppedFinite, FS_Subset
    <2>2. RunFailures = {f[i] : i \in S}
      BY DEF RunFailures
    <2> HIDE DEF f, S
    <2> QED BY <2>1, <2>2, ImageFinite
  <1>2. IsFiniteSet(AttemptFailures)
    <2> DEFINE S == {b \in Attempts : class[b].code # None}
               f == [a \in S |-> [kind |-> "attempt_terminal", source |-> <<"attempt", a>>,
                                  code |-> class[a].code]]
    <2>1. IsFiniteSet(S)
      <3>1. S \in SUBSET Attempts
        OBVIOUS
      <3> QED BY <3>1, RowsAssumption, FS_Subset
    <2>2. AttemptFailures = {f[a] : a \in S}
      BY DEF AttemptFailures
    <2> HIDE DEF f, S
    <2> QED BY <2>1, <2>2, ImageFinite
  <1>3. IsFiniteSet(OutcomeFailures)
    <2> DEFINE S == {p \in outcomes : p.label \in {"negative", "unknown"}}
               f == [o \in S |-> [kind |-> "typed_outcome", source |-> <<"outcome", o>>,
                                  code |-> None]]
    <2>1. IsFiniteSet(S)
      <3>1. S \in SUBSET outcomes
        OBVIOUS
      <3> QED BY <3>1, FS_Subset DEF OInv, Recorded
    <2>2. OutcomeFailures = {f[o] : o \in S}
      BY DEF OutcomeFailures
    <2> HIDE DEF f, S
    <2> QED BY <2>1, <2>2, ImageFinite
  <1>4. IsFiniteSet(RunFailures \cup AttemptFailures)
    BY <1>1, <1>2, FS_Union
  <1> QED BY <1>3, <1>4, FS_Union DEF Found

LEMMA FoundClusters ==
    ASSUME OInv, NEW f \in Found
    PROVE  Fingerprint(f) \in ClusterIds
  <1>1. CASE f \in RunFailures
    <2>1. f.kind = "run_terminal" /\ f.code = failure_class
      BY <1>1 DEF RunFailures
    <2>2. failure_class \in RunCodes \cup {None}
      BY DEF failure_class
    <2> QED BY <2>1, <2>2 DEF Fingerprint, ClusterIds
  <1>2. CASE f \in AttemptFailures
    <2>1. PICK a \in Attempts : f.kind = "attempt_terminal" /\ f.code = class[a].code
      BY <1>2 DEF AttemptFailures
    <2>2. class[a].code \in AttemptCodes \cup {None}
      BY DEF OInv, Recorded
    <2> QED BY <2>1, <2>2 DEF Fingerprint, ClusterIds
  <1>3. CASE f \in OutcomeFailures
    <2>1. f.kind = "typed_outcome" /\ f.code = None
      BY <1>3 DEF OutcomeFailures
    <2> QED BY <2>1 DEF Fingerprint, ClusterIds
  <1> QED BY <1>1, <1>2, <1>3 DEF Found

-----------------------------------------------------------------------------
(* Operator assertions                                                     *)
LEMMA SuccessorKept ==
    ASSUME OneSuccessor, NEW t, record_operator_outcome(t)
    PROVE  OneSuccessor'
  <1>1. PICK k, c, s :
           asserted' = IF ~ Replay(k) /\ validate_outcome_supersedes(s)
                       THEN asserted \cup {[key |-> k, code |-> c, supersedes |-> s]}
                       ELSE asserted
    BY DEF record_operator_outcome
  <1>2. CASE ~(~ Replay(k) /\ validate_outcome_supersedes(s))
    BY <1>1, <1>2 DEF OneSuccessor
  <1>3. CASE ~ Replay(k) /\ validate_outcome_supersedes(s)
    <2> DEFINE r == [key |-> k, code |-> c, supersedes |-> s]
    <2>1. \A a \in asserted : a.key # r.key
      BY <1>3 DEF Replay
    <2>2. \A a \in asserted : a.supersedes \cap r.supersedes = {}
      BY <1>3 DEF validate_outcome_supersedes, outcome_vector, IsHead
    <2>3. asserted' = asserted \cup {r}
      BY <1>1, <1>3
    <2> HIDE DEF r
    <2> QED BY <2>1, <2>2, <2>3 DEF OneSuccessor
  <1> QED BY <1>2, <1>3

-----------------------------------------------------------------------------
(* Clusters                                                                *)
LEMMA LastOfAppend ==
    ASSUME NEW S, NEW q \in Seq(S), NEW x \in S
    PROVE  /\ Append(q, x) \in Seq(S) \ {<<>>} /\ Last(Append(q, x)) = x
           /\ Len(Append(q, x)) = Len(q) + 1
           /\ DOMAIN Append(q, x) = 1..(Len(q) + 1)
           /\ \A i \in 1..Len(q) : Append(q, x)[i] = q[i]
  BY AppendProperties, EmptySeq DEF Last

(* Nothing the reviewers look at moves.                                     *)
LEMMA ClustersSame ==
    ASSUME OInv, UNCHANGED <<failures, clusters, editor, edits>>
    PROVE  Clustered' /\ Overviews' /\ EditsFitOverview'
  <1>1. Clustered' /\ EditsFitOverview'
    BY DEF OInv, Clustered, EditsFitOverview
  <1>2. \A e \in Editors : Overview(e)'
    BY DEF OInv, Overviews, Overview, Members
  <1> QED BY <1>1, <1>2 DEF OInv, Overviews

(* A reviewer is done with the overview; the others keep theirs.            *)
LEMMA OthersKeep ==
    ASSUME OInv, NEW e \in Editors, editor' = [editor EXCEPT ![e] = [pc |-> "idle"]],
           \A x \in Editors \ {e} : Overview(x)' \/ editor[x].pc # "editing"
    PROVE  Overviews'
  <1>1. DOMAIN editor' = Editors /\ editor'[e].pc = "idle"
    BY DEF OInv, Overviews
  <1>2. \A x \in Editors \ {e} : editor'[x] = editor[x]
    BY DEF OInv, Overviews
  <1>3. Overview(e)'
    BY <1>1 DEF Overview
  <1>4. \A x \in Editors \ {e} : Overview(x)'
    BY <1>2 DEF Overview
  <1> QED BY <1>1, <1>3, <1>4 DEF Overviews

(* A projection adds the members that are new, and every cluster that gets *)
(* one gets a new version.                                                  *)
LEMMA Projected ==
    ASSUME OInv, NEW new, new = Found \ DOMAIN failures,
           failures' = [f \in DOMAIN failures \cup new |->
                          IF f \in new THEN [lineage |-> <<Fingerprint(f)>>, labels |-> <<>>]
                          ELSE failures[f]],
           clusters' = [c \in DOMAIN Versions({Fingerprint(f) : f \in new}) |->
                          bump_failure_cluster(Versions({Fingerprint(f) : f \in new}), c,
                                               Cardinality({f \in new : Fingerprint(f) = c}))],
           UNCHANGED <<editor, edits>>
    PROVE  Clustered' /\ Overviews' /\ EditsFitOverview'
  <1> DEFINE into(c) == Cardinality({f \in new : Fingerprint(f) = c})
             targets == {Fingerprint(f) : f \in new}
  <1>1. \A f \in new : Fingerprint(f) \in ClusterIds
    BY FoundClusters
  <1>2. \A c : into(c) \in Nat /\ (into(c) = 0 <=> \A f \in new : Fingerprint(f) # c)
    <2> TAKE c
    <2> DEFINE S == {f \in new : Fingerprint(f) = c}
    <2>1. IsFiniteSet(S)
      <3>1. S \in SUBSET Found
        OBVIOUS
      <3> QED BY <3>1, FoundFinite, FS_Subset
    <2> HIDE DEF S
    <2>2. Cardinality(S) \in Nat /\ (Cardinality(S) = 0 <=> S = {})
      BY <2>1, FS_CardinalityType, FS_EmptySet
    <2> QED BY <2>2 DEF S
  <1> HIDE DEF into
  <1>3. /\ DOMAIN clusters' = DOMAIN clusters \cup targets
        /\ \A c \in DOMAIN clusters : clusters'[c] = clusters[c] + into(c)
        /\ \A c \in targets \ DOMAIN clusters : clusters'[c] = 0 + into(c)
    BY DEF Versions, bump_failure_cluster, into
  <1>4. /\ DOMAIN failures' = DOMAIN failures \cup new
        /\ \A f \in DOMAIN failures : failures'[f] = failures[f]
        /\ \A f \in new : failures'[f] = [lineage |-> <<Fingerprint(f)>>, labels |-> <<>>]
    OBVIOUS
  <1>5. \A f \in new : failures'[f] \in Histories /\ Last(failures'[f].lineage) = Fingerprint(f)
    BY <1>1, <1>4 DEF Histories, Last
  <1>6. Clustered'
    <2>1. failures' \in [DOMAIN failures' -> Histories]
      BY <1>4, <1>5 DEF OInv, Clustered
    <2>2. clusters' = [c \in DOMAIN clusters' |-> clusters'[c]]
      OBVIOUS
    <2>3. \A c \in DOMAIN clusters' : clusters'[c] \in Nat /\ c \in ClusterIds
      <3>1. \A c \in DOMAIN clusters : clusters[c] \in Nat /\ c \in ClusterIds
        BY DEF OInv, Clustered
      <3>2. \A c \in targets : c \in ClusterIds
        BY <1>1
      <3> TAKE c \in DOMAIN clusters'
      <3>3. into(c) \in Nat
        BY <1>2
      <3> HIDE DEF targets
      <3>4. CASE c \in DOMAIN clusters
        <4>1. clusters'[c] = clusters[c] + into(c) /\ clusters[c] \in Nat
          BY <3>1, <3>4, <1>3
        <4>2. clusters[c] + into(c) \in Nat
          BY <4>1, <3>3
        <4> QED BY <3>1, <3>4, <4>1, <4>2
      <3>5. CASE c \in targets \ DOMAIN clusters
        <4>1. clusters'[c] = 0 + into(c)
          BY <3>5, <1>3
        <4>2. 0 + into(c) \in Nat
          BY <3>3
        <4> QED BY <3>2, <3>5, <4>1, <4>2
      <3> QED BY <3>4, <3>5, <1>3
    <2>4. clusters' \in [DOMAIN clusters' -> Nat]
      BY <2>2, <2>3
    <2> QED BY <2>1, <2>3, <2>4 DEF Clustered
  <1>7. \A c \in DOMAIN clusters : into(c) = 0 => Members(c)' = Members(c)
    <2> SUFFICES ASSUME NEW c, into(c) = 0 PROVE Members(c)' = Members(c)
      OBVIOUS
    <2>1. \A f \in new : Last(failures'[f].lineage) # c
      BY <1>2, <1>5
    <2> QED BY <2>1, <1>4 DEF Members
  <1>8. ASSUME NEW e \in Editors PROVE Overview(e)'
    <2> SUFFICES ASSUME editor[e].pc = "editing" PROVE Overview(e)'
      BY DEF Overview
    <2>1. editor'[e] = editor[e] /\ Overview(e)
      BY DEF OInv, Overviews
    <2>2. ASSUME NEW c \in DOMAIN editor[e].versions
          PROVE  /\ editor[e].versions[c] \in Nat /\ editor[e].versions[c] <= clusters'[c]
                 /\ editor[e].versions[c] = clusters'[c] => editor[e].members[c] = Members(c)'
      <3>1. /\ c \in DOMAIN clusters /\ editor[e].versions[c] \in Nat
            /\ editor[e].versions[c] <= clusters[c]
            /\ editor[e].versions[c] = clusters[c] => editor[e].members[c] = Members(c)
        BY <2>1, <2>2 DEF Overview
      <3>2. clusters'[c] = clusters[c] + into(c) /\ into(c) \in Nat /\ clusters[c] \in Nat
        BY <3>1, <1>2, <1>3 DEF OInv, Clustered
      <3>3. editor[e].versions[c] = clusters'[c] => into(c) = 0
        BY <3>1, <3>2
      <3> QED BY <3>1, <3>2, <3>3, <1>7
    <2> QED BY <2>1, <2>2, <1>3, <1>4 DEF Overview
  <1>9. EditsFitOverview'
    BY <1>4 DEF OInv, EditsFitOverview
  <1> QED BY <1>6, <1>8, <1>9 DEF OInv, Overviews

(* A merge or a split: the members that move leave one cluster for another, *)
(* both get a new version, and the reviewer saw what the source holds.      *)
LEMMA Moved ==
    ASSUME OInv, NEW e \in Editors, NEW s \in DOMAIN clusters, NEW t \in DOMAIN clusters,
           NEW action, NEW moved \in SUBSET Members(s), Editing(e, s, t), Move(moved, t),
           append_failure_cluster_edit(Edit(e, action, s, t, editor[e].members[s], Members(s)))
    PROVE  Clustered' /\ Overviews' /\ EditsFitOverview'
  <1>0. /\ editor[e].pc = "editing" /\ s # t
        /\ s \in DOMAIN editor[e].versions /\ editor[e].versions[s] = clusters[s]
        /\ clusters' = [clusters EXCEPT ![s] = @ + 1, ![t] = @ + 1]
        /\ editor' = [editor EXCEPT ![e] = [pc |-> "idle"]]
    BY DEF Editing, require_failure_cluster_version
  <1>1. /\ failures \in [DOMAIN failures -> Histories]
        /\ clusters \in [DOMAIN clusters -> Nat] /\ DOMAIN clusters \subseteq ClusterIds
    BY DEF OInv, Clustered
  <1>2. /\ DOMAIN clusters' = DOMAIN clusters /\ clusters' \in [DOMAIN clusters' -> Nat]
        /\ clusters'[s] = clusters[s] + 1 /\ clusters'[t] = clusters[t] + 1
        /\ \A c \in DOMAIN clusters \ {s, t} : clusters'[c] = clusters[c]
    BY <1>0, <1>1
  <1>3. moved \subseteq DOMAIN failures /\ \A f \in moved : Last(failures[f].lineage) = s
    BY DEF Members
  <1>4. /\ DOMAIN failures' = DOMAIN failures
        /\ failures' = [f \in DOMAIN failures' |-> failures'[f]]
        /\ \A f \in DOMAIN failures \ moved : failures'[f] = failures[f]
        /\ \A f \in moved :
             failures'[f] = [failures[f] EXCEPT !.lineage = Append(failures[f].lineage, t)]
    BY <1>3 DEF Move
  <1>5. ASSUME NEW f \in moved
        PROVE  /\ failures'[f] \in Histories /\ Last(failures'[f].lineage) = t
               /\ failures'[f].labels = failures[f].labels
    <2> DEFINE l == Append(failures[f].lineage, t)
    <2>1. failures[f] \in Histories /\ t \in ClusterIds
      BY <1>1, <1>3
    <2>2. l \in Seq(ClusterIds) \ {<<>>} /\ Last(l) = t
      BY <2>1, LastOfAppend DEF Histories
    <2>3. failures'[f] = [failures[f] EXCEPT !.lineage = l]
      BY <1>4
    <2> HIDE DEF l
    <2> QED BY <2>1, <2>2, <2>3 DEF Histories
  <1>6. Clustered'
    <2>1. \A f \in DOMAIN failures' : failures'[f] \in Histories
      BY <1>1, <1>4, <1>5
    <2>2. failures' \in [DOMAIN failures' -> Histories]
      BY <2>1, <1>4
    <2> QED BY <1>1, <1>2, <2>2 DEF Clustered
  <1>7. ASSUME NEW c \in DOMAIN clusters \ {s, t} PROVE Members(c)' = Members(c)
    BY <1>3, <1>4, <1>5, <1>7 DEF Members
  <1>8. ASSUME NEW x \in Editors \ {e}, editor[x].pc = "editing" PROVE Overview(x)'
    <2>1. editor'[x] = editor[x] /\ Overview(x)
      BY <1>0, <1>8 DEF OInv, Overviews
    <2>2. ASSUME NEW c \in DOMAIN editor[x].versions
          PROVE  /\ editor[x].versions[c] \in Nat /\ editor[x].versions[c] <= clusters'[c]
                 /\ editor[x].versions[c] = clusters'[c] => editor[x].members[c] = Members(c)'
      <3>1. /\ c \in DOMAIN clusters /\ editor[x].versions[c] \in Nat
            /\ editor[x].versions[c] <= clusters[c] /\ clusters[c] \in Nat
            /\ editor[x].versions[c] = clusters[c] => editor[x].members[c] = Members(c)
        BY <2>1, <2>2, <1>1, <1>8 DEF Overview
      <3>2. CASE c \in {s, t}
        BY <3>1, <3>2, <1>2
      <3>3. CASE c \notin {s, t}
        BY <3>1, <3>3, <1>2, <1>7
      <3> QED BY <3>2, <3>3
    <2> QED BY <2>1, <2>2, <1>2, <1>4, <1>8 DEF Overview
  <1>9. Overviews'
    BY <1>0, <1>8, OthersKeep
  <1>10. EditsFitOverview'
    <2>1. editor[e].members[s] = Members(s)
      BY <1>0 DEF OInv, Overviews, Overview
    <2>2. \A x \in edits' : x.seen = x.found
      BY <2>1 DEF append_failure_cluster_edit, Edit, OInv, EditsFitOverview
    <2>3. \A f \in DOMAIN failures' :
             f \in DOMAIN failures /\ failures'[f].labels = failures[f].labels
      BY <1>4, <1>5
    <2>4. \A f \in DOMAIN failures' : \A n \in DOMAIN failures'[f].labels :
             failures'[f].labels[n] = n - 1
      BY <2>3 DEF OInv, EditsFitOverview
    <2> QED BY <2>2, <2>4 DEF EditsFitOverview
  <1> QED BY <1>6, <1>9, <1>10

(* A label is appended to the history the reviewer counted.                 *)
LEMMA Reclassified ==
    ASSUME OInv, NEW e \in Editors, reclassify_failure(e)
    PROVE  Clustered' /\ Overviews' /\ EditsFitOverview'
  <1>0. PICK f \in DOMAIN editor[e].labels :
           /\ Len(failures[f].labels) = editor[e].labels[f]
           /\ failures' = [failures EXCEPT ![f].labels = Append(@, editor[e].labels[f])]
    BY DEF reclassify_failure, CountedLabels
  <1>1. /\ editor[e].pc = "editing" /\ editor' = [editor EXCEPT ![e] = [pc |-> "idle"]]
        /\ UNCHANGED <<clusters, edits>>
    BY DEF reclassify_failure
  <1>2. f \in DOMAIN failures /\ editor[e].labels[f] \in Nat
    BY <1>1 DEF OInv, Overviews, Overview
  <1>3. failures \in [DOMAIN failures -> Histories] /\ failures[f] \in Histories
    BY <1>2 DEF OInv, Clustered
  <1> DEFINE l == Append(failures[f].labels, editor[e].labels[f])
             h == [failures[f] EXCEPT !.labels = l]
  <1>4. failures' = [failures EXCEPT ![f] = h]
    BY <1>0
  <1>5. failures[f].labels \in Seq(Nat)
    BY <1>3 DEF Histories
  <1>6. /\ l \in Seq(Nat) /\ DOMAIN l = 1..(Len(failures[f].labels) + 1)
        /\ l[Len(failures[f].labels) + 1] = editor[e].labels[f]
        /\ \A i \in 1..Len(failures[f].labels) : l[i] = failures[f].labels[i]
    BY <1>2, <1>5, AppendProperties
  <1> HIDE DEF l
  <1>7. h \in Histories /\ h.labels = l /\ h.lineage = failures[f].lineage
    BY <1>3, <1>6 DEF Histories
  <1> HIDE DEF h
  <1>8. /\ DOMAIN failures' = DOMAIN failures /\ failures' \in [DOMAIN failures' -> Histories]
        /\ failures'[f] = h /\ \A g \in DOMAIN failures \ {f} : failures'[g] = failures[g]
    BY <1>2, <1>3, <1>4, <1>7
  <1>9. Clustered'
    BY <1>1, <1>8 DEF OInv, Clustered
  <1>10. \A c : Members(c)' = Members(c)
    BY <1>7, <1>8 DEF Members
  <1>11. ASSUME NEW x \in Editors \ {e} PROVE Overview(x)'
    <2>1. editor'[x] = editor[x] /\ Overview(x)
      BY <1>1 DEF OInv, Overviews
    <2> QED BY <2>1, <1>1, <1>8, <1>10 DEF Overview
  <1>12. Overviews'
    BY <1>1, <1>11, OthersKeep
  <1>13. EditsFitOverview'
    <2>1. \A n \in 1..Len(failures[f].labels) : failures[f].labels[n] = n - 1
      BY <1>2, <1>5, LenProperties DEF OInv, EditsFitOverview
    <2>2. Len(failures[f].labels) \in Nat
      BY <1>5, LenProperties
    <2>3. \A n \in DOMAIN l : l[n] = n - 1
      BY <2>1, <2>2, <1>0, <1>6
    <2>4. \A g \in DOMAIN failures' : \A n \in DOMAIN failures'[g].labels :
             failures'[g].labels[n] = n - 1
      BY <2>3, <1>7, <1>8 DEF OInv, EditsFitOverview
    <2> QED BY <2>4, <1>1 DEF OInv, EditsFitOverview
  <1> QED BY <1>9, <1>12, <1>13

(* What a reviewer looks at is there.                                       *)
LEMMA Looked ==
    ASSUME OInv, NEW e \in Editors, failure_cluster_overview(e)
    PROVE  Clustered' /\ Overviews' /\ EditsFitOverview'
  <1> DEFINE o == [pc |-> "editing", versions |-> clusters,
                   members |-> [c \in DOMAIN clusters |-> Members(c)],
                   labels |-> [f \in DOMAIN failures |-> Len(failures[f].labels)]]
  <1>1. UNCHANGED <<failures, clusters, edits>> /\ editor' = [editor EXCEPT ![e] = o]
    BY DEF failure_cluster_overview, projection
  <1>2. /\ o.versions = clusters /\ \A c \in DOMAIN clusters : o.members[c] = Members(c)
        /\ DOMAIN o.labels = DOMAIN failures
        /\ \A f \in DOMAIN failures : o.labels[f] = Len(failures[f].labels)
    OBVIOUS
  <1> HIDE DEF o
  <1>3. DOMAIN editor' = Editors /\ editor'[e] = o
        /\ \A x \in Editors \ {e} : editor'[x] = editor[x]
    BY <1>1 DEF OInv, Overviews
  <1>4. Clustered' /\ EditsFitOverview'
    BY <1>1 DEF OInv, Clustered, EditsFitOverview
  <1>5. \A c : Members(c)' = Members(c)
    BY <1>1 DEF Members
  <1>6. Overview(e)'
    <2>1. \A f \in DOMAIN failures : Len(failures[f].labels) \in Nat
      <3>1. \A f \in DOMAIN failures : failures[f].labels \in Seq(Nat)
        BY DEF OInv, Clustered, Histories
      <3> QED BY <3>1, LenProperties
    <2>2. \A c \in DOMAIN clusters : clusters[c] \in Nat
      BY DEF OInv, Clustered
    <2>3. \A c \in DOMAIN clusters : clusters[c] <= clusters[c]
      BY <2>2
    <2> QED BY <2>1, <2>2, <2>3, <1>1, <1>2, <1>3, <1>5 DEF Overview
  <1>7. ASSUME NEW x \in Editors \ {e} PROVE Overview(x)'
    <2>1. Overview(x)
      BY DEF OInv, Overviews
    <2> QED BY <2>1, <1>1, <1>3, <1>5 DEF Overview
  <1> QED BY <1>3, <1>4, <1>6, <1>7 DEF Overviews

(* A cluster a reviewer makes is empty and nobody has looked at it.         *)
LEMMA Created ==
    ASSUME OInv, create_failure_cluster
    PROVE  Clustered' /\ Overviews' /\ EditsFitOverview'
  <1>1. /\ Manual \notin DOMAIN clusters /\ clusters' = Versions({Manual})
        /\ UNCHANGED <<failures, editor, edits>>
    BY DEF create_failure_cluster
  <1>2. /\ DOMAIN clusters' = DOMAIN clusters \cup {Manual}
        /\ clusters' = [c \in DOMAIN clusters' |-> clusters'[c]]
        /\ clusters'[Manual] = 0 /\ \A c \in DOMAIN clusters : clusters'[c] = clusters[c]
    BY <1>1 DEF Versions
  <1>3. Manual \in ClusterIds
    BY DEF ClusterIds
  <1>4. clusters \in [DOMAIN clusters -> Nat] /\ DOMAIN clusters \subseteq ClusterIds
    BY DEF OInv, Clustered
  <1>5. clusters' \in [DOMAIN clusters' -> Nat]
    <2>1. \A c \in DOMAIN clusters' : clusters'[c] \in Nat
      BY <1>2, <1>4
    <2> QED BY <2>1, <1>2
  <1>6. Clustered' /\ EditsFitOverview'
    BY <1>1, <1>2, <1>3, <1>4, <1>5 DEF OInv, Clustered, EditsFitOverview
  <1>7. \A c : Members(c)' = Members(c)
    BY <1>1 DEF Members
  <1>8. ASSUME NEW x \in Editors PROVE Overview(x)'
    <2>1. Overview(x)
      BY DEF OInv, Overviews
    <2> QED BY <2>1, <1>1, <1>2, <1>7 DEF Overview
  <1> QED BY <1>1, <1>6, <1>8 DEF OInv, Overviews

LEMMA ClustersKept ==
    ASSUME OInv, Next
    PROVE  Clustered' /\ Overviews' /\ EditsFitOverview'
  <1>1. CASE UNCHANGED <<failures, clusters, editor, edits>>
    BY <1>1, ClustersSame
  <1>2. CASE project_failures_for_run
    <2> DEFINE new == Found \ DOMAIN failures
               targets == {Fingerprint(f) : f \in new}
    <2>1. CASE UNCHANGED projection
      BY <1>2, <2>1, <1>1 DEF project_failures_for_run, projection
    <2>2. CASE /\ failures' = [f \in DOMAIN failures \cup new |->
                                 IF f \in new
                                 THEN [lineage |-> <<Fingerprint(f)>>, labels |-> <<>>]
                                 ELSE failures[f]]
               /\ clusters' = [c \in DOMAIN Versions(targets) |->
                                 bump_failure_cluster(Versions(targets), c,
                                    Cardinality({f \in new : Fingerprint(f) = c}))]
      <3>1. UNCHANGED <<editor, edits>>
        BY <1>2 DEF project_failures_for_run
      <3> QED BY <2>2, <3>1, Projected
    <2> QED BY <1>2, <2>1, <2>2 DEF project_failures_for_run, Found
  <1>3. ASSUME NEW e \in Editors, failure_cluster_overview(e)
        PROVE  Clustered' /\ Overviews' /\ EditsFitOverview'
    BY <1>3, Looked
  <1>4. ASSUME NEW e \in Editors, reclassify_failure(e)
        PROVE  Clustered' /\ Overviews' /\ EditsFitOverview'
    BY <1>4, Reclassified
  <1>5. ASSUME NEW e \in Editors, abandon_edit(e)
        PROVE  Clustered' /\ Overviews' /\ EditsFitOverview'
    <2>1. UNCHANGED <<failures, clusters, edits>>
          /\ editor' = [editor EXCEPT ![e] = [pc |-> "idle"]]
      BY <1>5 DEF abandon_edit, projection
    <2>2. \A x \in Editors \ {e} : editor'[x] = editor[x] /\ Overview(x)
      BY <2>1 DEF OInv, Overviews
    <2>3. \A x \in Editors \ {e} : Overview(x)'
      BY <2>1, <2>2 DEF Overview, Members
    <2>4. Overviews'
      BY <2>1, <2>3, OthersKeep
    <2> QED BY <2>1, <2>4 DEF OInv, Clustered, EditsFitOverview
  <1>6. ASSUME NEW e \in Editors, NEW s \in DOMAIN clusters, NEW t \in DOMAIN clusters,
               merge_failure_clusters(e, s, t)
        PROVE  Clustered' /\ Overviews' /\ EditsFitOverview'
    <2>1. /\ Editing(e, s, t) /\ Move(Members(s), t)
          /\ append_failure_cluster_edit(
                Edit(e, "merged", s, t, editor[e].members[s], Members(s)))
      BY <1>6 DEF merge_failure_clusters
    <2>2. Members(s) \in SUBSET Members(s)
      OBVIOUS
    <2> QED BY <2>1, <2>2, Moved
  <1>7. ASSUME NEW e \in Editors, NEW s \in DOMAIN clusters, NEW t \in DOMAIN clusters,
               split_failure_cluster(e, s, t)
        PROVE  Clustered' /\ Overviews' /\ EditsFitOverview'
    <2>1. PICK moved \in SUBSET Members(s) : Move(moved, t)
      BY <1>7 DEF split_failure_cluster
    <2>2. /\ Editing(e, s, t)
          /\ append_failure_cluster_edit(
                Edit(e, "split", s, t, editor[e].members[s], Members(s)))
      BY <1>7 DEF split_failure_cluster
    <2> QED BY <2>1, <2>2, Moved
  <1>8. CASE create_failure_cluster
    BY <1>8, Created
  <1>9. CASE \/ transition_run \/ record_usage
             \/ \E a \in Attempts : set_attempt_result(a)
             \/ \E v \in Validations : complete_validation(v)
             \/ project_authoritative_outcomes \/ record_authoritative_outcome
             \/ trace_projection_watermark \/ trace_projection_snapshot \/ mark_trace
             \/ interrupt_observation \/ TabNext
    <2>1. UNCHANGED <<failures, clusters, editor, edits>>
      BY <1>9 DEF transition_run, record_usage, set_attempt_result, complete_validation,
                  project_authoritative_outcomes, record_authoritative_outcome,
                  trace_projection_watermark, trace_projection_snapshot, mark_trace,
                  interrupt_observation, TabNext, read_outcomes, record_operator_outcome,
                  projection
    <2> QED BY <2>1, <1>1
  <1> QED
    BY <1>2, <1>3, <1>4, <1>5, <1>6, <1>7, <1>8, <1>9 DEF Next, ObserverNext

-----------------------------------------------------------------------------
(* The observer                                                            *)
(* What reviewers and tabs do leaves the observer where it is.              *)
Review ==
    \E e \in Editors :
        \/ failure_cluster_overview(e) \/ reclassify_failure(e) \/ abandon_edit(e)
        \/ \E s, t \in DOMAIN clusters :
             merge_failure_clusters(e, s, t) \/ split_failure_cluster(e, s, t)
LEMMA ReviewApart ==
    ASSUME Review
    PROVE  UNCHANGED <<class, events, observer, outcomes, asserted, traces, mark>>
  <1>1. ASSUME NEW e, failure_cluster_overview(e) \/ reclassify_failure(e) \/ abandon_edit(e)
        PROVE  UNCHANGED <<class, events, observer, outcomes, asserted, traces, mark>>
    <2>1. UNCHANGED <<receipts, observer, outcomes, asserted, traces, mark>>
      BY <1>1 DEF failure_cluster_overview, reclassify_failure, abandon_edit
    <2> QED BY <2>1 DEF receipts
  <1>2. ASSUME NEW e, NEW s, NEW t,
               merge_failure_clusters(e, s, t) \/ split_failure_cluster(e, s, t)
        PROVE  UNCHANGED <<class, events, observer, outcomes, asserted, traces, mark>>
    <2>1. Editing(e, s, t)
      BY <1>2 DEF merge_failure_clusters, split_failure_cluster
    <2> QED BY <2>1 DEF Editing, receipts
  <1> QED BY <1>1, <1>2 DEF Review
LEMMA TabsApart ==
    ASSUME TabNext
    PROVE  UNCHANGED <<class, events, observer, outcomes, traces, mark>>
  <1>1. ASSUME NEW t, read_outcomes(t)
        PROVE  UNCHANGED <<class, events, observer, outcomes, traces, mark>>
    BY <1>1 DEF read_outcomes, receipts
  <1>2. ASSUME NEW t, record_operator_outcome(t)
        PROVE  UNCHANGED <<class, events, observer, outcomes, traces, mark>>
    BY <1>2 DEF record_operator_outcome, receipts
  <1> QED BY <1>1, <1>2 DEF TabNext

LEMMA RecordedKept ==
    ASSUME OInv, Next
    PROVE  Recorded'
  <1>0. Recorded
    BY DEF OInv
  <1>1. CASE transition_run
    <2>1. PICK c \in RunCodes \cup Moves : events' = Append(events, c)
      BY <1>1 DEF transition_run
    <2>2. events' \in Seq(RunCodes \cup Moves)
      BY <2>1, <1>0, AppendProperties DEF Recorded
    <2> QED BY <2>2, <1>0, <1>1 DEF transition_run, Recorded
  <1>2. ASSUME NEW a \in Attempts, set_attempt_result(a) PROVE Recorded'
    <2>1. PICK c \in AttemptCodes :
             class' = [class EXCEPT ![a] = [code |-> c, writes |-> class[a].writes + 1]]
      BY <1>2 DEF set_attempt_result
    <2>2. class[a].writes + 1 \in Nat
      BY <1>0 DEF Recorded
    <2>3. class' \in [Attempts -> [code : AttemptCodes \cup {None}, writes : Nat]]
      BY <2>1, <2>2, <1>0 DEF Recorded
    <2> QED BY <2>3, <1>0, <1>2 DEF set_attempt_result, Recorded
  <1>3. CASE project_authoritative_outcomes
    <2>1. /\ observer'.inputs = ValidationInputs \cup CompletionInputs \cup ResourceInputs
          /\ UNCHANGED <<class, events, outcomes>>
      BY <1>3 DEF project_authoritative_outcomes, receipts
    <2>2. IsFiniteSet(observer'.inputs)
      BY <2>1, InputsFinite
    <2> QED BY <2>1, <2>2, <1>0 DEF Recorded
  <1>4. CASE record_authoritative_outcome \/ interrupt_observation
    <2>1. PICK part \in SUBSET observer.inputs : outcomes' = outcomes \cup part
      BY <1>4 DEF record_authoritative_outcome, interrupt_observation
    <2>2. IsFiniteSet(part)
      BY <1>0, FS_Subset DEF Recorded
    <2>3. IsFiniteSet(outcomes')
      BY <2>1, <2>2, <1>0, FS_Union DEF Recorded
    <2>4. observer'.inputs = {} /\ UNCHANGED <<class, events>>
      BY <1>4 DEF record_authoritative_outcome, interrupt_observation, receipts
    <2>5. IsFiniteSet(observer'.inputs)
      BY <2>4, FS_EmptySet
    <2> QED BY <2>3, <2>4, <2>5, <1>0 DEF Recorded
  <1>5. CASE UNCHANGED <<class, events, outcomes>>
             /\ (UNCHANGED observer \/ observer'.inputs = {}
                 \/ \E p : observer' = [observer EXCEPT !.pc = p])
    <2>1. IsFiniteSet(observer'.inputs)
      <3>1. CASE observer'.inputs = {}
        BY <3>1, FS_EmptySet
      <3>2. CASE observer'.inputs = observer.inputs
        BY <3>2, <1>0 DEF Recorded
      <3>3. CASE \E p : observer' = [observer EXCEPT !.pc = p]
        BY <3>2, <3>3
      <3> QED BY <1>5, <3>1, <3>2, <3>3
    <2> QED BY <2>1, <1>5, <1>0 DEF Recorded
  <1>6. CASE project_failures_for_run
    <2>1. /\ UNCHANGED <<class, events, outcomes>>
          /\ \E p : observer' = [observer EXCEPT !.pc = p]
      BY <1>6 DEF project_failures_for_run, receipts
    <2> QED BY <2>1, <1>5
  <1>7. CASE trace_projection_watermark
    <2>1. /\ UNCHANGED <<class, events, outcomes>>
          /\ \E p : observer' = [observer EXCEPT !.pc = p]
      BY <1>7 DEF trace_projection_watermark, receipts
    <2> QED BY <2>1, <1>5
  <1>8. CASE trace_projection_snapshot
    <2>1. /\ UNCHANGED <<class, events, outcomes>>
          /\ observer'.inputs = {} \/ observer' = [observer EXCEPT !.pc = "idle"]
      BY <1>8 DEF trace_projection_snapshot, receipts
    <2> QED BY <2>1, <1>5
  <1>9. CASE mark_trace
    <2>1. UNCHANGED <<class, events, outcomes>> /\ observer'.inputs = {}
      BY <1>9 DEF mark_trace, receipts
    <2> QED BY <2>1, <1>5
  <1>10. CASE \/ record_usage \/ \E v \in Validations : complete_validation(v)
              \/ create_failure_cluster \/ TabNext \/ Review
    <2>1. UNCHANGED <<class, events, outcomes, observer>>
      <3>1. CASE Review
        BY <3>1, ReviewApart
      <3>2. CASE record_usage
        BY <3>2 DEF record_usage
      <3>3. CASE \E v \in Validations : complete_validation(v)
        BY <3>3 DEF complete_validation
      <3>4. CASE create_failure_cluster \/ TabNext
        BY <3>4, TabsApart DEF create_failure_cluster, receipts
      <3> QED BY <1>10, <3>1, <3>2, <3>3, <3>4
    <2> QED BY <2>1, <1>5
  <1> QED
    BY <1>1, <1>2, <1>3, <1>4, <1>6, <1>7, <1>8, <1>9, <1>10 DEF Next, ObserverNext, Review

LEMMA TracingKept ==
    ASSUME OInv, Next
    PROVE  Tracing'
  <1>0. Tracing
    BY DEF OInv
  <1>1. CASE /\ mark' \in {mark, projection_failed} /\ UNCHANGED traces
             /\ UNCHANGED observer \/ \E p, i :
                  observer' = [pc |-> p, inputs |-> i] /\ p # "marking"
    <2>1. mark' = [cursor |-> mark.cursor, deferred |-> mark'.deferred]
      BY <1>0, <1>1 DEF Tracing, projection_failed
    <2>2. mark'.cursor = mark.cursor
      BY <2>1
    <2>3. MarkedIsCaptured'
      BY <1>0, <1>1, <2>2 DEF Tracing, MarkedIsCaptured
    <2>4. mark' = [cursor |-> mark'.cursor, deferred |-> mark'.deferred]
      BY <2>1, <2>2
    <2>5. IF observer'.pc = "marking" THEN observer'.cursor \in traces'
          ELSE observer' = [pc |-> observer'.pc, inputs |-> observer'.inputs]
      BY <1>0, <1>1 DEF Tracing
    <2> QED BY <2>3, <2>4, <2>5 DEF Tracing
  <1>2. CASE project_authoritative_outcomes
    <2> DEFINE i == ValidationInputs \cup CompletionInputs \cup ResourceInputs
    <2>1. UNCHANGED <<mark, traces>> /\ observer' = [pc |-> "recording", inputs |-> i]
      BY <1>2 DEF project_authoritative_outcomes
    <2> HIDE DEF i
    <2> QED BY <2>1, <1>0 DEF Tracing, MarkedIsCaptured
  <1>3. CASE record_authoritative_outcome \/ interrupt_observation
    <2>1. /\ mark' \in {mark, projection_failed} /\ UNCHANGED traces
          /\ \E p \in {"projecting", "idle"} : observer' = [pc |-> p, inputs |-> {}]
      BY <1>3 DEF record_authoritative_outcome, interrupt_observation
    <2> QED BY <2>1, <1>1
  <1>4. CASE project_failures_for_run
    <2>1. /\ mark' \in {mark, projection_failed} /\ UNCHANGED traces
          /\ observer.pc = "projecting"
          /\ \E p \in {"idle", "tracing"} : observer' = [observer EXCEPT !.pc = p]
      BY <1>4 DEF project_failures_for_run
    <2>2. \E p \in {"idle", "tracing"} : observer' = [pc |-> p, inputs |-> observer.inputs]
      BY <2>1, <1>0 DEF Tracing
    <2> QED BY <2>1, <2>2, <1>1
  <1>5. CASE trace_projection_watermark
    <2>1. /\ UNCHANGED <<mark, traces>> /\ observer.pc = "tracing"
          /\ \E p \in {"idle", "capturing"} : observer' = [observer EXCEPT !.pc = p]
      BY <1>5 DEF trace_projection_watermark
    <2>2. \E p \in {"idle", "capturing"} : observer' = [pc |-> p, inputs |-> observer.inputs]
      BY <2>1, <1>0 DEF Tracing
    <2> QED BY <2>1, <2>2, <1>1
  <1>6. CASE trace_projection_snapshot
    <2>1. CASE /\ mark' = [mark EXCEPT !.deferred = TRUE]
               /\ observer' = [observer EXCEPT !.pc = "idle"]
               /\ UNCHANGED traces
      <3>1. observer.pc = "capturing"
        BY <1>6 DEF trace_projection_snapshot
      <3>2. observer' = [pc |-> "idle", inputs |-> observer.inputs]
        BY <2>1, <3>1, <1>0 DEF Tracing
      <3>3. mark' = [cursor |-> mark.cursor, deferred |-> TRUE]
        BY <2>1, <1>0 DEF Tracing
      <3> QED BY <2>1, <3>2, <3>3, <1>0 DEF Tracing, MarkedIsCaptured
    <2>2. CASE /\ traces' = traces \cup {Cursor}
               /\ observer' = [pc |-> "marking", inputs |-> {}, cursor |-> Cursor]
               /\ UNCHANGED mark
      <3>1. observer'.pc = "marking" /\ observer'.cursor = Cursor
        BY <2>2
      <3> QED BY <2>2, <3>1, <1>0 DEF Tracing, MarkedIsCaptured
    <2> QED BY <1>6, <2>1, <2>2 DEF trace_projection_snapshot
  <1>7. CASE mark_trace
    <2>1. /\ observer.cursor \in traces /\ UNCHANGED traces
          /\ observer' = [pc |-> "idle", inputs |-> {}]
          /\ mark' = [mark EXCEPT !.cursor = observer.cursor]
      BY <1>7, <1>0 DEF mark_trace, mark_captured, Tracing
    <2>2. mark' = [cursor |-> observer.cursor, deferred |-> mark.deferred]
      BY <2>1, <1>0 DEF Tracing
    <2> QED BY <2>1, <2>2 DEF Tracing, MarkedIsCaptured
  <1>8. CASE \/ transition_run \/ record_usage
             \/ \E a \in Attempts : set_attempt_result(a)
             \/ \E v \in Validations : complete_validation(v)
             \/ create_failure_cluster \/ TabNext \/ Review
    <2>1. UNCHANGED <<mark, traces, observer>>
      <3>1. CASE Review \/ TabNext
        BY <3>1, ReviewApart, TabsApart
      <3>2. CASE transition_run \/ record_usage \/ create_failure_cluster
        BY <3>2 DEF transition_run, record_usage, create_failure_cluster
      <3>3. CASE \E a \in Attempts : set_attempt_result(a)
        BY <3>3 DEF set_attempt_result
      <3>4. CASE \E v \in Validations : complete_validation(v)
        BY <3>4 DEF complete_validation
      <3> QED BY <1>8, <3>1, <3>2, <3>3, <3>4
    <2> QED BY <2>1, <1>1
  <1> QED
    BY <1>2, <1>3, <1>4, <1>5, <1>6, <1>7, <1>8 DEF Next, ObserverNext, Review

-----------------------------------------------------------------------------
(* The record rests on this invariant: an overview with the versions it    *)
(* was taken at, what the observer has read and the cursor it will mark.   *)
THEOREM OverviewsCurrent == Spec => []OInv
  <1>1. Init => OInv
    <2> SUFFICES ASSUME Init PROVE OInv
      OBVIOUS
    <2>1. Recorded
      BY FS_EmptySet DEF Init, Recorded
    <2>2. Tracing
      BY DEF Init, Tracing, MarkedIsCaptured
    <2>3. failures = Empty /\ clusters = Empty /\ edits = {}
      BY DEF Init
    <2>4. DOMAIN Empty = {} /\ Empty \in [{} -> Nat] /\ Empty \in [{} -> Histories]
      BY DEF Empty
    <2>5. Clustered /\ EditsFitOverview
      BY <2>3, <2>4 DEF Clustered, EditsFitOverview
    <2>6. Overviews /\ OneSuccessor
      BY DEF Init, Overviews, Overview, OneSuccessor
    <2> QED BY <2>1, <2>2, <2>5, <2>6 DEF OInv
  <1>2. OInv /\ [Next]_vars => OInv'
    <2> SUFFICES ASSUME OInv, [Next]_vars PROVE OInv'
      OBVIOUS
    <2>1. CASE Next
      <3>1. OneSuccessor'
        <4>1. CASE \E t \in Tabs : record_operator_outcome(t)
          BY <4>1, SuccessorKept DEF OInv
        <4>2. CASE UNCHANGED asserted
          BY <4>2 DEF OInv, OneSuccessor
        <4>3. CASE Review
          BY <4>2, <4>3, ReviewApart
        <4>4. CASE \E t \in Tabs : read_outcomes(t)
          BY <4>2, <4>4 DEF read_outcomes
        <4>5. CASE \/ transition_run \/ record_usage
                   \/ project_authoritative_outcomes \/ record_authoritative_outcome
                   \/ project_failures_for_run \/ create_failure_cluster
                   \/ trace_projection_watermark \/ trace_projection_snapshot \/ mark_trace
                   \/ interrupt_observation
          BY <4>2, <4>5
          DEF transition_run, record_usage, project_authoritative_outcomes,
              record_authoritative_outcome, project_failures_for_run, create_failure_cluster,
              trace_projection_watermark, trace_projection_snapshot, mark_trace,
              interrupt_observation
        <4>6. CASE \E a \in Attempts : set_attempt_result(a)
          BY <4>2, <4>6 DEF set_attempt_result
        <4>7. CASE \E v \in Validations : complete_validation(v)
          BY <4>2, <4>7 DEF complete_validation
        <4> QED
          BY <2>1, <4>1, <4>3, <4>4, <4>5, <4>6, <4>7 DEF Next, ObserverNext, TabNext, Review
      <3> QED
        BY <2>1, <3>1, RecordedKept, TracingKept, ClustersKept DEF OInv
    <2>2. CASE UNCHANGED vars
      <3>1. UNCHANGED <<failures, clusters, editor, edits>>
        BY <2>2 DEF vars, projection
      <3>2. Recorded' /\ Tracing' /\ OneSuccessor'
        BY <2>2 DEF vars, receipts, OInv, Recorded, Tracing, MarkedIsCaptured, OneSuccessor
      <3> QED BY <3>1, <3>2, ClustersSame DEF OInv
    <2> QED BY <2>1, <2>2
  <1> QED
    BY <1>1, <1>2, PTL DEF Spec

(* Whatever reviewers, tabs and the observer do in between: a merge or a    *)
(* split moves exactly what its reviewer saw (merge_failure_clusters), a    *)
(* label follows the history its reviewer counted (reclassify_failure), a   *)
(* revision has one successor (record_operator_outcome), and a cursor the   *)
(* observer skips has its trace (mark_trace).                               *)
THEOREM OutcomeCustodyHolds == Spec => []OutcomeCustody
  <1>1. OInv => OutcomeCustody
    BY DEF OInv, OutcomeCustody, Tracing
  <1> QED
    BY <1>1, OverviewsCurrent, PTL
=============================================================================
