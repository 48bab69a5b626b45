-------------------------- MODULE ModelFitsProofs --------------------------
(***************************************************************************)
(* Theorems about Dataset Versions and the Models fitted on them, for any  *)
(* number of versions, Jobs, rules, actors, corrections and Models.        *)
(***************************************************************************)
EXTENDS ModelFits, FiniteSetTheorems, TLAPS

-----------------------------------------------------------------------------
(* The two lifecycles.                                                     *)

\* The statuses of a Model.
LEMMA StageNames ==
  Stages = {"absent", "draft", "fitted", "review", "approved", "superseded", "archived"}
BY DEF Stages, VALID_MODEL_TRANSITIONS

\* Where each edge of the Model lifecycle comes from.
LEMMA StageEdges ==
  ASSUME NEW from \in Stages, NEW to \in VALID_MODEL_TRANSITIONS[from]
  PROVE  /\ to \in Stages
         /\ from # "absent"
         /\ to # "absent"
         /\ to = "review" => from = "fitted"
         /\ to = "archived" => from \in {"draft", "fitted", "superseded"}
         /\ to = "approved" => from = "review"
         /\ to = "fitted" => from \in {"draft", "review"}
BY StageNames DEF VALID_MODEL_TRANSITIONS

\* The statuses of a Dataset Version.
LEMMA StatusNames ==
  DOMAIN VALID_DATASET_TRANSITIONS =
    {"absent", "draft", "validating", "validated", "failed", "archived"}
BY DEF VALID_DATASET_TRANSITIONS

\* No edge leads into being absent, and draft leads nowhere a mark is missing.
LEMMA StatusEdges ==
  ASSUME NEW from \in DOMAIN VALID_DATASET_TRANSITIONS,
         NEW to \in VALID_DATASET_TRANSITIONS[from]
  PROVE  /\ to \in DOMAIN VALID_DATASET_TRANSITIONS
         /\ from # "absent"
         /\ to # "absent"
BY StatusNames DEF VALID_DATASET_TRANSITIONS

-----------------------------------------------------------------------------
(* Types.                                                                  *)

\* Steps that append nothing keep the types of Dataset Versions.
LEMMA DataReadTypes ==
  ASSUME DataTypeOK, DataRead
  PROVE  DataTypeOK'
<1> USE DEF DataTypeOK, versionVars, reportVars
<1>1. ASSUME NEW r \in Runs, LoadRun(r)
      PROVE  DataTypeOK'
  <2>1. tables[TargetOf[r]] \in Tables
    BY DatasetConstants
  <2> QED
    BY <1>1, <2>1 DEF LoadRun
<1>2. ASSUME NEW r \in Runs, FailRun(r)
      PROVE  DataTypeOK'
  BY <1>2 DEF FailRun, Tables
<1>3. ASSUME NEW c \in Corrections, ReadSchema(c)
      PROVE  DataTypeOK'
  BY <1>3, DatasetConstants DEF ReadSchema
<1>4. ASSUME NEW c \in Corrections, AbandonSchema(c)
      PROVE  DataTypeOK'
  BY <1>4 DEF AbandonSchema
<1> QED
  BY <1>1, <1>2, <1>3, <1>4 DEF DataRead

\* A status that moves along the table, and its mark, are of their types.
LEMMA MoveTypes ==
  ASSUME DataTypeOK, NEW v \in Versions, NEW to, Move(v, to)
  PROVE  /\ status' \in [Versions -> DOMAIN VALID_DATASET_TRANSITIONS]
         /\ frozen' \subseteq Versions
<1>1. to \in DOMAIN VALID_DATASET_TRANSITIONS
  BY StatusEdges DEF DataTypeOK, Move
<1> QED
  BY <1>1 DEF DataTypeOK, Move, Marked

\* Storing a report keeps the types, whatever becomes of the version.
LEMMA StoreTypes ==
  ASSUME DataTypeOK, NEW r \in Runs, NEW overall \in {"passed", "blocked"},
         NEW warned \in SUBSET Rules, StoreReport(r, overall, warned),
         status' \in [Versions -> DOMAIN VALID_DATASET_TRANSITIONS],
         frozen' \subseteq Versions,
         report' \in [Versions -> Runs \cup {None}]
  PROVE  DataTypeOK'
BY DEF DataTypeOK, StoreReport

\* Transactions keep the types of Dataset Versions.
LEMMA DataWriteTypes ==
  ASSUME DataTypeOK, DataWrite
  PROVE  DataTypeOK'
<1>1. ASSUME NEW v \in Versions, NEW rows \in Tables, Create(v, rows)
      PROVE  DataTypeOK'
  BY <1>1, StatusNames DEF Create, DataTypeOK, reportVars
<1>2. ASSUME NEW v \in Versions, Ingest(v)
      PROVE  DataTypeOK'
  BY <1>1, <1>2 DEF Ingest, Tables
<1>3. ASSUME NEW v \in Versions, Derive(v)
      PROVE  DataTypeOK'
  <2>1. tables[PartOf[v]] \in Tables
    BY <1>3, DatasetConstants DEF Derive, DataTypeOK
  <2> QED
    BY <1>1, <1>3, <2>1 DEF Derive
<1>4. ASSUME NEW v \in Versions, Transition(v)
      PROVE  DataTypeOK'
  <2>1. PICK to \in {"draft", "validating", "failed"} : Move(v, to)
    BY <1>4 DEF Transition
  <2> QED
    BY <1>4, <2>1, MoveTypes DEF Transition, DataTypeOK, reportVars
<1>5. ASSUME NEW v \in Versions, ArchiveVersion(v)
      PROVE  DataTypeOK'
  BY <1>5, MoveTypes DEF ArchiveVersion, DataTypeOK, reportVars
<1>6. ASSUME NEW r \in Runs, NEW warned \in SUBSET Rules, StorePassed(r, warned)
      PROVE  DataTypeOK'
  BY <1>6, StoreTypes, StatusNames, DatasetConstants DEF StorePassed, DataTypeOK, Marked
<1>7. ASSUME NEW r \in Runs, NEW warned \in SUBSET Rules, StoreBlocked(r, warned)
      PROVE  DataTypeOK'
  BY <1>7, StoreTypes, StatusNames, DatasetConstants DEF StoreBlocked, DataTypeOK, Marked
<1>8. ASSUME NEW r \in Runs, NEW warned \in SUBSET Rules, NEW overall \in {"passed", "blocked"},
             StoreDryRun(r, overall, warned)
      PROVE  DataTypeOK'
  BY <1>8, StoreTypes DEF StoreDryRun, DataTypeOK, versionVars
<1>9. ASSUME NEW r \in Runs, NEW rule \in Rules, NEW actor \in Actors,
             Acknowledge(r, rule, actor)
      PROVE  DataTypeOK'
  BY <1>9 DEF Acknowledge, DataTypeOK, versionVars
<1>10. ASSUME NEW r \in Runs, Promote(r)
       PROVE  DataTypeOK'
  BY <1>10, MoveTypes, DatasetConstants DEF Promote, DataTypeOK, reportVars
<1>11. ASSUME NEW c \in Corrections, CorrectSchema(c)
       PROVE  DataTypeOK'
  BY <1>11 DEF CorrectSchema, DataTypeOK, Tables, reportVars
<1> QED
  BY <1>2, <1>3, <1>4, <1>5, <1>6, <1>7, <1>8, <1>9, <1>10, <1>11 DEF DataWrite

\* Model steps that append nothing keep the types.
LEMMA ModelReadTypes ==
  ASSUME TypeOK, ModelRead, UNCHANGED dataVars
  PROVE  TypeOK'
<1> USE StageNames
<1>d. DataTypeOK' /\ UNCHANGED <<status, tables>>
  BY DEF TypeOK, DataTypeOK, dataVars, versionVars, reportVars
<1>1. ASSUME NEW f \in Fits, LoadFit(f)
      PROVE  TypeOK'
  <2>1. tables[TrainOf[FitOf[f]]] \in Tables
    BY ModelConstants DEF TypeOK, DataTypeOK
  <2> QED
    BY <1>1, <1>d, <2>1 DEF LoadFit, TypeOK
<1>2. ASSUME NEW f \in Fits, FailFit(f)
      PROVE  TypeOK'
  BY <1>2, <1>d DEF FailFit, TypeOK, Tables
<1>3. ASSUME NEW m \in Models, ReadFlags(m)
      PROVE  TypeOK'
  BY <1>3, <1>d DEF ReadFlags, TypeOK
<1>4. ASSUME NEW m \in Models, Approve(m)
      PROVE  TypeOK'
  <2>1. stage[m] = "review"
    BY <1>4, StageEdges DEF Approve, TypeOK
  <2>2. stage' = AfterApproval(m) /\ UNCHANGED <<numbers, fit, frame>>
    BY <1>4 DEF Approve
  <2>3. decision' \in [Models -> {"none", "voted", "clear"}]
    BY <1>4 DEF Approve, TypeOK
  <2>4. stage' \in [Models -> Stages]
    BY <2>2 DEF AfterApproval, TypeOK
  <2>5. \A k \in Models : stage'[k] = stage[k] \/ stage[k] \in {"review", "approved"}
    BY <2>1, <2>2 DEF AfterApproval, TypeOK
  <2> QED
    BY <1>d, <2>2, <2>3, <2>4, <2>5 DEF TypeOK
<1>5. ASSUME NEW m \in Models, AbandonDecision(m)
      PROVE  TypeOK'
  BY <1>5, <1>d DEF AbandonDecision, TypeOK
<1> QED
  BY <1>1, <1>2, <1>3, <1>4, <1>5 DEF ModelRead

\* A step of the Model lifecycle that needs no new numbers keeps the types.
LEMMA ToStageTypes ==
  ASSUME TypeOK, UNCHANGED dataVars, NEW m \in Models, NEW to, ToStage(m, to),
         to \in {"draft", "archived"} \/ stage[m] \notin {"absent", "draft", "archived"}
  PROVE  TypeOK'
<1>1. DataTypeOK'
  BY DEF TypeOK, DataTypeOK, dataVars, versionVars, reportVars
<1>2. to \in Stages
  BY StageEdges DEF ToStage, TypeOK
<1> QED
  BY <1>1, <1>2 DEF ToStage, TypeOK

\* Model transactions keep the types.
LEMMA ModelWriteTypes ==
  ASSUME TypeOK, ModelWrite, UNCHANGED dataVars
  PROVE  TypeOK'
<1> USE StageNames
<1>d. DataTypeOK'
  BY DEF TypeOK, DataTypeOK, dataVars, versionVars, reportVars
<1>1. ASSUME NEW m \in Models, NEW f \in Fits, Reserve(m, f)
      PROVE  TypeOK'
  BY <1>1, <1>d DEF Reserve, Reserved, Queue, TypeOK
<1>2. ASSUME NEW m \in Models, NEW f \in Fits, Resubmit(m, f)
      PROVE  TypeOK'
  BY <1>2, <1>d DEF Resubmit, Queue, TypeOK
<1>3. ASSUME NEW f \in Fits, StoreFit(f)
      PROVE  TypeOK'
  <2>1. frame[f] \in Tables /\ frame[f] # None
    BY DatasetConstants DEF TypeOK
  <2> QED
    BY <1>3, <1>d, <2>1, ModelConstants DEF StoreFit, TypeOK, Tables
<1>4. ASSUME NEW m \in Models, SubmitForReview(m)
      PROVE  TypeOK'
  <2>1. stage[m] = "fitted"
    BY <1>4, StageEdges DEF SubmitForReview, ToStage, TypeOK
  <2> QED
    BY <1>4, <2>1, ToStageTypes DEF SubmitForReview
<1>5. ASSUME NEW m \in Models, ReturnToFitted(m)
      PROVE  TypeOK'
  BY <1>5, ToStageTypes DEF ReturnToFitted
<1>6. ASSUME NEW m \in Models, ArchiveModel(m)
      PROVE  TypeOK'
  BY <1>6, ToStageTypes DEF ArchiveModel
<1>7. ASSUME NEW m \in Models, Vote(m)
      PROVE  TypeOK'
  BY <1>7, <1>d DEF Vote, TypeOK
<1> QED
  BY <1>1, <1>2, <1>3, <1>4, <1>5, <1>6, <1>7 DEF ModelWrite

\* Every step keeps the types.
LEMMA StepTypes ==
  ASSUME TypeOK, [Next]_vars
  PROVE  TypeOK'
<1>1. CASE DataStep
  <2>1. DataTypeOK'
    BY <1>1, DataReadTypes, DataWriteTypes DEF DataStep, TypeOK
  <2> QED
    BY <1>1, <2>1 DEF DataStep, TypeOK, modelVars
<1>2. CASE ModelStep
  BY <1>2, ModelReadTypes, ModelWriteTypes DEF ModelStep
<1>3. CASE UNCHANGED vars
  BY <1>3 DEF vars, dataVars, versionVars, reportVars, modelVars, TypeOK, DataTypeOK
<1> QED
  BY <1>1, <1>2, <1>3 DEF Next

\* Nothing exists at the start.
LEMMA InitTypes ==
  ASSUME Init
  PROVE  TypeOK
BY StatusNames, StageNames DEF Init, DataInit, TypeOK, DataTypeOK, Tables

\* Dataset Versions, reports, corrections, Models and fit Jobs are always well typed, and a
\* Model past draft and archived has its numbers (fitted_model_has_a_fit_result).
THEOREM TypeCorrect == Spec => []TypeOK
BY InitTypes, StepTypes, PTL DEF Spec

-----------------------------------------------------------------------------
(* What a status and a report say of each other.                           *)

\* A version that has left draft is marked, and only versions are marked.
MarkInv ==
  /\ \A v \in Versions : status[v] \in {"validating", "validated", "failed"} => v \in frozen
  /\ \A v \in frozen : status[v] # "absent"

\* Only warnings of a stored report are acknowledged, each by one actor.
AckInv ==
  \A r \in Runs :
    /\ acks[r] \subseteq warns[r] \X Actors
    /\ \A rule \in Rules, a, b \in Actors :
         <<rule, a>> \in acks[r] /\ <<rule, b>> \in acks[r] => a = b
    /\ run[r] \in {"idle", "running"} => acks[r] = {}

DataInv == DataTypeOK /\ MarkInv /\ AckInv /\ ValidatedByReport

\* As many acknowledgements as warnings are one for each warning: the comparison of two
\* counts in unacknowledged_warnings is enough.
LEMMA EveryWarningAcknowledged ==
  ASSUME DataTypeOK, AckInv, NEW r \in Runs, NoneOutstanding(r)
  PROVE  \A rule \in warns[r] : \E a \in Actors : <<rule, a>> \in acks[r]
<1> DEFINE covered == {rule \in warns[r] : \E a \in Actors : <<rule, a>> \in acks[r]}
           ruleOf == [k \in acks[r] |-> k[1]]
<1>1. /\ warns[r] \subseteq Rules
      /\ acks[r] \subseteq warns[r] \X Actors
  BY DEF DataTypeOK, AckInv
<1>2. IsFiniteSet(warns[r]) /\ IsFiniteSet(covered)
  BY <1>1, FiniteWarnings, FS_Subset
<1>3. ruleOf \in Injection(acks[r], covered)
  <2>1. \A k \in acks[r] : k[1] \in covered
    <3> SUFFICES ASSUME NEW k \in acks[r]
                 PROVE  k[1] \in covered
      OBVIOUS
    <3>1. PICK rule \in warns[r], a \in Actors : k = <<rule, a>>
      BY <1>1
    <3> QED
      BY <3>1
  <2>2. \A k, l \in acks[r] : k[1] = l[1] => k = l
    <3> SUFFICES ASSUME NEW k \in acks[r], NEW l \in acks[r], k[1] = l[1]
                 PROVE  k = l
      OBVIOUS
    <3>1. PICK rule \in warns[r], a \in Actors : k = <<rule, a>>
      BY <1>1
    <3>2. PICK other \in warns[r], b \in Actors : l = <<other, b>>
      BY <1>1
    <3> QED
      BY <1>1, <3>1, <3>2 DEF AckInv
  <2>3. ruleOf \in [acks[r] -> covered]
    BY <2>1
  <2>4. \A k, l \in acks[r] : ruleOf[k] = ruleOf[l] => k = l
    BY <2>2
  <2> QED
    BY <2>3, <2>4 DEF Injection, IsInjective
<1>4. Cardinality(acks[r]) <= Cardinality(covered)
  BY <1>2, <1>3, FS_Injection
<1>5. Cardinality(covered) = Cardinality(warns[r])
  <2>1. Cardinality(covered) <= Cardinality(warns[r])
    BY <1>2, FS_Subset
  <2>2. IsFiniteSet(acks[r])
    BY <1>2, <1>3, FS_Injection
  <2>3. /\ Cardinality(acks[r]) \in Nat
        /\ Cardinality(covered) \in Nat
        /\ Cardinality(warns[r]) \in Nat
    BY <1>2, <2>2, FS_CardinalityType
  <2> HIDE DEF covered
  <2> QED
    BY <1>4, <2>1, <2>3 DEF NoneOutstanding
<1>6. covered = warns[r]
  <2>1. covered \subseteq warns[r]
    OBVIOUS
  <2> HIDE DEF covered
  <2> QED
    BY <1>2, <1>5, <2>1, FS_Subset
<1> QED
  BY <1>6

\* A validated version keeps its report while neither it nor what is stored changes.
LEMMA ReportsKept ==
  ASSUME ValidatedByReport,
         \A u \in Versions : status'[u] = "validated" =>
           status[u] = "validated" /\ report'[u] = report[u],
         \A r \in Runs : run[r] = "passed" =>
           run'[r] = "passed" /\ warns'[r] = warns[r] /\ acks[r] \subseteq acks'[r]
  PROVE  ValidatedByReport'
<1> SUFFICES ASSUME NEW u \in Versions, status'[u] = "validated"
             PROVE  /\ report'[u] \in Runs
                    /\ TargetOf[report'[u]] = u
                    /\ run'[report'[u]] = "passed"
                    /\ \A rule \in warns'[report'[u]] :
                         \E a \in Actors : <<rule, a>> \in acks'[report'[u]]
  BY DEF ValidatedByReport
<1>1. /\ report'[u] = report[u]
      /\ report[u] \in Runs
      /\ TargetOf[report[u]] = u
      /\ run[report[u]] = "passed"
      /\ \A rule \in warns[report[u]] : \E a \in Actors : <<rule, a>> \in acks[report[u]]
  BY DEF ValidatedByReport
<1>2. /\ run'[report[u]] = "passed"
      /\ warns'[report[u]] = warns[report[u]]
      /\ acks[report[u]] \subseteq acks'[report[u]]
  BY <1>1
<1> QED
  BY <1>1, <1>2

\* Reading tables and schemas disturbs nothing that a status says.
LEMMA DataReadInv ==
  ASSUME DataInv, DataRead
  PROVE  DataInv'
<1>t. DataTypeOK'
  BY DataReadTypes DEF DataInv
<1> USE DEF DataInv, versionVars, reportVars, MarkInv, AckInv
<1>1. ASSUME NEW r \in Runs, LoadRun(r)
      PROVE  DataInv'
  <2>1. \A k \in Runs : run[k] = "passed" => run'[k] = "passed"
    BY <1>1 DEF LoadRun, DataTypeOK
  <2>2. ValidatedByReport'
    BY <1>1, <2>1, ReportsKept DEF LoadRun
  <2>3. MarkInv' /\ AckInv'
    BY <1>1 DEF LoadRun, DataTypeOK
  <2> QED
    BY <1>t, <2>2, <2>3
<1>2. ASSUME NEW r \in Runs, FailRun(r)
      PROVE  DataInv'
  <2>1. \A k \in Runs : run[k] = "passed" => run'[k] = "passed"
    BY <1>2 DEF FailRun, DataTypeOK
  <2>2. ValidatedByReport'
    BY <1>2, <2>1, ReportsKept DEF FailRun
  <2>3. MarkInv' /\ AckInv'
    BY <1>2 DEF FailRun, DataTypeOK
  <2> QED
    BY <1>t, <2>2, <2>3
<1>3. ASSUME NEW c \in Corrections, ReadSchema(c)
      PROVE  DataInv'
  <2>1. MarkInv' /\ AckInv' /\ ValidatedByReport'
    BY <1>3, ReportsKept DEF ReadSchema
  <2> QED
    BY <1>t, <2>1
<1>4. ASSUME NEW c \in Corrections, AbandonSchema(c)
      PROVE  DataInv'
  <2>1. MarkInv' /\ AckInv' /\ ValidatedByReport'
    BY <1>4, ReportsKept DEF AbandonSchema
  <2> QED
    BY <1>t, <2>1
<1> QED
  BY <1>1, <1>2, <1>3, <1>4 DEF DataRead

\* A move along the table keeps the mark.
LEMMA MoveMarks ==
  ASSUME DataTypeOK, MarkInv, NEW v \in Versions, NEW to, Move(v, to)
  PROVE  MarkInv'
<1>1. to # "absent" /\ status[v] # "absent"
  BY StatusEdges DEF DataTypeOK, Move
<1> QED
  BY <1>1 DEF DataTypeOK, Move, Marked, MarkInv

\* Storing the report of a version keeps the mark.
LEMMA StoreMarks ==
  ASSUME DataTypeOK, MarkInv, NEW v \in Versions, CanBegin(v),
         NEW to \in {"draft", "validating", "failed"},
         status' = [status EXCEPT ![v] = to],
         frozen' = Marked(v, "validating")
  PROVE  MarkInv'
BY DEF DataTypeOK, Marked, MarkInv, CanBegin

\* A running Job has no acknowledgement, so its report starts with none.
LEMMA StoreAcks ==
  ASSUME DataTypeOK, AckInv, NEW r \in Runs, NEW overall \in {"passed", "blocked"},
         NEW warned \in SUBSET Rules, StoreReport(r, overall, warned)
  PROVE  AckInv'
<1>1. acks[r] = {}
  BY DEF AckInv, StoreReport
<1> QED
  BY <1>1 DEF DataTypeOK, AckInv, StoreReport

\* Transactions keep what a status and a report say of each other.
LEMMA DataWriteInv ==
  ASSUME DataInv, DataWrite
  PROVE  DataInv'
<1>t. DataTypeOK'
  BY DataWriteTypes DEF DataInv
<1> USE DEF DataInv
<1>1. ASSUME NEW v \in Versions, NEW rows, Create(v, rows)
      PROVE  DataInv'
  <2>1. MarkInv'
    BY <1>1 DEF Create, Exists, DataTypeOK, MarkInv
  <2>2. AckInv'
    BY <1>1 DEF Create, reportVars, AckInv
  <2>3. \A u \in Versions : status'[u] = "validated" => status[u] = "validated"
    BY <1>1 DEF Create, DataTypeOK
  <2>4. ValidatedByReport'
    BY <1>1, <2>3, ReportsKept DEF Create, reportVars
  <2> QED
    BY <1>t, <2>1, <2>2, <2>4
<1>2. ASSUME NEW v \in Versions, Ingest(v) \/ Derive(v)
      PROVE  DataInv'
  BY <1>1, <1>2 DEF Ingest, Derive
<1>3. ASSUME NEW v \in Versions, Transition(v)
      PROVE  DataInv'
  <2>1. PICK to \in {"draft", "validating", "failed"} : Move(v, to)
    BY <1>3 DEF Transition
  <2>2. UNCHANGED <<report, run, warns, acks>>
    BY <1>3 DEF Transition, reportVars
  <2>3. \A u \in Versions : status'[u] = "validated" => status[u] = "validated"
    BY <2>1 DEF Move, DataTypeOK
  <2>4. AckInv' /\ ValidatedByReport'
    BY <2>2, <2>3, ReportsKept DEF AckInv
  <2> QED
    BY <1>t, <2>1, <2>4, MoveMarks
<1>4. ASSUME NEW v \in Versions, ArchiveVersion(v)
      PROVE  DataInv'
  <2>1. Move(v, "archived") /\ UNCHANGED <<report, run, warns, acks>>
    BY <1>4 DEF ArchiveVersion, reportVars
  <2>2. \A u \in Versions : status'[u] = "validated" => status[u] = "validated"
    BY <2>1 DEF Move, DataTypeOK
  <2>3. AckInv' /\ ValidatedByReport'
    BY <2>1, <2>2, ReportsKept DEF AckInv
  <2> QED
    BY <1>t, <2>1, <2>3, MoveMarks
<1>5. ASSUME NEW r \in Runs, NEW warned \in SUBSET Rules, StorePassed(r, warned)
      PROVE  DataInv'
  <2>1. /\ StoreReport(r, "passed", warned)
        /\ status' = [status EXCEPT ![TargetOf[r]] = "validating"]
        /\ UNCHANGED report
        /\ TargetOf[r] \in Versions
    BY <1>5, DatasetConstants DEF StorePassed
  <2>2. MarkInv'
    BY <1>5, <2>1, StoreMarks DEF StorePassed
  <2>3. ValidatedByReport'
    BY <2>1 DEF StoreReport, DataTypeOK, ValidatedByReport
  <2> QED
    BY <1>t, <2>1, <2>2, <2>3, StoreAcks
<1>6. ASSUME NEW r \in Runs, NEW warned \in SUBSET Rules, StoreBlocked(r, warned)
      PROVE  DataInv'
  <2>1. PICK to \in {"draft", "failed"} : status' = [status EXCEPT ![TargetOf[r]] = to]
    BY <1>6 DEF StoreBlocked
  <2>2. /\ StoreReport(r, "blocked", warned)
        /\ report' = [report EXCEPT ![TargetOf[r]] = None]
        /\ CanBegin(TargetOf[r])
        /\ frozen' = Marked(TargetOf[r], "validating")
        /\ TargetOf[r] \in Versions
    BY <1>6, DatasetConstants DEF StoreBlocked
  <2>3. MarkInv'
    BY <2>1, <2>2, StoreMarks
  <2>4. ValidatedByReport'
    BY <2>1, <2>2 DEF StoreReport, DataTypeOK, ValidatedByReport
  <2> QED
    BY <1>t, <2>2, <2>3, <2>4, StoreAcks
<1>7. ASSUME NEW r \in Runs, NEW warned \in SUBSET Rules, NEW overall \in {"passed", "blocked"},
             StoreDryRun(r, overall, warned)
      PROVE  DataInv'
  <2>1. StoreReport(r, overall, warned) /\ UNCHANGED <<status, frozen, report>>
    BY <1>7 DEF StoreDryRun, versionVars
  <2>2. MarkInv' /\ ValidatedByReport'
    BY <2>1 DEF StoreReport, DataTypeOK, MarkInv, ValidatedByReport
  <2> QED
    BY <1>t, <2>1, <2>2, StoreAcks
<1>8. ASSUME NEW r \in Runs, NEW rule \in Rules, NEW actor \in Actors,
             Acknowledge(r, rule, actor)
      PROVE  DataInv'
  <2>1. AckInv'
    BY <1>8 DEF Acknowledge, MayAcknowledge, Stored, DataTypeOK, AckInv
  <2>2. MarkInv' /\ ValidatedByReport'
    BY <1>8 DEF Acknowledge, versionVars, DataTypeOK, MarkInv, ValidatedByReport
  <2> QED
    BY <1>t, <2>1, <2>2
<1>9. ASSUME NEW r \in Runs, Promote(r)
      PROVE  DataInv'
  <2>1. /\ Move(TargetOf[r], "validated")
        /\ report' = [report EXCEPT ![TargetOf[r]] = r]
        /\ UNCHANGED reportVars
        /\ TargetOf[r] \in Versions
    BY <1>9, DatasetConstants DEF Promote
  <2>2. MarkInv'
    BY <2>1, MoveMarks
  <2>3. \A rule \in warns[r] : \E a \in Actors : <<rule, a>> \in acks[r]
    BY <1>9, EveryWarningAcknowledged DEF Promote
  <2>4. ValidatedByReport'
    <3> SUFFICES ASSUME NEW u \in Versions, status'[u] = "validated"
                 PROVE  /\ report'[u] \in Runs
                        /\ TargetOf[report'[u]] = u
                        /\ run[report'[u]] = "passed"
                        /\ \A rule \in warns[report'[u]] :
                             \E a \in Actors : <<rule, a>> \in acks[report'[u]]
      BY <2>1 DEF reportVars, ValidatedByReport
    <3>1. CASE u = TargetOf[r]
      <4>1. report'[u] = r /\ run[r] = "passed"
        BY <1>9, <2>1, <3>1 DEF DataTypeOK, Promote
      <4> QED
        BY <2>3, <3>1, <4>1
    <3>2. CASE u # TargetOf[r]
      <4>1. report'[u] = report[u] /\ status[u] = "validated"
        BY <2>1, <3>2 DEF Move, DataTypeOK
      <4> QED
        BY <4>1 DEF ValidatedByReport
    <3> QED
      BY <3>1, <3>2
  <2>5. AckInv'
    BY <2>1 DEF reportVars, AckInv
  <2> QED
    BY <1>t, <2>2, <2>4, <2>5
<1>10. ASSUME NEW c \in Corrections, CorrectSchema(c)
       PROVE  DataInv'
  BY <1>10, <1>t DEF CorrectSchema, reportVars, MarkInv, AckInv, ValidatedByReport
<1> QED
  BY <1>2, <1>3, <1>4, <1>5, <1>6, <1>7, <1>8, <1>9, <1>10 DEF DataWrite

\* A version keeps its mark, and a marked one its tables, whatever a validation, a
\* correction or a reader of the schema does.
LEMMA MarkedKept ==
  ASSUME DataInv, DataRead \/ DataWrite
  PROVE  frozen \subseteq frozen' /\ \A v \in frozen : tables'[v] = tables[v]
<1> USE DEF DataInv, DataTypeOK, MarkInv, versionVars
<1>1. CASE DataRead
  BY <1>1 DEF DataRead, LoadRun, FailRun, ReadSchema, AbandonSchema
<1>2. CASE DataWrite
  <2>1. ASSUME NEW v \in Versions, NEW rows, Create(v, rows)
        PROVE  UNCHANGED frozen /\ \A u \in frozen : tables'[u] = tables[u]
    BY <2>1 DEF Create, Exists
  <2>2. ASSUME NEW v \in Versions, Ingest(v) \/ Derive(v)
        PROVE  UNCHANGED frozen /\ \A u \in frozen : tables'[u] = tables[u]
    BY <2>1, <2>2 DEF Ingest, Derive
  <2>3. ASSUME NEW v \in Versions, Transition(v) \/ ArchiveVersion(v)
        PROVE  frozen \subseteq frozen' /\ UNCHANGED tables
    BY <2>3 DEF Transition, ArchiveVersion, Move, Marked
  <2>4. ASSUME NEW r \in Runs, NEW warned \in SUBSET Rules,
               StorePassed(r, warned) \/ StoreBlocked(r, warned)
        PROVE  frozen \subseteq frozen' /\ UNCHANGED tables
    BY <2>4 DEF StorePassed, StoreBlocked, StoreReport, Marked
  <2>5. ASSUME NEW r \in Runs, NEW warned \in SUBSET Rules, NEW overall \in {"passed", "blocked"},
               StoreDryRun(r, overall, warned)
        PROVE  UNCHANGED <<frozen, tables>>
    BY <2>5 DEF StoreDryRun
  <2>6. ASSUME NEW r \in Runs, NEW rule \in Rules, NEW actor \in Actors,
               Acknowledge(r, rule, actor)
        PROVE  UNCHANGED <<frozen, tables>>
    BY <2>6 DEF Acknowledge
  <2>7. ASSUME NEW r \in Runs, Promote(r)
        PROVE  frozen \subseteq frozen' /\ UNCHANGED tables
    BY <2>7 DEF Promote, Move, Marked
  <2>8. ASSUME NEW c \in Corrections, CorrectSchema(c)
        PROVE  UNCHANGED frozen /\ \A u \in frozen : tables'[u] = tables[u]
    BY <2>8 DEF CorrectSchema, Correctable
  <2> QED
    BY <1>2, <2>2, <2>3, <2>4, <2>5, <2>6, <2>7, <2>8 DEF DataWrite
<1> QED
  BY <1>1, <1>2

\* One transaction moves the status of one version at most.
LEMMA OneStatus ==
  ASSUME DataTypeOK, DataRead \/ DataWrite
  PROVE  UNCHANGED status \/ \E v \in Versions : \A u \in Versions \ {v} : status'[u] = status[u]
<1> USE DEF DataTypeOK, versionVars
<1>1. CASE DataRead
  BY <1>1 DEF DataRead, LoadRun, FailRun, ReadSchema, AbandonSchema
<1>2. CASE DataWrite
  <2>1. ASSUME NEW v \in Versions, Ingest(v) \/ Derive(v) \/ Transition(v) \/ ArchiveVersion(v)
        PROVE  \A u \in Versions \ {v} : status'[u] = status[u]
    BY <2>1 DEF Ingest, Derive, Create, Transition, ArchiveVersion, Move
  <2>2. ASSUME NEW r \in Runs, NEW warned \in SUBSET Rules,
               StorePassed(r, warned) \/ StoreBlocked(r, warned)
        PROVE  \A u \in Versions \ {TargetOf[r]} : status'[u] = status[u]
    BY <2>2 DEF StorePassed, StoreBlocked
  <2>3. ASSUME NEW r \in Runs, NEW warned \in SUBSET Rules, NEW overall \in {"passed", "blocked"},
               StoreDryRun(r, overall, warned)
        PROVE  UNCHANGED status
    BY <2>3 DEF StoreDryRun
  <2>4. ASSUME NEW r \in Runs, NEW rule \in Rules, NEW actor \in Actors,
               Acknowledge(r, rule, actor)
        PROVE  UNCHANGED status
    BY <2>4 DEF Acknowledge
  <2>5. ASSUME NEW r \in Runs, Promote(r)
        PROVE  \A u \in Versions \ {TargetOf[r]} : status'[u] = status[u]
    BY <2>5 DEF Promote, Move
  <2>6. ASSUME NEW c \in Corrections, CorrectSchema(c)
        PROVE  UNCHANGED status
    BY <2>6 DEF CorrectSchema
  <2> QED
    BY <1>2, <2>1, <2>2, <2>3, <2>4, <2>5, <2>6, DatasetConstants DEF DataWrite
<1> QED
  BY <1>1, <1>2

\* What cannot hold the chain does not move a status.
LEMMA ReadsKeepStatus ==
  ASSUME DataRead
  PROVE  UNCHANGED status
BY DEF DataRead, LoadRun, FailRun, ReadSchema, AbandonSchema, versionVars

-----------------------------------------------------------------------------
(* What a Model says of its data, its Jobs and the decision on it.         *)

ModelInv ==
  /\ \A m \in Models : Reserved(m) => DataOf[m] \in frozen
  /\ \A m \in Models : decision[m] # "none" => stage[m] = "review"
  /\ \A m \in Models : decision[m] = "clear" => Fittable(m)
  /\ \A m \in Models : numbers[m] # None => stage[m] \notin {"absent", "draft"}
  /\ \A f \in Fits : fit[f] # "idle" => Reserved(FitOf[f])

IInv == TypeOK /\ DataInv /\ ModelInv

\* Nothing is reserved at the start.
LEMMA InitIInv ==
  ASSUME Init
  PROVE  IInv
<1>1. DataInv
  BY InitTypes DEF TypeOK, Init, DataInit, DataInv, MarkInv, AckInv, ValidatedByReport
<1>2. ModelInv
  BY ModelConstants DEF Init, ModelInv, Reserved
<1> QED
  BY <1>1, <1>2, InitTypes DEF IInv

\* Steps on Dataset Versions leave Models true: a decision excludes the transactions that
\* would move the status it has read.
LEMMA DataStepInv ==
  ASSUME IInv, DataStep
  PROVE  IInv'
<1>1. DataRead \/ (ChainFree /\ DataWrite)
  BY DEF DataStep
<1>2. DataInv'
  BY <1>1, DataReadInv, DataWriteInv DEF IInv
<1>3. TypeOK'
  BY StepTypes DEF IInv, Next
<1>4. UNCHANGED <<stage, numbers, fit, frame, decision>>
  BY DEF DataStep, modelVars
<1>5. frozen \subseteq frozen'
  BY <1>1, MarkedKept DEF IInv
<1>6. \A m \in Models : decision[m] = "clear" => Fittable(m)'
  <2>1. CASE DataRead
    BY <2>1, ReadsKeepStatus DEF IInv, ModelInv, Fittable
  <2>2. CASE ChainFree
    BY <2>2 DEF ChainFree
  <2> QED
    BY <1>1, <2>1, <2>2
<1>7. ModelInv'
  BY <1>4, <1>5, <1>6 DEF IInv, ModelInv, Reserved
<1> QED
  BY <1>2, <1>3, <1>7 DEF IInv

\* Models steps leave Dataset Versions alone.
LEMMA DataUntouched ==
  ASSUME IInv, UNCHANGED dataVars
  PROVE  DataInv' /\ \A m \in Models : Fittable(m)' <=> Fittable(m)
BY DEF IInv, DataInv, DataTypeOK, MarkInv, AckInv, ValidatedByReport, Fittable,
       dataVars, versionVars, reportVars

\* Model steps keep what Models say.
LEMMA ModelStepInv ==
  ASSUME IInv, ModelStep
  PROVE  IInv'
<1>0. /\ UNCHANGED dataVars
      /\ UNCHANGED <<status, frozen>>
  BY DEF ModelStep, dataVars, versionVars
<1>t. TypeOK' /\ DataInv'
  BY <1>0, StepTypes, DataUntouched DEF IInv, Next
<1>s. \A m \in Models : Fittable(m)' <=> Fittable(m)
  BY <1>0, DataUntouched
<1> USE StageNames DEF TypeOK, IInv, ModelInv, Reserved
<1>1. ASSUME NEW f \in Fits, LoadFit(f) \/ FailFit(f)
      PROVE  ModelInv'
  BY <1>0, <1>1, <1>s DEF LoadFit, FailFit
<1>2. ASSUME NEW m \in Models, ReadFlags(m)
      PROVE  ModelInv'
  BY <1>0, <1>2, <1>s DEF ReadFlags
<1>3. ASSUME NEW m \in Models, Approve(m)
      PROVE  ModelInv'
  <2>1. \A k \in Models : decision'[k] # "none" => k # m /\ decision'[k] = decision[k]
    BY <1>3 DEF Approve
  <2>2. stage[m] = "review"
    BY <1>3, StageEdges DEF Approve
  <2>3. \A k \in Models : k # m /\ stage[k] # "approved" => stage'[k] = stage[k]
    BY <1>3 DEF Approve, AfterApproval
  <2>4. \A k \in Models : stage'[k] = "absent" <=> stage[k] = "absent"
    BY <1>3, <2>2 DEF Approve, AfterApproval
  <2>5. \A k \in Models : stage'[k] = "draft" <=> stage[k] = "draft"
    BY <1>3, <2>2 DEF Approve, AfterApproval
  <2>6. UNCHANGED <<numbers, fit, frame>>
    BY <1>3 DEF Approve
  <2>7. \A k \in Models : decision'[k] # "none" => stage'[k] = "review"
    BY <2>1, <2>3
  <2>8. \A f \in Fits : fit'[f] # "idle" => stage'[FitOf[f]] # "absent"
    BY <2>4, <2>6, ModelConstants
  <2> QED
    BY <1>0, <1>s, <2>1, <2>4, <2>5, <2>6, <2>7, <2>8
<1>4. ASSUME NEW m \in Models, AbandonDecision(m)
      PROVE  ModelInv'
  BY <1>0, <1>4, <1>s DEF AbandonDecision
<1>5. ASSUME ChainFree, NEW m \in Models, NEW f \in Fits, Reserve(m, f)
      PROVE  ModelInv'
  <2>1. DataOf[m] \in frozen
    BY <1>5, ModelConstants DEF Reserve, Fittable, DataInv, MarkInv
  <2>2. numbers[m] = None
    BY <1>5 DEF Reserve
  <2>3. stage' = [stage EXCEPT ![m] = "draft"] /\ UNCHANGED <<numbers, decision>>
    BY <1>5 DEF Reserve
  <2>4. \A g \in Fits : fit'[g] # "idle" => g = f \/ fit[g] # "idle"
    BY <1>5 DEF Reserve, Queue
  <2>5. \A g \in Fits : fit'[g] # "idle" => stage'[FitOf[g]] # "absent"
    BY <1>5, <2>3, <2>4, ModelConstants DEF Reserve
  <2> QED
    BY <1>0, <1>5, <1>s, <2>1, <2>2, <2>3, <2>5 DEF ChainFree
<1>6. ASSUME NEW m \in Models, NEW f \in Fits, Resubmit(m, f)
      PROVE  ModelInv'
  BY <1>0, <1>6, <1>s, ModelConstants DEF Resubmit, Queue
<1>7. ASSUME ChainFree, NEW f \in Fits, StoreFit(f)
      PROVE  ModelInv'
  <2>1. FitOf[f] \in Models /\ stage[FitOf[f]] # "absent"
    BY <1>7, ModelConstants DEF StoreFit
  <2>2. /\ stage' = [stage EXCEPT ![FitOf[f]] = "fitted"]
        /\ numbers' = [numbers EXCEPT ![FitOf[f]] = frame[f]]
        /\ fit' = [fit EXCEPT ![f] = "idle"]
        /\ UNCHANGED decision
    BY <1>7 DEF StoreFit
  <2>3. \A g \in Fits : fit'[g] # "idle" => stage'[FitOf[g]] # "absent"
    BY <2>2, ModelConstants
  <2> QED
    BY <1>0, <1>7, <1>s, <2>1, <2>2, <2>3 DEF ChainFree
<1>8. ASSUME ChainFree, NEW m \in Models, NEW to, ToStage(m, to), to # "draft"
      PROVE  ModelInv'
  <2>1. stage[m] # "absent" /\ to # "absent"
    BY <1>8, StageEdges DEF ToStage
  <2>2. stage' = [stage EXCEPT ![m] = to] /\ UNCHANGED <<numbers, fit, decision>>
    BY <1>8 DEF ToStage
  <2>3. \A k \in Models : Reserved(k)' <=> Reserved(k)
    BY <2>1, <2>2
  <2> QED
    BY <1>0, <1>8, <1>s, <2>1, <2>2, <2>3, ModelConstants DEF ChainFree
<1>9. ASSUME NEW m \in Models, Vote(m)
      PROVE  ModelInv'
  BY <1>0, <1>9, <1>s DEF Vote
<1>10. ModelRead \/ (ChainFree /\ ModelWrite)
  BY DEF ModelStep
<1> QED
  BY <1>t, <1>1, <1>2, <1>3, <1>4, <1>5, <1>6, <1>7, <1>8, <1>9, <1>10
     DEF ModelRead, ModelWrite, SubmitForReview, ReturnToFitted, ArchiveModel

\* Every step keeps the inductive invariant.
LEMMA StepIInv ==
  ASSUME IInv, [Next]_vars
  PROVE  IInv'
<1>1. CASE UNCHANGED vars
  <2>1. UNCHANGED dataVars
    BY <1>1 DEF vars
  <2>2. ModelInv'
    BY <1>1 DEF vars, modelVars, dataVars, versionVars, IInv, ModelInv, Reserved, Fittable
  <2> QED
    BY <2>1, <2>2, DataUntouched, StepTypes DEF IInv
<1> QED
  BY <1>1, DataStepInv, ModelStepInv DEF Next

\* The inductive invariant holds in every behaviour.
THEOREM Inductive == Spec => []IInv
BY InitIInv, StepIInv, PTL DEF Spec

\* FR-46: a validated version names a report of its own that passed and whose every warning
\* somebody acknowledged, although what promotion compares is two counts and the report may
\* be any that was ever stored (validation.py:361-423).
THEOREM PromotedByReport == Spec => []ValidatedByReport
<1>1. IInv => ValidatedByReport
  BY DEF IInv, DataInv
<1> QED
  BY Inductive, <1>1, PTL

\* The tables under a reserved Model never change, through every re-validation, return to
\* draft and correction of its Dataset Version (the snapshot guard of a4d1f08c3b97).
THEOREM ReservedDataNeverChanges == Spec => ReservedDataKept
<1> DEFINE Kept == \A m \in Models : Reserved(m) => tables'[DataOf[m]] = tables[DataOf[m]]
<1>1. IInv /\ [Next]_vars => [Kept]_vars
  <2> SUFFICES ASSUME IInv, Next
               PROVE  Kept
    OBVIOUS
  <2>1. CASE DataStep
    BY <2>1, MarkedKept DEF DataStep, IInv, ModelInv
  <2>2. CASE ModelStep
    BY <2>2 DEF ModelStep, dataVars, versionVars
  <2> QED
    BY <2>1, <2>2 DEF Next
<1> QED
  BY Inductive, <1>1, PTL DEF Spec, ReservedDataKept

\* FR-205: although the decision reads the status of the Dataset Version without its lock, a
\* Model reaches approved only on data that is validated at that moment, because the chain's
\* lock keeps out whoever would move it (modelling.py:1166-1190).
THEOREM OnlyStandingIsApproved == Spec => ApprovedOnStanding
<1> DEFINE Checked == \A m \in Models :
                        stage[m] # "approved" /\ stage'[m] = "approved" => Fittable(m)'
<1>1. IInv /\ [Next]_vars => [Checked]_vars
  <2> SUFFICES ASSUME IInv, Next, NEW m \in Models,
                      stage[m] # "approved", stage'[m] = "approved"
               PROVE  Fittable(m)'
    OBVIOUS
  <2>1. ModelStep
    BY DEF Next, DataStep, modelVars
  <2>2. Approve(m)
    <3> USE StageNames DEF IInv, TypeOK
    <3>1. ModelRead \/ ModelWrite
      BY <2>1 DEF ModelStep
    <3>2. CASE ModelRead
      BY <3>2 DEF ModelRead, LoadFit, FailFit, ReadFlags, AbandonDecision, Approve, AfterApproval
    <3>3. CASE ModelWrite
      BY <3>3 DEF ModelWrite, Reserve, Resubmit, StoreFit, SubmitForReview, ReturnToFitted,
                  ArchiveModel, ToStage, Vote
    <3> QED
      BY <3>1, <3>2, <3>3
  <2>3. Fittable(m)
    BY <2>2 DEF Approve, IInv, ModelInv
  <2> QED
    BY <2>1, <2>3, DataUntouched DEF ModelStep
<1> QED
  BY Inductive, <1>1, PTL DEF Spec, ApprovedOnStanding

-----------------------------------------------------------------------------
(* Models implement ModelStanding.                                         *)

Standing == {v \in Versions : status[v] = "validated"}

\* A status moves: data gains or loses its standing, or nothing happens.
LEMMA RegradeOrStutter ==
  ASSUME IInv, DataStep
  PROVE  (\E v \in Versions : Abstract!Regrade(v)) \/ UNCHANGED Abstract!vars
<1>1. UNCHANGED <<stage, numbers>>
  BY DEF DataStep, modelVars
<1>2. UNCHANGED status \/ \E v \in Versions : \A u \in Versions \ {v} : status'[u] = status[u]
  BY OneStatus DEF DataStep, IInv, DataInv
<1>3. CASE UNCHANGED status
  BY <1>1, <1>3 DEF Abstract!vars
<1>4. ASSUME NEW v \in Versions, \A u \in Versions \ {v} : status'[u] = status[u],
             Standing' # Standing
      PROVE  Abstract!Regrade(v)
  <2>1. Standing' = IF v \in Standing THEN Standing \ {v} ELSE Standing \cup {v}
    BY <1>4 DEF Standing
  <2> QED
    BY <1>1, <2>1 DEF Abstract!Regrade, Standing
<1>5. CASE Standing' = Standing
  BY <1>1, <1>5 DEF Abstract!vars, Standing
<1> QED
  BY <1>2, <1>3, <1>4, <1>5

\* Each Model step is one of ModelStanding, or leaves it alone.
LEMMA StandingOrStutter ==
  ASSUME IInv, ModelStep
  PROVE  Abstract!Next \/ UNCHANGED Abstract!vars
<1>0. UNCHANGED status /\ Standing' = Standing
  BY DEF ModelStep, dataVars, versionVars, Standing
<1> USE StageNames DEF IInv, TypeOK
<1>1. ASSUME NEW m \in Models, NEW f \in Fits, Reserve(m, f)
      PROVE  Abstract!Enter(m)
  BY <1>0, <1>1, ModelConstants
     DEF Reserve, Reserved, Fittable, Standing, Abstract!Enter, Abstract!To
<1>2. ASSUME NEW f \in Fits, StoreFit(f)
      PROVE  Abstract!Fit(FitOf[f], frame[f])
  <2>1. stage[FitOf[f]] \in {"draft", "archived"}
    BY <1>2, ModelConstants DEF StoreFit, Unfitted, ModelInv, Reserved
  <2> QED
    BY <1>0, <1>2, <2>1 DEF StoreFit, Unfitted, Standing, Abstract!Fit
<1>3. ASSUME NEW m \in Models, SubmitForReview(m)
      PROVE  Abstract!Submit(m)
  <2>1. stage[m] = "fitted"
    BY <1>3, StageEdges DEF SubmitForReview, ToStage
  <2> QED
    BY <1>0, <1>3, <2>1
       DEF SubmitForReview, ToStage, Standing, Abstract!Submit, Abstract!To
<1>4. ASSUME NEW m \in Models, ReturnToFitted(m)
      PROVE  Abstract!Return(m)
  BY <1>0, <1>4 DEF ReturnToFitted, ToStage, Standing, Abstract!Return, Abstract!To
<1>5. ASSUME NEW m \in Models, ArchiveModel(m)
      PROVE  Abstract!Archive(m)
  <2>1. stage[m] \in {"draft", "fitted", "superseded"}
    BY <1>5, StageEdges DEF ArchiveModel, ToStage
  <2> QED
    BY <1>0, <1>5, <2>1 DEF ArchiveModel, ToStage, Standing, Abstract!Archive, Abstract!To
<1>6. ASSUME NEW m \in Models, Approve(m)
      PROVE  Abstract!Approve(m)
  <2>1. stage[m] = "review" /\ DataOf[m] \in Standing
    BY <1>6, StageEdges, ModelConstants DEF Approve, ModelInv, Fittable, Standing
  <2> QED
    BY <1>0, <1>6, <2>1 DEF Approve, AfterApproval, Standing, Abstract!Approve
<1>7. ASSUME NEW m \in Models, NEW f \in Fits, Resubmit(m, f)
      PROVE  UNCHANGED <<stage, numbers>>
  BY <1>7 DEF Resubmit
<1>8. ASSUME NEW f \in Fits, LoadFit(f) \/ FailFit(f)
      PROVE  UNCHANGED <<stage, numbers>>
  BY <1>8 DEF LoadFit, FailFit
<1>9. ASSUME NEW m \in Models, ReadFlags(m) \/ AbandonDecision(m) \/ Vote(m)
      PROVE  UNCHANGED <<stage, numbers>>
  BY <1>9 DEF ReadFlags, AbandonDecision, Vote
<1>10. \/ Abstract!Next
       \/ UNCHANGED <<stage, numbers>>
  <2>1. ModelRead \/ ModelWrite
    BY DEF ModelStep
  <2>2. CASE ModelRead
    BY <2>2, <1>6, <1>8, <1>9 DEF ModelRead, Abstract!Next
  <2>3. CASE ModelWrite
    <3>1. ASSUME NEW f \in Fits, StoreFit(f)
          PROVE  Abstract!Next
      BY <1>2, <3>1, ModelConstants DEF Abstract!Next
    <3> QED
      BY <2>3, <1>1, <3>1, <1>3, <1>4, <1>5, <1>7, <1>9 DEF ModelWrite, Abstract!Next
  <2> QED
    BY <2>1, <2>2, <2>3
<1> QED
  BY <1>0, <1>10 DEF Abstract!vars, Standing

\* Every behaviour of Jobs, reports, corrections, locks and decisions is, in the standing of
\* the data and the stages and numbers of the Models, a behaviour of ModelStanding.
THEOREM ModelsImplementStanding == Spec => ImplementsModelStanding
<1>1. Init => Abstract!Init
  BY DEF Init, DataInit, Abstract!Init
<1>2. IInv /\ [Next]_vars => [Abstract!Next]_(Abstract!vars)
  <2> SUFFICES ASSUME IInv, [Next]_vars
               PROVE  Abstract!Next \/ UNCHANGED Abstract!vars
    OBVIOUS
  <2>1. CASE DataStep
    BY <2>1, RegradeOrStutter DEF Abstract!Next
  <2>2. CASE ModelStep
    BY <2>2, StandingOrStutter
  <2>3. CASE UNCHANGED vars
    BY <2>3 DEF vars, modelVars, dataVars, versionVars, Abstract!vars
  <2> QED
    BY <2>1, <2>2, <2>3 DEF Next
<1> QED
  BY Inductive, <1>1, <1>2, PTL DEF Spec, ImplementsModelStanding, Abstract!Spec
-----------------------------------------------------------------------------
(* The windows of the claims that the code breaks: outside them they hold.  *)

\* Versions are not deleted, and only a correction writes the tables of one.
LEMMA TablesChange ==
  ASSUME DataTypeOK, DataRead \/ DataWrite, NEW v \in Versions, Exists(v)
  PROVE  /\ Exists(v)'
         /\ tables'[v] = tables[v] \/ \E c \in Corrections : CorrectSchema(c) /\ PatchOf[c] = v
<1> USE DEF DataTypeOK, versionVars, Exists
<1>1. CASE DataRead
  BY <1>1 DEF DataRead, LoadRun, FailRun, ReadSchema, AbandonSchema
<1>2. CASE \E u \in Versions : Ingest(u) \/ Derive(u)
  BY <1>2 DEF Ingest, Derive, Create
<1>3. ASSUME NEW u \in Versions, NEW to, Move(u, to) PROVE status'[v] # "absent"
  BY <1>3, StatusEdges DEF Move
<1>4. CASE \E u \in Versions : Transition(u) \/ ArchiveVersion(u)
  BY <1>3, <1>4 DEF Transition, ArchiveVersion
<1>5. ASSUME NEW r \in Runs, NEW warned \in SUBSET Rules,
             \/ StorePassed(r, warned) \/ StoreBlocked(r, warned)
             \/ \E overall \in {"passed", "blocked"} : StoreDryRun(r, overall, warned)
      PROVE  status'[v] # "absent" /\ UNCHANGED tables
  BY <1>5 DEF StorePassed, StoreBlocked, StoreDryRun, StoreReport
<1>6. CASE \E r \in Runs, rule \in Rules, actor \in Actors : Acknowledge(r, rule, actor)
  BY <1>6 DEF Acknowledge
<1>7. CASE \E r \in Runs : Promote(r)
  BY <1>3, <1>7, DatasetConstants DEF Promote
<1>8. ASSUME NEW c \in Corrections, CorrectSchema(c)
      PROVE  /\ status'[v] # "absent"
             /\ tables'[v] = tables[v] \/ PatchOf[c] = v
  BY <1>8 DEF CorrectSchema
<1> QED BY <1>1, <1>2, <1>4, <1>5, <1>6, <1>7, <1>8 DEF DataWrite

\* Every part a reserved Model is fitted on has been validated, or has been in validation.
PartsFrozen == \A m \in Models : Reserved(m) => TrainOf[m] \in frozen

\* The numbers of a Model are those of the part it names, and so are those of a Job.
FitInv ==
  /\ \A f \in Fits : fit[f] = "loaded" => frame[f] = tables[TrainOf[FitOf[f]]]
  /\ \A m \in Models : numbers[m] # None => numbers[m] = tables[TrainOf[m]]

\* Every step keeps it: a frozen part does not change.
LEMMA FitNext ==
  ASSUME IInv, PartsFrozen, FitInv, [Next]_vars
  PROVE  FitInv'
<1>0. /\ fit \in [Fits -> {"idle", "queued", "loaded"}] /\ frame \in [Fits -> Tables]
      /\ numbers \in [Models -> {None} \cup Tables] /\ stage \in [Models -> Stages]
      /\ FitOf \in [Fits -> Models]
  BY ModelConstants DEF IInv, TypeOK
<1>1. CASE DataStep
  <2>1. UNCHANGED <<stage, numbers, fit, frame>> /\ \A v \in frozen : tables'[v] = tables[v]
    BY <1>1, MarkedKept DEF DataStep, modelVars, IInv
  <2>2. \A f \in Fits : fit[f] = "loaded" => TrainOf[FitOf[f]] \in frozen
    BY <1>0 DEF IInv, ModelInv, PartsFrozen
  <2>3. \A m \in Models : numbers[m] # None => TrainOf[m] \in frozen
    BY DEF IInv, ModelInv, PartsFrozen, Reserved
  <2> QED BY <2>1, <2>2, <2>3 DEF FitInv
<1>2. CASE ModelStep
  <2>0. UNCHANGED tables
    BY <1>2 DEF ModelStep, dataVars, versionVars
  <2>1. ASSUME NEW f \in Fits, LoadFit(f) PROVE FitInv'
    BY <1>0, <2>0, <2>1 DEF LoadFit, FitInv
  <2>2. ASSUME NEW f \in Fits, FailFit(f) PROVE FitInv'
    BY <1>0, <2>0, <2>2 DEF FailFit, FitInv
  <2>3. ASSUME NEW f \in Fits, StoreFit(f) PROVE FitInv'
    BY <1>0, <2>0, <2>3 DEF StoreFit, FitInv
  <2>4. ASSUME NEW m \in Models, NEW f \in Fits, Reserve(m, f) \/ Resubmit(m, f) PROVE FitInv'
    BY <1>0, <2>0, <2>4 DEF Reserve, Resubmit, Queue, FitInv
  <2>5. ASSUME NEW m \in Models,
               \/ ReadFlags(m) \/ Approve(m) \/ AbandonDecision(m) \/ Vote(m)
               \/ SubmitForReview(m) \/ ReturnToFitted(m) \/ ArchiveModel(m)
        PROVE  FitInv'
    BY <2>0, <2>5 DEF ReadFlags, Approve, AbandonDecision, Vote, SubmitForReview, ReturnToFitted,
       ArchiveModel, ToStage, FitInv
  <2> QED BY <1>2, <2>1, <2>2, <2>3, <2>4, <2>5 DEF ModelStep, ModelRead, ModelWrite
<1>3. CASE UNCHANGED vars
  BY <1>3 DEF vars, dataVars, versionVars, modelVars, FitInv
<1> QED BY <1>1, <1>2, <1>3 DEF Next

\* Models fitted on one part saw the same data (db/models.py:1526-1532), provided that the part
\* was validated before anything was reserved on it, and not the split Dataset Version alone.
THEOREM FrozenSplitIsOneArtifact == Spec /\ []PartsFrozen => []SplitIsOneArtifact
<1>1. Init => FitInv
  BY DEF Init, FitInv
<1>2. IInv /\ PartsFrozen /\ FitInv /\ [Next]_vars => FitInv'
  BY FitNext
<1>3. FitInv => SplitIsOneArtifact
  BY DEF FitInv, SplitIsOneArtifact
<1> QED BY <1>1, <1>2, <1>3, Inductive, PTL DEF Spec

\* No Model is archived before it has its numbers.
ArchivedFitted == \A m \in Models : stage[m] = "archived" => numbers[m] # None

\* Archived is an end state (modelling.py:1587) but for Models that were archived unfitted.
THEOREM FittedArchiveIsFinal == Spec /\ []ArchivedFitted => ArchivedIsFinal
<1> DEFINE Final == \A m \in Models : stage[m] = "archived" => stage'[m] = "archived"
<1>1. IInv /\ ArchivedFitted /\ [Next]_vars => [Final]_vars
  <2> SUFFICES ASSUME IInv, ArchivedFitted, Next, NEW m \in Models, stage[m] = "archived"
               PROVE  stage'[m] = "archived"
    OBVIOUS
  <2>0. stage \in [Models -> Stages] /\ FitOf \in [Fits -> Models] /\ numbers[m] # None
    BY ModelConstants DEF IInv, TypeOK, ArchivedFitted
  <2>1. CASE DataStep
    BY <2>1 DEF DataStep, modelVars
  <2>2. CASE ModelStep
    <3>1. ASSUME NEW k \in Models, NEW to, ToStage(k, to) PROVE stage'[m] = "archived"
      <4>1. VALID_MODEL_TRANSITIONS["archived"] = {}
        BY DEF VALID_MODEL_TRANSITIONS
      <4> QED BY <2>0, <3>1, <4>1 DEF ToStage
    <3>2. ASSUME NEW k \in Models, Approve(k) PROVE stage'[m] = "archived"
      <4>1. stage[k] = "review"
        BY <3>2 DEF Approve, IInv, ModelInv
      <4> QED BY <2>0, <3>2, <4>1 DEF Approve, AfterApproval
    <3>3. ASSUME NEW f \in Fits, StoreFit(f) PROVE stage'[m] = "archived"
      BY <2>0, <3>3 DEF StoreFit, Unfitted
    <3>4. ASSUME NEW k \in Models, NEW f \in Fits, Reserve(k, f) \/ Resubmit(k, f)
          PROVE  stage'[m] = "archived"
      BY <2>0, <3>4 DEF Reserve, Resubmit, Reserved
    <3> QED BY <2>2, <3>1, <3>2, <3>3, <3>4 DEF ModelStep, ModelRead, ModelWrite, LoadFit, FailFit,
               ReadFlags, AbandonDecision, Vote, SubmitForReview, ReturnToFitted, ArchiveModel
  <2> QED BY <2>1, <2>2 DEF Next
<1> QED BY <1>1, Inductive, PTL DEF Spec, ArchivedIsFinal

\* No correction of a version is under way while a validation of it runs.
CheckedAlone ==
  \A c \in Corrections, r \in Runs :
    patch[c] # None /\ run[r] = "running" => TargetOf[r] # PatchOf[c]

\* What a validation has read is what the version holds, once its report is stored for ever.
ReportInv ==
  /\ \A r \in Runs : run[r] = "running" =>
       Exists(TargetOf[r]) /\ seen[r] = tables[TargetOf[r]]
  /\ \A r \in Runs \ DryRuns : Stored(r) =>
       TargetOf[r] \in frozen /\ seen[r] = tables[TargetOf[r]]

\* Every step on the data keeps it.
LEMMA ReportStep ==
  ASSUME DataInv, CheckedAlone, ReportInv, DataRead \/ DataWrite
  PROVE  ReportInv'
<1>0. /\ run \in [Runs -> {"idle", "running", "passed", "blocked"}] /\ seen \in [Runs -> Tables]
      /\ TargetOf \in [Runs -> Versions] /\ DataTypeOK
  BY DatasetConstants DEF DataInv, DataTypeOK
<1>1. frozen \subseteq frozen' /\ \A v \in frozen : tables'[v] = tables[v]
  BY MarkedKept
<1>2. \A r \in Runs : run[r] = "running" =>
        Exists(TargetOf[r])' /\ tables'[TargetOf[r]] = tables[TargetOf[r]]
  BY <1>0, TablesChange DEF ReportInv, CheckedAlone, CorrectSchema
<1>3. CASE UNCHANGED <<run, seen>>
  BY <1>0, <1>1, <1>2, <1>3 DEF ReportInv, Stored
<1>4. ASSUME NEW r \in Runs, LoadRun(r) PROVE ReportInv'
  <2>1. /\ run' = [run EXCEPT ![r] = "running"] /\ seen' = [seen EXCEPT ![r] = tables[TargetOf[r]]]
        /\ Exists(TargetOf[r]) /\ UNCHANGED <<tables, frozen, status>>
    BY <1>4 DEF LoadRun, versionVars
  <2> QED BY <1>0, <2>1 DEF ReportInv, Stored, Exists
<1>5. ASSUME NEW r \in Runs, FailRun(r) PROVE ReportInv'
  <2>1. /\ run' = [run EXCEPT ![r] = "idle"] /\ seen' = [seen EXCEPT ![r] = {}]
        /\ UNCHANGED <<tables, frozen, status>>
    BY <1>5 DEF FailRun, versionVars
  <2> QED BY <1>0, <2>1 DEF ReportInv, Stored, Exists
<1>6. ASSUME NEW r \in Runs, NEW overall \in {"passed", "blocked"}, NEW warned,
             StoreReport(r, overall, warned), r \in DryRuns \/ TargetOf[r] \in frozen'
      PROVE  ReportInv'
  <2>1. /\ run[r] = "running" /\ run' = [run EXCEPT ![r] = overall] /\ seen' = seen
    BY <1>6 DEF StoreReport
  <2>2. seen[r] = tables'[TargetOf[r]]
    BY <1>2, <2>1 DEF ReportInv
  <2>3. /\ run'[r] # "running"
        /\ \A q \in Runs \ {r} : run'[q] = run[q]
    BY <1>0, <2>1
  <2> QED BY <1>0, <1>1, <1>2, <1>6, <2>1, <2>2, <2>3 DEF ReportInv, Stored
<1>7. ASSUME NEW r \in Runs, NEW warned \in SUBSET Rules,
             \/ StorePassed(r, warned) \/ StoreBlocked(r, warned)
             \/ \E overall \in {"passed", "blocked"} : StoreDryRun(r, overall, warned)
      PROVE  ReportInv'
  BY <1>6, <1>7 DEF StorePassed, StoreBlocked, StoreDryRun, Marked
<1>8. CASE \/ \E c \in Corrections : ReadSchema(c) \/ AbandonSchema(c) \/ CorrectSchema(c)
           \/ \E v \in Versions : Ingest(v) \/ Derive(v) \/ Transition(v) \/ ArchiveVersion(v)
           \/ \E r \in Runs, rule \in Rules, actor \in Actors : Acknowledge(r, rule, actor)
           \/ \E r \in Runs : Promote(r)
  BY <1>3, <1>8 DEF ReadSchema, AbandonSchema, CorrectSchema, Ingest, Derive, Create, Transition,
     ArchiveVersion, Acknowledge, Promote, reportVars
<1> QED BY <1>4, <1>5, <1>7, <1>8 DEF DataRead, DataWrite

\* A validated version has the tables its report is about (ingestion.py:401-403), provided that
\* no correction is under way while a validation of the version runs, and that no version is
\* promoted by the report of a dry run.
THEOREM ReportsDescribeTables ==
  Spec /\ []CheckedAlone /\ []ValidatedByRuleSet => []ReportDescribesTables
<1>1. Init => ReportInv
  BY DEF Init, DataInit, ReportInv, Stored
<1>2. IInv /\ CheckedAlone /\ ReportInv /\ [Next]_vars => ReportInv'
  <2> SUFFICES ASSUME IInv, CheckedAlone, ReportInv, [Next]_vars PROVE ReportInv'
    OBVIOUS
  <2>1. CASE DataStep
    BY <2>1, ReportStep DEF DataStep, IInv
  <2>2. CASE ModelStep \/ UNCHANGED vars
    BY <2>2 DEF ModelStep, vars, dataVars, versionVars, reportVars, ReportInv, Stored, Exists
  <2> QED BY <2>1, <2>2 DEF Next
<1>3. IInv /\ ReportInv /\ ValidatedByRuleSet => ReportDescribesTables
  BY DEF IInv, DataInv, ValidatedByReport, ReportInv, ValidatedByRuleSet, ReportDescribesTables,
     Stored
<1> QED BY <1>1, <1>2, <1>3, Inductive, PTL DEF Spec

\* Corrections of one version follow one another.
CorrectedOneByOne ==
  \A b, c \in Corrections :
    patch[b] # None /\ patch[c] # None /\ PatchOf[b] = PatchOf[c] => b = c

\* What a correction has read is what the version still holds.
PatchInv ==
  /\ \A v \in Versions : ~Exists(v) => tables[v] = {}
  /\ \A c \in Corrections : patch[c] # None =>
       Exists(PatchOf[c]) /\ patch[c] = tables[PatchOf[c]]

\* Every step on the data keeps it, and loses no correction.
LEMMA PatchStep ==
  ASSUME DataInv, CorrectedOneByOne, PatchInv, DataRead \/ DataWrite
  PROVE  PatchInv' /\ \A v \in Versions : tables[v] \subseteq tables'[v]
<1>0. /\ patch \in [Corrections -> {None} \cup Tables] /\ PatchOf \in [Corrections -> Versions]
      /\ tables \in [Versions -> Tables] /\ DataTypeOK
  BY DatasetConstants DEF DataInv, DataTypeOK
<1>1. ASSUME NEW c \in Corrections, CorrectSchema(c)
      PROVE  PatchInv' /\ \A v \in Versions : tables[v] \subseteq tables'[v]
  <2>1. /\ patch[c] # None /\ patch[c] = tables[PatchOf[c]]
        /\ tables' = [tables EXCEPT ![PatchOf[c]] = patch[c] \cup {c}]
        /\ patch' = [patch EXCEPT ![c] = None] /\ UNCHANGED status
    BY <1>1 DEF CorrectSchema, PatchInv
  <2>2. Exists(PatchOf[c])
    BY <2>1 DEF PatchInv
  <2>3. \A b \in Corrections : patch'[b] # None =>
          b # c /\ patch'[b] = patch[b] /\ PatchOf[b] # PatchOf[c]
    BY <1>0, <2>1 DEF CorrectedOneByOne
  <2> QED BY <1>0, <2>1, <2>2, <2>3 DEF PatchInv, Exists
<1>2. ASSUME NEW v \in Versions, Ingest(v) \/ Derive(v)
      PROVE  PatchInv' /\ \A u \in Versions : tables[u] \subseteq tables'[u]
  <2>1. /\ ~Exists(v) /\ UNCHANGED patch
        /\ status' = [status EXCEPT ![v] = "draft"]
        /\ \A u \in Versions \ {v} : tables'[u] = tables[u]
    BY <1>0, <1>2 DEF Ingest, Derive, Create
  <2>2. tables[v] = {} /\ \A c \in Corrections : patch[c] # None => PatchOf[c] # v
    BY <2>1 DEF PatchInv
  <2>3. Exists(v)' /\ \A u \in Versions \ {v} : Exists(u)' <=> Exists(u)
    BY <1>0, <2>1 DEF Exists, DataTypeOK
  <2> QED BY <1>0, <2>1, <2>2, <2>3 DEF PatchInv
<1>3. ASSUME ~ \E c \in Corrections : CorrectSchema(c), ~ \E v \in Versions : Ingest(v) \/ Derive(v)
      PROVE  UNCHANGED tables
  BY <1>3 DEF DataRead, DataWrite, LoadRun, FailRun, ReadSchema, AbandonSchema, Transition,
     ArchiveVersion, StorePassed, StoreBlocked, StoreDryRun, StoreReport, Acknowledge, Promote,
     versionVars
<1>4. ASSUME UNCHANGED tables,
             \A c \in Corrections : patch'[c] # None =>
               \/ patch'[c] = patch[c]
               \/ Exists(PatchOf[c]) /\ patch'[c] = tables[PatchOf[c]]
      PROVE  PatchInv'
  <2>1. \A v \in Versions : Exists(v) => Exists(v)'
    BY <1>0, TablesChange
  <2> QED BY <1>0, <1>4, <2>1 DEF PatchInv
<1>5. ASSUME NEW c \in Corrections, ReadSchema(c) \/ AbandonSchema(c)
      PROVE  \A b \in Corrections : patch'[b] # None =>
               \/ patch'[b] = patch[b]
               \/ Exists(PatchOf[b]) /\ patch'[b] = tables[PatchOf[b]]
  BY <1>0, <1>5 DEF ReadSchema, AbandonSchema, Exists
<1>6. ASSUME ~ \E c \in Corrections : ReadSchema(c) \/ AbandonSchema(c) \/ CorrectSchema(c)
      PROVE  UNCHANGED patch
  BY <1>6 DEF DataRead, DataWrite, LoadRun, FailRun, Ingest, Derive, Create, Transition,
     ArchiveVersion, StorePassed, StoreBlocked, StoreDryRun, StoreReport, Acknowledge, Promote
<1> QED BY <1>1, <1>2, <1>3, <1>4, <1>5, <1>6

\* A correction that was committed stays in the tables (ingestion.py:397-399), provided that no
\* two corrections of one version overlap.
THEOREM SerialCorrectionsKept == Spec /\ []CorrectedOneByOne => CorrectionsKept
<1> DEFINE Kept == \A v \in Versions : tables[v] \subseteq tables'[v]
<1>1. Init => PatchInv
  BY DEF Init, DataInit, PatchInv
<1>2. IInv /\ CorrectedOneByOne /\ PatchInv /\ [Next]_vars => PatchInv' /\ [Kept]_dataVars
  <2> SUFFICES ASSUME IInv, CorrectedOneByOne, PatchInv, [Next]_vars
               PROVE  PatchInv' /\ [Kept]_dataVars
    OBVIOUS
  <2>1. CASE DataStep
    BY <2>1, PatchStep DEF DataStep, IInv
  <2>2. CASE ModelStep \/ UNCHANGED vars
    BY <2>2 DEF ModelStep, vars, dataVars, versionVars, PatchInv, Exists
  <2> QED BY <2>1, <2>2 DEF Next
<1> QED BY <1>1, <1>2, Inductive, PTL DEF Spec, CorrectionsKept
=============================================================================
