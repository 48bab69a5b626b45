-------------------------- MODULE DatasetVersions --------------------------
(***************************************************************************)
(* Dataset Versions: the validation Jobs and their reports                 *)
(* (backend/src/app/worker/data_handlers.py, platform/validation.py), the  *)
(* status a report earns a version (platform/datasets.py), the correction  *)
(* of an inferred schema (api/datasets.py, data/ingestion.py) and the      *)
(* database's guard over all of them (dataset_versions_snapshot_guard).    *)
(*                                                                         *)
(* A version's rows are the schema corrections they went through, and a    *)
(* report is named by the Job that wrote it.                               *)
(***************************************************************************)
EXTENDS Naturals, FiniteSets

CONSTANTS
  Versions,
  PartOf,       \* the version a part was split from, or None for an ingested one
  Runs,         \* dataset.validate Jobs
  TargetOf,     \* the version each validates
  DryRuns,      \* those that run one rule under review
  Rules,        \* rules that can warn
  Actors,       \* who may acknowledge a warning
  Corrections,  \* schema corrections
  PatchOf,      \* the version each corrects
  None

Tables == SUBSET Corrections

ASSUME DatasetConstants ==
  /\ PartOf \in [Versions -> Versions \cup {None}]
  /\ TargetOf \in [Runs -> Versions]
  /\ DryRuns \subseteq Runs
  /\ PatchOf \in [Corrections -> Versions]
  /\ None \notin Versions \cup Runs
  /\ \A t \in Tables : t # None

ASSUME FiniteWarnings == IsFiniteSet(Rules) /\ IsFiniteSet(Actors)

VARIABLES
  status,
  tables,
  frozen,  \* the versions whose data_frozen_at is set
  report,  \* validation_report_id
  run,     \* of a validate Job: what it is doing, or the outcome of its report
  seen,    \* the tables it read
  warns,   \* the rules that warned
  acks,    \* their acknowledgements, <<rule, actor>>
  patch    \* the tables a correction has read, or None

versionVars == <<status, tables, frozen, report>>
reportVars == <<run, seen, warns, acks>>
dataVars == <<versionVars, reportVars, patch>>

DataInit ==
  /\ status = [v \in Versions |-> "absent"]
  /\ tables = [v \in Versions |-> {}]
  /\ frozen = {}
  /\ report = [v \in Versions |-> None]
  /\ run = [r \in Runs |-> "idle"]
  /\ seen = [r \in Runs |-> {}]
  /\ warns = [r \in Runs |-> {}]
  /\ acks = [r \in Runs |-> {}]
  /\ patch = [c \in Corrections |-> None]

VALID_DATASET_TRANSITIONS ==
  [absent     |-> {},
   draft      |-> {"validating", "archived"},
   validating |-> {"validated", "failed", "draft"},
   validated  |-> {"validating", "archived"},
   failed     |-> {"validating", "archived"},
   archived   |-> {}]

\* The marker is cleared when FR-53 returns a version to draft.
Marked_WhileChecked(v, to) == IF to = "draft" THEN frozen \ {v} ELSE frozen \cup {v}

\* data_frozen_at: set by the first move out of draft into validation, never cleared.
Marked(v, to) == IF to \in {"draft", "archived"} THEN frozen ELSE frozen \cup {v}

\* datasets._transition and the guard: the status moves along the table.
Move(v, to) ==
  /\ to \in VALID_DATASET_TRANSITIONS[status[v]]
  /\ status' = [status EXCEPT ![v] = to]
  /\ frozen' = Marked(v, to)

Exists(v) == status[v] # "absent"

-----------------------------------------------------------------------------
(* Versions.                                                               *)

Create(v, rows) ==
  /\ ~Exists(v)
  /\ status' = [status EXCEPT ![v] = "draft"]
  /\ tables' = [tables EXCEPT ![v] = rows]
  /\ UNCHANGED <<frozen, report, reportVars, patch>>

\* ingest_upload: the tables are stored before the version is committed.
Ingest(v) == PartOf[v] = None /\ Create(v, {})

\* derive_version and _materialise_split: a part takes its rows from the parent's tables.
Derive(v) ==
  /\ PartOf[v] # None
  /\ Exists(PartOf[v])
  /\ Create(v, tables[PartOf[v]])

\* The transition route, to any status but validated and archived.
Transition(v) ==
  /\ \E to \in {"draft", "validating", "failed"} : Move(v, to)
  /\ UNCHANGED <<tables, report, reportVars, patch>>

\* archive_version.
ArchiveVersion(v) ==
  /\ Move(v, "archived")
  /\ UNCHANGED <<tables, report, reportVars, patch>>

-----------------------------------------------------------------------------
(* Validation: load, the rules, store.                                     *)

LoadRun(r) ==
  /\ run[r] = "idle"
  /\ Exists(TargetOf[r])
  /\ run' = [run EXCEPT ![r] = "running"]
  /\ seen' = [seen EXCEPT ![r] = tables[TargetOf[r]]]
  /\ UNCHANGED <<versionVars, warns, acks, patch>>

\* store_report; error and fail block alike, and pass_with_warnings is a pass with warnings.
StoreReport(r, overall, warned) ==
  /\ run[r] = "running"
  /\ run' = [run EXCEPT ![r] = overall]
  /\ warns' = [warns EXCEPT ![r] = warned]
  /\ UNCHANGED <<tables, seen, acks, patch>>

\* begin_validation: an archived version is refused.
CanBegin(v) == status[v] \in {"draft", "validating", "validated", "failed"}

\* A passing report leaves the version validating: promotion is an actuary's act.
StorePassed(r, warned) ==
  LET v == TargetOf[r] IN
  /\ r \notin DryRuns
  /\ CanBegin(v)
  /\ StoreReport(r, "passed", warned)
  /\ status' = [status EXCEPT ![v] = "validating"]
  /\ frozen' = Marked(v, "validating")
  /\ UNCHANGED report

\* conclude_failed_validation, in the transaction of begin_validation and store_report.
StoreBlocked(r, warned) ==
  LET v == TargetOf[r]
      to == IF report[v] = None THEN "failed" ELSE "draft"
  IN
  /\ r \notin DryRuns
  /\ CanBegin(v)
  /\ StoreReport(r, "blocked", warned)
  /\ status' = [status EXCEPT ![v] = to]
  /\ frozen' = Marked(v, "validating")
  /\ report' = [report EXCEPT ![v] = None]

\* A dry run does not touch the version.
StoreDryRun(r, overall, warned) ==
  /\ r \in DryRuns
  /\ StoreReport(r, overall, warned)
  /\ UNCHANGED versionVars

\* The rules cannot run, or the transaction of the report fails.
FailRun(r) ==
  /\ run[r] = "running"
  /\ run' = [run EXCEPT ![r] = "idle"]
  /\ seen' = [seen EXCEPT ![r] = {}]
  /\ UNCHANGED <<versionVars, warns, acks, patch>>

-----------------------------------------------------------------------------
(* Acknowledgement and promotion.                                          *)

Stored(r) == run[r] \in {"passed", "blocked"}

\* The unique constraint on the report and the rule.
MayAcknowledge(r, rule, actor) == \A a \in Actors : <<rule, a>> \notin acks[r]

\* acknowledge.
Acknowledge(r, rule, actor) ==
  /\ Stored(r)
  /\ rule \in warns[r]
  /\ MayAcknowledge(r, rule, actor)
  /\ acks' = [acks EXCEPT ![r] = @ \cup {<<rule, actor>>}]
  /\ UNCHANGED <<versionVars, run, seen, warns, patch>>

\* The report's outcome alone: a pass with warnings is a pass.
NoneOutstanding_IfPassed(r) == run[r] = "passed"

\* unacknowledged_warnings: a difference of two counts.
NoneOutstanding(r) == Cardinality(acks[r]) >= Cardinality(warns[r])

\* promote_using_report and promote_to_validated.
Promote(r) ==
  LET v == TargetOf[r] IN
  /\ run[r] = "passed"
  /\ NoneOutstanding(r)
  /\ Move(v, "validated")
  /\ report' = [report EXCEPT ![v] = r]
  /\ UNCHANGED <<tables, reportVars, patch>>

-----------------------------------------------------------------------------
(* Correction of the schema.                                               *)

\* patch_schema reads the row without a lock.
ReadSchema(c) ==
  /\ patch[c] = None
  /\ status[PatchOf[c]] = "draft"
  /\ patch' = [patch EXCEPT ![c] = tables[PatchOf[c]]]
  /\ UNCHANGED <<versionVars, reportVars>>

\* The guard: once frozen, or out of draft, the tables do not change.
Correctable(v) == status[v] = "draft" /\ v \notin frozen

\* correct_schema locks the row, but the session keeps the tables it read before.
CorrectSchema(c) ==
  LET v == PatchOf[c] IN
  /\ patch[c] # None
  /\ Correctable(v)
  /\ tables' = [tables EXCEPT ![v] = patch[c] \cup {c}]
  /\ patch' = [patch EXCEPT ![c] = None]
  /\ UNCHANGED <<status, frozen, report, reportVars>>

\* The cast would lose values, or the guard refuses.
AbandonSchema(c) ==
  /\ patch[c] # None
  /\ patch' = [patch EXCEPT ![c] = None]
  /\ UNCHANGED <<versionVars, reportVars>>

-----------------------------------------------------------------------------

\* Steps that write no row, or whose transaction rolls back.
DataRead ==
  \/ \E r \in Runs : LoadRun(r) \/ FailRun(r)
  \/ \E c \in Corrections : ReadSchema(c) \/ AbandonSchema(c)

\* Transactions that append an Audit Event and commit.
DataWrite ==
  \/ \E v \in Versions : Ingest(v) \/ Derive(v) \/ Transition(v) \/ ArchiveVersion(v)
  \/ \E r \in Runs, warned \in SUBSET Rules :
       \/ StorePassed(r, warned)
       \/ StoreBlocked(r, warned)
       \/ \E overall \in {"passed", "blocked"} : StoreDryRun(r, overall, warned)
  \/ \E r \in Runs, rule \in Rules, actor \in Actors : Acknowledge(r, rule, actor)
  \/ \E r \in Runs : Promote(r)
  \/ \E c \in Corrections : CorrectSchema(c)

-----------------------------------------------------------------------------

DataTypeOK ==
  /\ status \in [Versions -> DOMAIN VALID_DATASET_TRANSITIONS]
  /\ tables \in [Versions -> Tables]
  /\ frozen \subseteq Versions
  /\ report \in [Versions -> Runs \cup {None}]
  /\ run \in [Runs -> {"idle", "running", "passed", "blocked"}]
  /\ seen \in [Runs -> Tables]
  /\ warns \in [Runs -> SUBSET Rules]
  /\ acks \in [Runs -> SUBSET (Rules \X Actors)]
  /\ patch \in [Corrections -> {None} \cup Tables]

\* FR-46: a validated version names a report of its own that passed, and each warning of
\* that report was acknowledged by someone, although what promotion compares is two counts
\* and the report may be older than the last one (validation.py:361-423).
ValidatedByReport ==
  \A v \in Versions : status[v] = "validated" =>
    /\ report[v] \in Runs
    /\ TargetOf[report[v]] = v
    /\ run[report[v]] = "passed"
    /\ \A rule \in warns[report[v]] : \E a \in Actors : <<rule, a>> \in acks[report[v]]

\* Refuted: the schema is part of what was checked, and a validated version has the tables
\* its report is about (ingestion.py:401-403, api/datasets.py:773-775).
ReportDescribesTables ==
  \A v \in Versions : status[v] = "validated" => seen[report[v]] = tables[v]

\* Refuted: a version is validated by a run of its whole rule set (01-data FR-42, FR-46).
ValidatedByRuleSet ==
  \A v \in Versions : status[v] = "validated" => report[v] \notin DryRuns

\* Refuted: a correction that was committed stays in the tables (ingestion.py:397-399).
CorrectionsKept == [][\A v \in Versions : tables[v] \subseteq tables'[v]]_dataVars
=============================================================================
