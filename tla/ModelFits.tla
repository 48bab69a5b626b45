----------------------------- MODULE ModelFits -----------------------------
(***************************************************************************)
(* Models of one family over Dataset Versions: reservations, fit Jobs      *)
(* (worker/model_handlers.py), and the lifecycle with its approval         *)
(* (backend/src/app/platform/modelling.py), each read and lock against the *)
(* transactions of DatasetVersions.                                        *)
(*                                                                         *)
(* The numbers of a fit are the tables it read.  A reservation is one      *)
(* step, as it holds the Dataset Version's row from its read to its        *)
(* commit; a decision is not, as it reads that row without a lock.         *)
(***************************************************************************)
EXTENDS DatasetVersions

CONSTANTS
  Models,   \* version numbers of the family
  DataOf,   \* the Dataset Version each specification names
  TrainOf,  \* the split part it is fitted on
  Fits,     \* model.fit Jobs
  FitOf     \* the Model each is to fit

ASSUME ModelConstants ==
  /\ Models \subseteq Nat
  /\ DataOf \in [Models -> Versions]
  /\ TrainOf \in [Models -> Versions]
  /\ FitOf \in [Fits -> Models]

VARIABLES
  stage,     \* a Model's status, or "absent"
  numbers,   \* its fit_result, or None
  fit,       \* of a fit Job
  frame,     \* the tables it loaded
  decision   \* how far the last vote on a Model has come

modelVars == <<stage, numbers, fit, frame, decision>>
vars == <<dataVars, modelVars>>

Init ==
  /\ DataInit
  /\ stage = [m \in Models |-> "absent"]
  /\ numbers = [m \in Models |-> None]
  /\ fit = [f \in Fits |-> "idle"]
  /\ frame = [f \in Fits |-> {}]
  /\ decision = [m \in Models |-> "none"]

-----------------------------------------------------------------------------
(* The audit chain.  Every transaction that changes a row appends to it,   *)
(* and keeps its advisory lock to the commit.  Only a decision appends     *)
(* before it has read everything it decides by.                            *)

\* Audit Events without the lock.
ChainFree_NoLock == TRUE

ChainFree == \A m \in Models : decision[m] = "none"

Fittable(m) == status[DataOf[m]] = "validated"

-----------------------------------------------------------------------------
(* Reservations and fits.                                                  *)

Reserved(m) == stage[m] # "absent"

\* The Job a reservation queues.
Queue(f) ==
  /\ fit[f] = "idle"
  /\ fit' = [fit EXCEPT ![f] = "queued"]

\* reserve_model: one more than the greatest version of the family.
Reserve(m, f) ==
  /\ ~Reserved(m)
  /\ \A k \in Models : k < m => Reserved(k)
  /\ Fittable(m)
  /\ FitOf[f] = m
  /\ Queue(f)
  /\ stage' = [stage EXCEPT ![m] = "draft"]
  /\ UNCHANGED <<numbers, frame, decision>>

\* The specification exists and never got its numbers.
Resubmit(m, f) ==
  /\ Reserved(m)
  /\ numbers[m] = None
  /\ Fittable(m)
  /\ FitOf[f] = m
  /\ Queue(f)
  /\ UNCHANGED <<stage, numbers, frame, decision>>

\* The load: R1 once more, and then the part the split names.
LoadFit(f) ==
  LET m == FitOf[f] IN
  /\ fit[f] = "queued"
  /\ Fittable(m)
  /\ Exists(TrainOf[m])
  /\ fit' = [fit EXCEPT ![f] = "loaded"]
  /\ frame' = [frame EXCEPT ![f] = tables[TrainOf[m]]]
  /\ UNCHANGED <<stage, numbers, decision>>

\* A refused load, a failed fit, or a Model that already has numbers.
FailFit(f) ==
  /\ fit[f] \in {"queued", "loaded"}
  /\ fit' = [fit EXCEPT ![f] = "idle"]
  /\ frame' = [frame EXCEPT ![f] = {}]
  /\ UNCHANGED <<stage, numbers, decision>>

\* record_fit with the check left to its callers.
Unfitted_AtReservation(m) == Reserved(m)

\* The check under the row's lock.
Unfitted(m) == numbers[m] = None

\* record_fit, whatever the status.
StoreFit(f) ==
  LET m == FitOf[f] IN
  /\ fit[f] = "loaded"
  /\ Unfitted(m)
  /\ fit' = [fit EXCEPT ![f] = "idle"]
  /\ frame' = [frame EXCEPT ![f] = {}]
  /\ numbers' = [numbers EXCEPT ![m] = frame[f]]
  /\ stage' = [stage EXCEPT ![m] = "fitted"]
  /\ UNCHANGED decision

-----------------------------------------------------------------------------
(* The lifecycle.                                                          *)

VALID_MODEL_TRANSITIONS ==
  [absent     |-> {},
   draft      |-> {"fitted", "archived"},
   fitted     |-> {"review", "archived"},
   review     |-> {"approved", "fitted"},
   approved   |-> {"superseded"},
   superseded |-> {"archived"},
   archived   |-> {}]

\* _require_transition, then the write.
ToStage(m, to) ==
  /\ to \in VALID_MODEL_TRANSITIONS[stage[m]]
  /\ stage' = [stage EXCEPT ![m] = to]
  /\ UNCHANGED <<numbers, fit, frame, decision>>

\* A submission that asks only whether the Model was returned or never reviewed.
SubmitForReview_FromDraft(m) ==
  /\ stage[m] \in {"draft", "fitted"}
  /\ stage' = [stage EXCEPT ![m] = "review"]
  /\ UNCHANGED <<numbers, fit, frame, decision>>

\* submit_for_review; the flag on the data is not looked at here.
SubmitForReview(m) == ToStage(m, "review")

\* A request rejected, withdrawn or sent back for changes.
ReturnToFitted(m) == stage[m] = "review" /\ ToStage(m, "fitted")

ArchiveModel(m) == ToStage(m, "archived")

\* decide: the vote that approves the request, with its Audit Event.
Vote(m) ==
  /\ stage[m] = "review"
  /\ decision' = [decision EXCEPT ![m] = "voted"]
  /\ UNCHANGED <<stage, numbers, fit, frame>>

\* flags_for: the status of the Dataset Version, without its lock.
ReadFlags(m) ==
  /\ decision[m] = "voted"
  /\ Fittable(m)
  /\ decision' = [decision EXCEPT ![m] = "clear"]
  /\ UNCHANGED <<stage, numbers, fit, frame>>

\* _supersede_earlier_versions.
AfterApproval(m) ==
  [k \in Models |->
     IF k = m THEN "approved"
     ELSE IF k < m /\ stage[k] = "approved" THEN "superseded"
     ELSE stage[k]]

\* apply_approval_decision, and the commit of the whole decision.
Approve(m) ==
  /\ decision[m] = "clear"
  /\ "approved" \in VALID_MODEL_TRANSITIONS[stage[m]]
  /\ stage' = AfterApproval(m)
  /\ decision' = [decision EXCEPT ![m] = "none"]
  /\ UNCHANGED <<numbers, fit, frame>>

\* ARTIFACT_FLAGGED, or any failure: the vote is rolled back with the rest.
AbandonDecision(m) ==
  /\ decision[m] # "none"
  /\ decision' = [decision EXCEPT ![m] = "none"]
  /\ UNCHANGED <<stage, numbers, fit, frame>>

-----------------------------------------------------------------------------

\* Steps that append nothing.
ModelRead ==
  \/ \E f \in Fits : LoadFit(f) \/ FailFit(f)
  \/ \E m \in Models : ReadFlags(m) \/ Approve(m) \/ AbandonDecision(m)

\* Steps that take the chain's lock.
ModelWrite ==
  \/ \E m \in Models, f \in Fits : Reserve(m, f) \/ Resubmit(m, f)
  \/ \E f \in Fits : StoreFit(f)
  \/ \E m \in Models : SubmitForReview(m) \/ ReturnToFitted(m) \/ ArchiveModel(m) \/ Vote(m)

DataStep == (DataRead \/ (ChainFree /\ DataWrite)) /\ UNCHANGED modelVars

ModelStep == (ModelRead \/ (ChainFree /\ ModelWrite)) /\ UNCHANGED dataVars

Next == DataStep \/ ModelStep

Spec == Init /\ [][Next]_vars

-----------------------------------------------------------------------------

Stages == DOMAIN VALID_MODEL_TRANSITIONS

\* The state is well typed, and a Model past draft and archived has numbers, as the
\* constraint fitted_model_has_a_fit_result says (db/models.py:1713-1716).
TypeOK ==
  /\ DataTypeOK
  /\ stage \in [Models -> Stages]
  /\ numbers \in [Models -> {None} \cup Tables]
  /\ fit \in [Fits -> {"idle", "queued", "loaded"}]
  /\ frame \in [Fits -> Tables]
  /\ decision \in [Models -> {"none", "voted", "clear"}]
  /\ \A m \in Models :
       stage[m] \notin {"absent", "draft", "archived"} => numbers[m] # None

\* FR-205: a Model reaches approved only on data that is validated when it does, although
\* the decision reads the status without the row's lock and a validation Job may conclude
\* at any time (modelling.py:1166-1190, datasets.py:687-729).
ApprovedOnStanding ==
  [][\A m \in Models : stage[m] # "approved" /\ stage'[m] = "approved" => Fittable(m)']_vars

\* From the reservation of a Model on, the tables of the Dataset Version it names never
\* change, whatever that version goes through (the snapshot guard of a4d1f08c3b97).
ReservedDataKept ==
  [][\A m \in Models : Reserved(m) => tables'[DataOf[m]] = tables[DataOf[m]]]_vars

Abstract == INSTANCE ModelStanding WITH
  Data <- Versions,
  Results <- Tables,
  standing <- {v \in Versions : status[v] = "validated"}

\* Jobs, reports, locks and corrections together do what ModelStanding allows.
ImplementsModelStanding == Abstract!Spec

\* Refuted: Models fitted on one split saw the same data (db/models.py:1526-1532).
SplitIsOneArtifact ==
  \A m, n \in Models :
    TrainOf[m] = TrainOf[n] /\ numbers[m] # None /\ numbers[n] # None => numbers[m] = numbers[n]

\* Refuted: a family has at most one approved version (modelling.py:1545-1549).
OneInForce == \A m, n \in Models : stage[m] = "approved" /\ stage[n] = "approved" => m = n

\* Refuted: archived is an end state (modelling.py:1587).
ArchivedIsFinal == [][\A m \in Models : stage[m] = "archived" => stage'[m] = "archived"]_vars

\* Refuted: no Model becomes fitted on data that has lost its standing
\* (model_handlers.py:222-229).
FittedOnStanding ==
  [][\A f \in Fits : fit[f] = "loaded" /\ stage'[FitOf[f]] = "fitted" => Fittable(FitOf[f])]_vars
=============================================================================
