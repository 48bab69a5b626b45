----------------------------- MODULE Approvals -----------------------------
(***************************************************************************)
(* The approval of Rating Versions: the request machine of                 *)
(* backend/src/app/platform/approvals.py, the routes of api/approvals.py   *)
(* that carry a decision into the version in the same transaction, and the *)
(* submission of platform/rating_versions.py.                              *)
(*                                                                         *)
(* A decision and a withdrawal hold the request row from their first       *)
(* statement and the version row before they change it, so each is one     *)
(* step.  A submission is two: it reads the policy and the version's       *)
(* status, and inserts later.  The version's own route holds the version   *)
(* row in between; the generic route holds nothing.                        *)
(***************************************************************************)
EXTENDS Naturals, FiniteSets

CONSTANTS
  Principals,
  Deciders,         \* who holds approval:decide
  Submitters,       \* who submits: whoever is authenticated, or a bound on a run
  Versions,
  Requests,         \* approval request ids, each used once
  AuthorOf,         \* the actor of the version's creation Audit Event
  EvidenceAuthors,  \* the possible author sets of a golden-quote delta
  Policies,         \* the possible policy entries for a Rating Version
  None

\* ApprovalPolicyEntry: approvers_required, and who holds one of approver_roles.
ASSUME ApprovalConstants ==
  /\ Deciders \cup Submitters \subseteq Principals
  /\ IsFiniteSet(Principals)
  /\ AuthorOf \in [Versions -> Principals]
  /\ EvidenceAuthors \subseteq SUBSET Principals
  /\ Policies \subseteq [required: Nat \ {0}, approvers: SUBSET Principals]
  /\ None \notin Policies \cup Principals \cup Versions \cup Requests
  /\ None \notin {"draft", "approved"}

VARIABLES
  policy,      \* the entry in force, or None
  \* Rating Versions
  version,     \* status
  evidence,    \* authors of the golden-quote delta pinned at submission
  pinned,      \* approval_request_id
  deployed,    \* versions with a Deployment row
  \* approval requests
  status,
  subject,     \* artifact_ref
  submitter,
  required,    \* approvers_required
  approvals,   \* who has a decision row; only approvals leave a request open
  \* transactions in flight
  asking,      \* submissions, by principal
  withdrawing  \* withdrawals that found the artifact not live

requestVars == <<status, subject, submitter, required, approvals>>
versionVars == <<version, evidence, pinned>>
vars == <<policy, versionVars, deployed, requestVars, asking, withdrawing>>

Routes == {"own", "generic"}
Asks == [route: Routes, version: Versions, required: Nat \ {0}]
Closed == {"approved", "changes_requested", "rejected", "withdrawn"}
Decisions == {"approve", "reject", "request_changes"}

Init ==
  /\ policy \in Policies \cup {None}
  /\ version = [v \in Versions |-> "draft"]
  /\ evidence = [v \in Versions |-> {}]
  /\ pinned = [v \in Versions |-> None]
  /\ deployed = {}
  /\ status = [r \in Requests |-> "absent"]
  /\ subject = [r \in Requests |-> None]
  /\ submitter = [r \in Requests |-> None]
  /\ required = [r \in Requests |-> 0]
  /\ approvals = [r \in Requests |-> {}]
  /\ asking = [p \in Principals |-> None]
  /\ withdrawing = {}

-----------------------------------------------------------------------------
(* Submission.                                                             *)

\* The row lock the version's own route holds from its first statement.
Locked(v) ==
  \E p \in Principals :
    asking[p] # None /\ asking[p].route = "own" /\ asking[p].version = v

Ask(p, v, route) ==
  /\ asking[p] = None
  /\ policy # None
  /\ asking' = [asking EXCEPT ![p] =
                  [route |-> route, version |-> v, required |-> policy.required]]
  /\ UNCHANGED <<policy, versionVars, deployed, requestVars, withdrawing>>

\* submit_for_review, up to the insert of its request.
AskOwn(p, v) ==
  /\ ~Locked(v)
  /\ version[v] = "draft"
  /\ Ask(p, v, "own")

\* POST /approval-requests, up to the insert: require_in_review on a row it does not lock.
\* (The policy is read just before; nothing compares what it asks with the version.)
AskGeneric(p, v) ==
  /\ version[v] = "review"
  /\ Ask(p, v, "generic")

\* uq_approval_requests_open_artifact.
Open(v) == {r \in Requests : status[r] = "review" /\ subject[r] = v}

NoneOpen_Unindexed(v) == TRUE

NoneOpen(v) == Open(v) = {}

Create(p, r, v) ==
  /\ status[r] = "absent"
  /\ NoneOpen(v)
  /\ status' = [status EXCEPT ![r] = "review"]
  /\ subject' = [subject EXCEPT ![r] = v]
  /\ submitter' = [submitter EXCEPT ![r] = p]
  /\ required' = [required EXCEPT ![r] = asking[p].required]
  /\ asking' = [asking EXCEPT ![p] = None]
  /\ UNCHANGED <<policy, deployed, approvals, withdrawing>>

\* The version's own route: the version moves to review with the request, and the evidence
\* its gates verified is pinned.
InsertOwn(p, r, v) ==
  /\ asking[p] # None /\ asking[p].route = "own" /\ asking[p].version = v
  /\ Create(p, r, v)
  /\ version' = [version EXCEPT ![v] = "review"]
  /\ pinned' = [pinned EXCEPT ![v] = r]
  /\ \E authors \in EvidenceAuthors : evidence' = [evidence EXCEPT ![v] = authors]

InsertGeneric(p, r, v) ==
  /\ asking[p] # None /\ asking[p].route = "generic" /\ asking[p].version = v
  /\ Create(p, r, v)
  /\ UNCHANGED versionVars

\* The insert meets an open request, a gate refuses, or the transaction is lost.
Abandon(p) ==
  /\ asking[p] # None
  /\ asking' = [asking EXCEPT ![p] = None]
  /\ UNCHANGED <<policy, versionVars, deployed, requestVars, withdrawing>>

-----------------------------------------------------------------------------
(* Decisions.                                                              *)

\* _target_status: where a request in this status takes its version.
Target_AsIs(outcome) == outcome

Target(outcome) ==
  CASE outcome = "approved" -> "approved"
    [] outcome = "review" -> None
    [] OTHER -> "draft"

\* rating_versions.apply_approval_decision: what the decided request does to the version,
\* or, where no alternative holds, a refusal that rolls the decision back.
Carry_FromAnyStatus(v, outcome) ==
  version' = [version EXCEPT ![v] = IF Target(outcome) = None THEN @ ELSE Target(outcome)]

Carry(v, outcome) ==
  \/ Target(outcome) = None /\ UNCHANGED version
  \/ Target(outcome) = "draft" /\ version[v] = "draft" /\ UNCHANGED version
  \/ /\ Target(outcome) # None
     /\ version[v] = "review"
     /\ version' = [version EXCEPT ![v] = Target(outcome)]

\* _check_approver_role: with no entry in force, approval:decide is enough.
MayDecide(p) == p \in IF policy = None THEN Deciders ELSE Deciders \cap policy.approvers

Interested_SubmitterOnly(r) == {submitter[r]}

Interested(r) == {submitter[r], AuthorOf[subject[r]]} \cup evidence[subject[r]]

\* _resolve_status.
Outcome_AtOnce(r, decision, count) ==
  CASE decision = "reject" -> "rejected"
    [] decision = "request_changes" -> "changes_requested"
    [] OTHER -> "approved"

Outcome(r, decision, count) ==
  CASE decision = "reject" -> "rejected"
    [] decision = "request_changes" -> "changes_requested"
    [] OTHER -> IF count >= required[r] THEN "approved" ELSE "review"

\* uq_approval_decisions_one_each.
DecidedBefore(p, r) == p \in approvals[r]

Decide(p, r, decision) ==
  LET v == subject[r]
      approved == IF decision = "approve" THEN approvals[r] \cup {p} ELSE approvals[r]
      outcome == Outcome(r, decision, Cardinality(approved)) IN
  /\ status[r] = "review"
  /\ p \notin Interested(r)
  /\ MayDecide(p)
  /\ ~DecidedBefore(p, r)
  /\ ~Locked(v)
  /\ status' = [status EXCEPT ![r] = outcome]
  /\ approvals' = [approvals EXCEPT ![r] = approved]
  /\ Carry(v, outcome)
  /\ UNCHANGED <<policy, evidence, pinned, deployed, subject, submitter, required,
                 asking, withdrawing>>

\* _require_transition: an open or an approved request is withdrawn, and one that is withdrawn
\* already passes again; one rejected or returned is refused.
Withdrawable(r) == status[r] \in {"review", "approved", "withdrawn"}

\* withdraw_request reads whether the version is deployed before it locks the request.  (What
\* it reads of a request that is rejected or returned is of no use: such a request stays so.)
CheckNotLive(r) ==
  /\ Withdrawable(r) /\ subject[r] \notin deployed
  /\ withdrawing' = withdrawing \cup {r}
  /\ UNCHANGED <<policy, versionVars, deployed, requestVars, asking>>

\* Withdrawn again, a request still takes back a version that is in review for another one.
Withdraw(r) ==
  /\ r \in withdrawing
  /\ Withdrawable(r)
  /\ ~Locked(subject[r])
  /\ status' = [status EXCEPT ![r] = "withdrawn"]
  /\ Carry(subject[r], "withdrawn")
  /\ withdrawing' = withdrawing \ {r}
  /\ UNCHANGED <<policy, evidence, pinned, deployed, subject, submitter, required,
                 approvals, asking>>

-----------------------------------------------------------------------------
\* A policy is replaced, or roles are granted and revoked.
ChangePolicy(new) ==
  /\ policy' = new
  /\ UNCHANGED <<versionVars, deployed, requestVars, asking, withdrawing>>

\* _approved_compiled_version, then a Deployment row.
Deploy(v) ==
  /\ version[v] = "approved"
  /\ deployed' = deployed \cup {v}
  /\ UNCHANGED <<policy, versionVars, requestVars, asking, withdrawing>>

Next ==
  \/ \E p \in Submitters, v \in Versions : AskOwn(p, v) \/ AskGeneric(p, v)
  \/ \E p \in Submitters, r \in Requests, v \in Versions :
       InsertOwn(p, r, v) \/ InsertGeneric(p, r, v)
  \/ \E p \in Submitters : Abandon(p)
  \/ \E p \in Deciders, r \in Requests, decision \in Decisions : Decide(p, r, decision)
  \/ \E r \in Requests : CheckNotLive(r) \/ Withdraw(r)
  \/ \E new \in Policies \cup {None} : ChangePolicy(new)
  \/ \E v \in Versions : Deploy(v)

Spec == Init /\ [][Next]_vars

-----------------------------------------------------------------------------
(* Safety.                                                                 *)

TypeOK ==
  /\ policy \in Policies \cup {None}
  /\ version \in [Versions -> {"draft", "review", "approved"}]
  /\ evidence \in [Versions -> SUBSET Principals]
  /\ pinned \in [Versions -> Requests \cup {None}]
  /\ deployed \subseteq Versions
  /\ status \in [Requests -> {"absent", "review"} \cup Closed]
  /\ subject \in [Requests -> Versions \cup {None}]
  /\ submitter \in [Requests -> Principals \cup {None}]
  /\ required \in [Requests -> Nat]
  /\ approvals \in [Requests -> SUBSET Principals]
  /\ asking \in [Principals -> Asks \cup {None}]
  /\ withdrawing \subseteq Requests
  /\ \A r \in Requests : status[r] # "absent" =>
       subject[r] \in Versions /\ submitter[r] \in Principals

\* R1 and FR-353, for a request and not for one decision of it: an approved request has as
\* many approvals, by distinct principals, as its submission asked for, and none of them by
\* its submitter, by the version's author or by an author of the evidence judged, whatever
\* the policy became meanwhile and however often the version was sent back and sent again
\* with other evidence (approvals.py, decide).
FourEyes ==
  \A r \in Requests : status[r] = "approved" =>
    /\ Cardinality(approvals[r]) >= required[r]
    /\ submitter[r] \notin approvals[r]
    /\ AuthorOf[subject[r]] \notin approvals[r]
    /\ evidence[subject[r]] \cap approvals[r] = {}

\* "A model left in review after its request reached approved is a model no Rating Version
\* may reference and no screen can explain" (api/approvals.py, decide_request): a version in
\* review has one open request, the one its own submission opened, and nobody else's.
ReviewMatchesRequest ==
  \A v \in Versions : version[v] = "review" => Open(v) = {pinned[v]}

\* FR-357: no live version is left with no approval behind it, although a withdrawal reads
\* whether the version is live before it locks anything.
LiveHasApproval ==
  \A v \in deployed :
    /\ version[v] = "approved"
    /\ pinned[v] # None /\ status[pinned[v]] = "approved" /\ subject[pinned[v]] = v

\* What this module implements: ReviewedVersions.  What a version's own request holds is
\* all that ever counts for it, and only until the version is returned: approvals recorded
\* on a request that is open on a draft, its own or one of the generic route, change nothing.
OfPinned(f, none) == [v \in Versions |-> IF version[v] = "draft" THEN none ELSE f[pinned[v]]]

InterestedIn(v) ==
  IF version[v] = "draft" THEN {} ELSE {submitter[pinned[v]], AuthorOf[v]} \cup evidence[v]

Abstract == INSTANCE ReviewedVersions
              WITH needed <- OfPinned(required, 0), endorsed <- OfPinned(approvals, {}),
                   interested <- [v \in Versions |-> InterestedIn(v)]
ImplementsReviewedVersions == Abstract!Spec

-----------------------------------------------------------------------------
(* Claims of the comments and of the specification that the code breaks.   *)

\* Whether the version lets a request of it be closed other than by an approval.
CarriesBack(v) == version[v] \in {"draft", "review"}

\* rating_versions.py, apply_approval_decision: an open request "must stay closable";
\* refusing "would leave the request open for ever".
OpenStaysClosable ==
  \A r \in Requests : status[r] = "review" => CarriesBack(subject[r])

\* FR-351 (docs/specs/06-governance.md:92): a hook moves the version "only once the request
\* is decided", and "nothing while it is still in review".
MovesWithItsRequest ==
  [][\A v \in Versions :
       version[v] = "review" /\ version'[v] # "review" => status'[pinned[v]] # "review"]_vars

\* FR-357: "An approval can be withdrawn before deployment".
WithdrawableBeforeDeployment ==
  \A r \in Requests :
    status[r] = "approved" /\ subject[r] \notin deployed => CarriesBack(subject[r])
=============================================================================
