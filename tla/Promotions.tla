---------------------------- MODULE Promotions ----------------------------
(***************************************************************************)
(* Promotion of Rating Versions through the Environments of one workspace: *)
(* Deployment Requests, deploys and rollbacks                              *)
(* (backend/src/app/platform/deployments.py), the Environments they are    *)
(* into (environments.py), the policy that gates them (approvals.py,       *)
(* set_policy) and the locks these transactions meet on: the Environment   *)
(* row, the Deployment Request's row and the workspace's audit chain       *)
(* (audit.py).                                                             *)
(*                                                                         *)
(* The switch's rounds are in DeploymentSwitch: PREPARE is the time        *)
(* between Execute and CommitExecuted.  Who may decide is in Approvals: a  *)
(* decision is here the transaction that carries its outcome to the        *)
(* Deployment Request.                                                     *)
(***************************************************************************)
EXTENDS Naturals, FiniteSets

CONSTANTS
  Environments,
  Versions,     \* approved and compiled Rating Versions
  Requests,     \* Deployment Requests, by id
  Deployments,  \* deploys and rollbacks, each one Deployment id
  Prior,        \* requires_prior_environment of each Environment, or None
  Policies,     \* the `deployment` entries a policy may hold
  Outcomes,     \* what a decision makes of a request in review
  None

\* An Environment's entry: none, one without a skippable predecessor, one with it.
Entries == {"none", "strict", "skippable"}

\* DeploymentRequestEvidence.uat_deployment: a Deployment, or a PromotionSkip.
Evidence == {"deployment", "skip"}

Drafts == [id: Requests, version: Versions, number: Nat, pinned: Evidence]
Submissions == [env: Environments, version: Versions, number: Nat, pinned: Evidence]
Plans == [env: Environments, version: Versions, request: Requests \cup {None}]
Decisions == [request: Requests, outcome: Outcomes]
Rungs == [env: Environments, version: Versions, pinned: Evidence]

ASSUME PromotionConstants ==
  /\ Prior \in [Environments -> Environments \cup {None}]
  /\ Policies \subseteq [Environments -> Entries]
  /\ Outcomes \subseteq {"review", "approved", "rejected", "withdrawn"}
  /\ None \notin Environments \cup Requests \cup Policies
  /\ None \notin Drafts /\ None \notin Submissions /\ None \notin Plans /\ None \notin Rungs
  /\ None \notin Decisions /\ Decisions \cap Deployments = {}

ASSUME FiniteRequests == IsFiniteSet(Requests)

VARIABLES
  retired,
  policy,
  saving,     \* the policy a set_policy is about to write, or None
  lock,       \* what holds the Environment's row FOR UPDATE
  draft,      \* what a submission has read under that lock, or None
  status,     \* of a Deployment Request
  request,    \* its Environment, Rating Version, number and pinned evidence
  deciding,   \* the decision that has appended its event, or None
  pc,         \* of a deploy or a rollback
  plan,       \* its Environment, Rating Version and request
  overtaken   \* deploys and decisions whose uncommitted event no longer follows the head

requestVars == <<status, request, deciding>>
environmentVars == <<retired, lock, draft>>
policyVars == <<policy, saving>>
deployVars == <<pc, plan, overtaken>>
vars == <<requestVars, environmentVars, policyVars, deployVars>>

Init ==
  /\ retired = {}
  /\ policy \in Policies
  /\ saving = None
  /\ lock = [e \in Environments |-> "free"]
  /\ draft = [e \in Environments |-> None]
  /\ status = [r \in Requests |-> "absent"]
  /\ request = [r \in Requests |-> None]
  /\ deciding = None
  /\ pc = [d \in Deployments |-> "idle"]
  /\ plan = [d \in Deployments |-> None]
  /\ overtaken = {}

-----------------------------------------------------------------------------
(* The audit chain.  audit.record takes the workspace's advisory lock and  *)
(* reads the head; the lock is held until the transaction ends.  Only a    *)
(* deploy that executes a request and a decision append and then wait      *)
(* again: every other transaction appends last, in the step that commits   *)
(* it.                                                                     *)

Executing == {d \in Deployments : pc[d] = "executing"}

\* Those that hold the chain.
Appending == Executing \cup ({deciding} \ {None})

\* An explicit unlock that the path of a failure skips.
AuditFree_SessionLock ==
  deciding = None /\ \A d \in Deployments : pc[d] \notin {"executing", "aborted"}

\* No lock: the head is read, and the unique sequence fails whoever appends second.
AuditFree_NoLock == TRUE

AuditFree == Appending = {}

\* The transactions that hold an event and have not committed lose the head.
Append == overtaken' = overtaken \cup Appending

-----------------------------------------------------------------------------
(* The order of promotion.                                                 *)

Committed == {d \in Deployments : pc[d] = "committed"}

\* The query without its Environment.
DeployedTo_Anywhere(e, v) == \E d \in Committed : plan[d].version = v

\* _predecessor_deployment.
DeployedTo(e, v) == \E d \in Committed : plan[d].env = e /\ plan[d].version = v
PriorDeployed(e, v) == DeployedTo(Prior[e], v)

\* An Environment without a gate takes any version.
OrderHolds_OfGates(e, deployed, entry, skip) ==
  Prior[e] = None \/ deployed \/ skip \/ entry = "none"

\* promotion_order_refusal, of a skip that names the predecessor and has a reason.
OrderHolds(e, deployed, entry, skip) ==
  \/ Prior[e] = None
  \/ deployed
  \/ skip /\ entry = "skippable"

-----------------------------------------------------------------------------
(* Environments.  Each of these transactions holds the row from its first  *)
(* statement, and appends its event before it ends.                        *)

Lock(e, op) ==
  /\ lock[e] = "free"
  /\ e \notin retired
  /\ lock' = [lock EXCEPT ![e] = op]
  /\ UNCHANGED <<retired, requestVars, policyVars, deployVars>>

Unlock_KeepsDraft(e) ==
  /\ lock' = [lock EXCEPT ![e] = "free"]
  /\ UNCHANGED draft

Unlock(e) ==
  /\ lock' = [lock EXCEPT ![e] = "free"]
  /\ draft' = [draft EXCEPT ![e] = None]

\* update_environment; the name it writes is not modelled.
StartRename(e) == Lock(e, "rename") /\ UNCHANGED draft

FinishRename(e) ==
  /\ lock[e] = "rename"
  /\ AuditFree
  /\ Append
  /\ Unlock(e)
  /\ UNCHANGED <<retired, requestVars, policyVars, pc, plan>>

\* retire_environment: _blockers reads the Deployments and the policy.
StartRetire(e) ==
  /\ \A d \in Committed : plan[d].env # e
  /\ policy[e] = "none"
  /\ Lock(e, "retire")
  /\ UNCHANGED draft

FinishRetire(e) ==
  /\ lock[e] = "retire"
  /\ AuditFree
  /\ Append
  /\ retired' = retired \cup {e}
  /\ Unlock(e)
  /\ UNCHANGED <<requestVars, policyVars, pc, plan>>

-----------------------------------------------------------------------------
(* Deployment Requests.                                                    *)

RequestsInto(e) == {r \in Requests : request[r] # None /\ request[r].env = e}

\* The count of the rows that are still in review.
NextNumber_OfOpen(e) == Cardinality({r \in RequestsInto(e) : status[r] = "review"}) + 1

\* max(version) + 1: rows are never deleted.
NextNumber(e) == Cardinality(RequestsInto(e)) + 1

Unused(r) ==
  /\ status[r] = "absent"
  /\ \A e \in Environments : draft[e] # None => draft[e].id # r

\* submit_request, up to the insert: the policy entry, the evidence and the number.
StartSubmit(e, v, r, skip) ==
  /\ policy[e] # "none"
  /\ Prior[e] # None
  /\ OrderHolds(e, PriorDeployed(e, v), policy[e], skip)
  /\ Unused(r)
  /\ Lock(e, "submit")
  /\ draft' = [draft EXCEPT ![e] =
                 [id |-> r, version |-> v, number |-> NextNumber(e),
                  pinned |-> IF PriorDeployed(e, v) THEN "deployment" ELSE "skip"]]

\* The insert and approvals.submit, which reads the policy again.
FinishSubmit(e) ==
  /\ lock[e] = "submit"
  /\ policy[e] # "none"
  /\ AuditFree
  /\ Append
  /\ status' = [status EXCEPT ![draft[e].id] = "review"]
  /\ request' = [request EXCEPT ![draft[e].id] =
                   [env |-> e, version |-> draft[e].version,
                    number |-> draft[e].number, pinned |-> draft[e].pinned]]
  /\ Unlock(e)
  /\ UNCHANGED <<retired, deciding, policyVars, pc, plan>>

\* The entry is gone: approvals.submit refuses.
RefuseSubmit(e) ==
  /\ lock[e] = "submit"
  /\ policy[e] = "none"
  /\ Unlock(e)
  /\ UNCHANGED <<retired, requestVars, policyVars, deployVars>>

\* A transaction that locked the row fails: nothing of it remains.
AbandonEnvironment(e) ==
  /\ lock[e] # "free"
  /\ Unlock(e)
  /\ UNCHANGED <<retired, requestVars, policyVars, deployVars>>

-----------------------------------------------------------------------------
(* Decisions.                                                              *)

\* Only a request in review is decided; a withdrawal may also find its approval, or itself.
Decidable(r, outcome) ==
  \/ status[r] = "review"
  \/ outcome = "withdrawn" /\ status[r] \in {"approved", "executed", "withdrawn"}

\* The deploys that have their request's row, by the conditional UPDATE.
Holding == {d \in Deployments : pc[d] \in {"claimed", "executing"}}

RowHeld(r) == \E d \in Holding : plan[d].request = r

\* decide or withdraw, up to its event.
StartDecide(r, outcome) ==
  /\ Decidable(r, outcome)
  /\ AuditFree
  /\ deciding' = [request |-> r, outcome |-> outcome]
  /\ UNCHANGED <<status, request, environmentVars, policyVars, deployVars>>

\* apply_approval_decision has the row FOR UPDATE: the outcome and a second event.
FinishDecide ==
  /\ deciding # None
  /\ ~RowHeld(deciding.request)
  /\ status[deciding.request] = "review"
  /\ status' = [status EXCEPT ![deciding.request] = deciding.outcome]
  /\ deciding' = None
  /\ overtaken' = (overtaken \cup Executing) \ {deciding}
  /\ UNCHANGED <<request, environmentVars, policyVars, pc, plan>>

AbandonDecide ==
  /\ deciding # None
  /\ deciding' = None
  /\ overtaken' = overtaken \ {deciding}
  /\ UNCHANGED <<status, request, environmentVars, policyVars, pc, plan>>

\* require_in_review: nothing of the decision remains.
RefuseDecide ==
  /\ AbandonDecide
  /\ ~RowHeld(deciding.request)
  /\ status[deciding.request] # "review"

-----------------------------------------------------------------------------
(* The policy.                                                             *)

\* require_existing, of each Environment an entry names, without a lock.
StartSavePolicy(p) ==
  /\ saving = None
  /\ \A e \in retired : p[e] = "none"
  /\ saving' = p
  /\ UNCHANGED <<policy, requestVars, environmentVars, deployVars>>

FinishSavePolicy ==
  /\ saving # None
  /\ AuditFree
  /\ Append
  /\ policy' = saving
  /\ saving' = None
  /\ UNCHANGED <<requestVars, environmentVars, pc, plan>>

AbandonSavePolicy ==
  /\ saving # None
  /\ saving' = None
  /\ UNCHANGED <<policy, requestVars, environmentVars, deployVars>>

-----------------------------------------------------------------------------
(* Deploys and rollbacks.                                                  *)

Check(d, e, v, r) ==
  /\ pc[d] = "idle"
  /\ e \notin retired
  /\ pc' = [pc EXCEPT ![d] = "checked"]
  /\ plan' = [plan EXCEPT ![d] = [env |-> e, version |-> v, request |-> r]]
  /\ UNCHANGED <<requestVars, environmentVars, policyVars, overtaken>>

\* deploy, up to its first write: an ungated target takes no request and no skip.
CheckUngated(d, e, v) ==
  /\ policy[e] = "none"
  /\ OrderHolds(e, PriorDeployed(e, v), "none", FALSE)
  /\ Check(d, e, v, None)

\* _executable_request, and the order from the evidence the request pinned.
CheckGated(d, e, v, r) ==
  /\ policy[e] # "none"
  /\ status[r] = "approved"
  /\ request[r].env = e
  /\ request[r].version = v
  /\ OrderHolds(e, request[r].pinned = "deployment", policy[e], request[r].pinned = "skip")
  /\ Check(d, e, v, r)

\* rollback: a version this Environment had before; no request, no order.
CheckRollback(d, e, v) == DeployedTo(e, v) /\ Check(d, e, v, None)

\* The status the request had when it was read.
StillApproved_AsRead(r) == TRUE

\* The WHERE of the conditional UPDATE, which waits for a transaction that holds the row.
StillApproved(r) == status[r] = "approved"

\* The conditional UPDATE finds the request approved, and has its row.
Claim(d) ==
  /\ pc[d] = "checked"
  /\ plan[d].request # None
  /\ ~RowHeld(plan[d].request)
  /\ StillApproved(plan[d].request)
  /\ pc' = [pc EXCEPT ![d] = "claimed"]
  /\ UNCHANGED <<requestVars, environmentVars, policyVars, plan, overtaken>>

\* Its event is appended, and PREPARE begins.
Execute(d) ==
  /\ pc[d] = "claimed"
  /\ AuditFree
  /\ pc' = [pc EXCEPT ![d] = "executing"]
  /\ UNCHANGED <<requestVars, environmentVars, policyVars, plan, overtaken>>

\* The UPDATE finds no approved row.
RefuseExecuted(d) ==
  /\ pc[d] = "checked"
  /\ plan[d].request # None
  /\ ~StillApproved(plan[d].request)
  /\ pc' = [pc EXCEPT ![d] = "refused"]
  /\ UNCHANGED <<requestVars, environmentVars, policyVars, plan, overtaken>>

\* The insert, whose foreign key waits for who holds the Environment's row, and the
\* event that precedes the commit.
Commit(d) ==
  /\ lock[plan[d].env] = "free"
  /\ pc' = [pc EXCEPT ![d] = "committed"]
  /\ UNCHANGED <<request, deciding, environmentVars, policyVars, plan>>

CommitWithoutRequest(d) ==
  /\ pc[d] = "checked"
  /\ plan[d].request = None
  /\ AuditFree
  /\ Append
  /\ Commit(d)
  /\ UNCHANGED status

CommitExecuted(d) ==
  /\ pc[d] = "executing"
  /\ status' = [status EXCEPT ![plan[d].request] = "executed"]
  /\ overtaken' = (overtaken \cup Appending) \ {d}
  /\ Commit(d)

\* PREPARE is short, a statement fails or the API process dies: the transaction rolls back.
Abort(d) ==
  /\ pc[d] \in {"checked", "claimed", "executing"}
  /\ pc' = [pc EXCEPT ![d] = IF pc[d] = "executing" THEN "aborted" ELSE "refused"]
  /\ overtaken' = overtaken \ {d}
  /\ UNCHANGED <<requestVars, environmentVars, policyVars, plan>>

\* PostgreSQL's detector: one of the two that wait for each other is rolled back.
\* The deploy holds the chain and waits for the Environment's row, the other transaction
\* holds that row and waits for the chain.
EnvironmentDeadlock(d) == pc[d] = "executing" /\ lock[plan[d].env] # "free"

\* The decision holds the chain and waits for the request's row, the deploy holds that row
\* and waits for the chain.
RequestDeadlock(d) ==
  pc[d] = "claimed" /\ deciding # None /\ deciding.request = plan[d].request

BreakDeadlock(d) ==
  \/ EnvironmentDeadlock(d) /\ (Abort(d) \/ AbandonEnvironment(plan[d].env))
  \/ RequestDeadlock(d) /\ (Abort(d) \/ AbandonDecide)

-----------------------------------------------------------------------------

Environment(e) ==
  \/ StartRename(e)
  \/ FinishRename(e)
  \/ StartRetire(e)
  \/ FinishRetire(e)
  \/ \E v \in Versions, r \in Requests, skip \in BOOLEAN : StartSubmit(e, v, r, skip)
  \/ FinishSubmit(e)
  \/ RefuseSubmit(e)
  \/ AbandonEnvironment(e)

Policy ==
  \/ \E p \in Policies : StartSavePolicy(p)
  \/ FinishSavePolicy
  \/ AbandonSavePolicy

Decision ==
  \/ \E r \in Requests, outcome \in Outcomes : StartDecide(r, outcome)
  \/ FinishDecide
  \/ RefuseDecide
  \/ AbandonDecide

Deployment(d) ==
  \/ \E e \in Environments, v \in Versions :
       \/ CheckUngated(d, e, v)
       \/ \E r \in Requests : CheckGated(d, e, v, r)
       \/ CheckRollback(d, e, v)
  \/ Claim(d)
  \/ Execute(d)
  \/ RefuseExecuted(d)
  \/ CommitWithoutRequest(d)
  \/ CommitExecuted(d)
  \/ Abort(d)
  \/ BreakDeadlock(d)

Next ==
  \/ \E e \in Environments : Environment(e)
  \/ Decision
  \/ Policy
  \/ \E d \in Deployments : Deployment(d)

Spec == Init /\ [][Next]_vars

EndOf(d) ==
  Claim(d) \/ Execute(d) \/ RefuseExecuted(d) \/ CommitWithoutRequest(d) \/ CommitExecuted(d)

EndDecide == FinishDecide \/ RefuseDecide

FinishOf(e) == FinishRename(e) \/ FinishRetire(e) \/ FinishSubmit(e)

\* PREPARE has a deadline; the locks are granted in the order they were asked for, so a
\* transaction whose turn keeps coming is served; the deadlock detector runs.
Fairness ==
  /\ \A d \in Deployments : SF_vars(EndOf(d)) /\ WF_vars(BreakDeadlock(d))
  /\ \A e \in Environments : SF_vars(FinishOf(e)) /\ SF_vars(RefuseSubmit(e))
  /\ SF_vars(EndDecide)

FairSpec == Spec /\ Fairness

\* The states these actions can go on in, read off their guards.
CanEnd(d) ==
  \/ /\ pc[d] = "checked" /\ plan[d].request # None
     /\ StillApproved(plan[d].request) => ~RowHeld(plan[d].request)
  \/ pc[d] = "claimed" /\ AuditFree
  \/ /\ pc[d] = "checked" /\ plan[d].request = None
     /\ AuditFree /\ lock[plan[d].env] = "free"
  \/ pc[d] = "executing" /\ lock[plan[d].env] = "free"

Deadlocked(d) == EnvironmentDeadlock(d) \/ RequestDeadlock(d)

CanDecide == deciding # None /\ ~RowHeld(deciding.request)

CanFinish(e) ==
  /\ lock[e] # "free"
  /\ lock[e] = "submit" => policy[e] # "none"
  /\ AuditFree

CanRefuse(e) == lock[e] = "submit" /\ policy[e] = "none"

\* They are the states the actions are enabled in: what relates the two forms of fairness.
GuardsTellEnabled ==
  /\ \A d \in Deployments :
       /\ CanEnd(d) <=> ENABLED <<EndOf(d)>>_vars
       /\ Deadlocked(d) <=> ENABLED <<BreakDeadlock(d)>>_vars
  /\ \A e \in Environments :
       /\ CanFinish(e) <=> ENABLED <<FinishOf(e)>>_vars
       /\ CanRefuse(e) <=> ENABLED <<RefuseSubmit(e)>>_vars
  /\ CanDecide <=> ENABLED <<EndDecide>>_vars

\* Fairness, with the guards in the place of ENABLED.
GuardedFairness ==
  /\ \A d \in Deployments :
       /\ []<>CanEnd(d) => []<><<EndOf(d)>>_vars
       /\ <>[]Deadlocked(d) => []<><<BreakDeadlock(d)>>_vars
  /\ \A e \in Environments :
       /\ []<>CanFinish(e) => []<><<FinishOf(e)>>_vars
       /\ []<>CanRefuse(e) => []<><<RefuseSubmit(e)>>_vars
  /\ []<>CanDecide => []<><<EndDecide>>_vars

-----------------------------------------------------------------------------

TypeOK ==
  /\ retired \subseteq Environments
  /\ policy \in Policies
  /\ saving \in Policies \cup {None}
  /\ lock \in [Environments -> {"free", "rename", "retire", "submit"}]
  /\ draft \in [Environments -> Drafts \cup {None}]
  /\ status \in [Requests ->
       {"absent", "review", "approved", "rejected", "withdrawn", "executed"}]
  /\ request \in [Requests -> Submissions \cup {None}]
  /\ pc \in [Deployments ->
       {"idle", "checked", "claimed", "executing", "committed", "refused", "aborted"}]
  /\ plan \in [Deployments -> Plans \cup {None}]
  /\ deciding \in Decisions \cup {None}
  /\ overtaken \subseteq Deployments \cup Decisions
  /\ \A e \in Environments : draft[e] # None <=> lock[e] = "submit"
  /\ \A r \in Requests : request[r] = None <=> status[r] = "absent"
  /\ \A d \in Deployments : plan[d] = None <=> pc[d] = "idle"

\* A request is executed by exactly one committed Deployment, into its Environment and of
\* its version, and a committed Deployment's request is executed: deploys that read the
\* same approved request race, and the loser leaves no row (deployments.py:601-613).
ExecutedOnce ==
  /\ \A r \in Requests : status[r] = "executed" <=> \E d \in Committed : plan[d].request = r
  /\ \A d1, d2 \in Committed :
       plan[d1].request = plan[d2].request /\ plan[d1].request # None => d1 = d2
  /\ \A d \in Committed : plan[d].request # None =>
       /\ request[plan[d].request].env = plan[d].env
       /\ request[plan[d].request].version = plan[d].version

\* What a transaction has read under a lock stays true until it ends: the Environment it
\* submits into is not retired, its number is still the next one, and the head of the audit
\* chain is still the one its event follows (deployments.py:272-281 and audit.py:78-96).
HeldReadsStayTrue ==
  /\ \A e \in Environments : draft[e] # None =>
       e \notin retired /\ draft[e].number = NextNumber(e)
  /\ overtaken = {}

\* The requests into an Environment are numbered 1, 2, 3 and so on, whatever fails.
NumberedInOrder ==
  \A e \in Environments :
    {request[r].number : r \in RequestsInto(e)} = 1..Cardinality(RequestsInto(e))

\* FR-429: a version is in an Environment with a predecessor only if it was deployed to
\* the predecessor, or a request that waived that was executed: over rollbacks, changes
\* of the policy between submission and deploy, and races of all of them.
PromotedInOrder ==
  \A d \in Committed : LET e == plan[d].env IN
    Prior[e] # None =>
      \/ PriorDeployed(e, plan[d].version)
      \/ \E r \in RequestsInto(e) :
           /\ status[r] = "executed"
           /\ request[r].version = plan[d].version
           /\ request[r].pinned = "skip"

Asked ==
  [r \in Requests |->
     IF request[r] = None THEN None
     ELSE [env |-> request[r].env, version |-> request[r].version,
           pinned |-> request[r].pinned]]

Placements == [d \in Deployments |-> IF pc[d] = "committed" THEN plan[d] ELSE None]

Ladder == INSTANCE PromotionLadder WITH asked <- Asked, placed <- Placements

\* The transactions, the locks and the policy implement the ladder.
ImplementsLadder == Ladder!Spec

Unfinished == {"checked", "claimed", "executing"}

\* No lock of the audit chain, an Environment or a request is held for ever, although a deploy
\* may wait for a submission, or for a decision of its own request, that waits for it: every
\* deploy that passed its checks ends, every Environment becomes free again, and so does the
\* chain of whatever decision has it (audit.py:78-81).
EveryTransactionEnds ==
  /\ \A d \in Deployments : pc[d] \in Unfinished ~> pc[d] \notin Unfinished
  /\ \A e \in Environments : lock[e] # "free" ~> lock[e] = "free"
  /\ deciding # None ~> deciding = None

\* Whoever waits, waits for somebody: while a deploy that passed its checks, a decision or a
\* transaction on an Environment is unfinished, one of them can go on, or PostgreSQL has a
\* deadlock to break, and that is of a deploy that holds the chain and waits for its
\* Environment's row, or of one that has its request's row while a decision that holds the
\* chain waits for it (audit.py:78-81).
SomeoneProceeds ==
  \/ \E d \in Deployments : CanEnd(d) \/ EnvironmentDeadlock(d) \/ RequestDeadlock(d)
  \/ \E e \in Environments : CanFinish(e) \/ CanRefuse(e)
  \/ CanDecide
  \/ /\ \A d \in Deployments : pc[d] \notin Unfinished
     /\ \A e \in Environments : lock[e] = "free"
     /\ deciding = None

-----------------------------------------------------------------------------
(* Claims of the comments that the code breaks.                            *)

\* environments.py:359-360: an Environment is not retired while a Deployment is live in it.
RetiredIdle == \A d \in Committed : plan[d].env \notin retired

\* Nor while an entry of the policy names it.
NoEntryOfRetired == \A e \in retired : policy[e] = "none"

\* deployments.py:548: the first Deployment of a version into a gated target has a request.
GateHolds ==
  [][\A d \in Deployments : pc[d] # "committed" /\ pc'[d] = "committed" =>
       \/ policy[plan[d].env] = "none"
       \/ plan[d].request # None
       \/ DeployedTo(plan[d].env, plan[d].version)]_vars
=============================================================================
