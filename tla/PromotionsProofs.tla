------------------------- MODULE PromotionsProofs -------------------------
(***************************************************************************)
(* What Promotions guarantees for any Environments, versions, requests,    *)
(* deploys and policies.                                                   *)
(***************************************************************************)
EXTENDS Promotions, FiniteSetTheorems, TLAPS

-----------------------------------------------------------------------------
(* The invariant.                                                          *)

\* A version may be placed: its support is there, or it has been there before.
Placeable(e, v) == Prior[e] = None \/ PriorDeployed(e, v) \/ DeployedTo(e, v)

\* What deploys in flight and committed ones rest on.
PlansSound ==
  /\ \A d1, d2 \in Holding : plan[d1].request = plan[d2].request => d1 = d2
  /\ \A d \in Holding : plan[d].request # None
  /\ \A d \in Deployments : plan[d] # None /\ plan[d].request # None =>
       LET r == plan[d].request IN
       /\ request[r] # None
       /\ request[r].env = plan[d].env
       /\ request[r].version = plan[d].version
       /\ d \in Holding => status[r] = "approved"
  /\ \A d \in Deployments : pc[d] = "checked" /\ plan[d].request = None =>
       Placeable(plan[d].env, plan[d].version)

\* A request rests on a Deployment of its version in the Environment before, or waives it.
RequestsSound ==
  \A r \in Requests : request[r] # None =>
    /\ Prior[request[r].env] # None
    /\ request[r].pinned = "deployment" => PriorDeployed(request[r].env, request[r].version)

\* So does a submission in flight, whose id nothing else has.
DraftsSound ==
  /\ \A e \in Environments : draft[e] # None =>
       /\ Prior[e] # None
       /\ status[draft[e].id] = "absent"
       /\ draft[e].pinned = "deployment" => PriorDeployed(e, draft[e].version)
  /\ \A e, f \in Environments :
       draft[e] # None /\ draft[f] # None /\ draft[e].id = draft[f].id => e = f

\* One transaction has the chain.
ChainSound == \A x, y \in Appending : x = y

\* A locked Environment is not retired.
LocksSound == \A e \in Environments : lock[e] # "free" => e \notin retired

\* A request that was executed waived the Environment before e for v.
Waived(e, v) ==
  \E r \in RequestsInto(e) :
    /\ status[r] = "executed"
    /\ request[r].version = v
    /\ request[r].pinned = "skip"

-----------------------------------------------------------------------------
(* Type correctness.                                                       *)

\* A fresh database is well typed.
LEMMA TypeInit == Init => TypeOK
BY PromotionConstants DEF Init, TypeOK

\* Deploys and decisions have events on the chain.
LEMMA AppendTyped ==
  ASSUME TypeOK
  PROVE  /\ Appending \subseteq Deployments \cup Decisions
         /\ Append => overtaken' \subseteq Deployments \cup Decisions
<1>1. Appending \subseteq Deployments \cup Decisions
  BY DEF TypeOK, Appending, Executing
<1> QED BY <1>1 DEF TypeOK, Append

\* Every transaction on an Environment's row keeps the types.
LEMMA TypeEnvironment ==
  ASSUME TypeOK, NEW e \in Environments, Environment(e)
  PROVE  TypeOK'
<1>1. CASE StartRename(e) \/ StartRetire(e)
  BY <1>1 DEF TypeOK, StartRename, StartRetire, Lock, requestVars, policyVars, deployVars
<1>2. CASE FinishRename(e) \/ FinishRetire(e)
  <2>1. overtaken' \subseteq Deployments \cup Decisions
    BY <1>2, AppendTyped DEF FinishRename, FinishRetire
  <2> QED BY <1>2, <2>1 DEF TypeOK, FinishRename, FinishRetire, Unlock, requestVars, policyVars
<1>3. CASE \E v \in Versions, r \in Requests, skip \in BOOLEAN : StartSubmit(e, v, r, skip)
  <2>1. PICK v \in Versions, r \in Requests, skip \in BOOLEAN : StartSubmit(e, v, r, skip)
    BY <1>3
  <2>2. RequestsInto(e) \subseteq Requests /\ IsFiniteSet(RequestsInto(e))
    BY FiniteRequests, FS_Subset DEF RequestsInto
  <2>3. NextNumber(e) \in Nat
    BY <2>2, FS_CardinalityType DEF NextNumber
  <2> DEFINE new == [id |-> r, version |-> v, number |-> NextNumber(e),
                     pinned |-> IF PriorDeployed(e, v) THEN "deployment" ELSE "skip"]
  <2>4. new \in Drafts /\ new # None
    BY <2>3, PromotionConstants DEF Drafts, Evidence
  <2>5. draft' = [draft EXCEPT ![e] = new] /\ lock' = [lock EXCEPT ![e] = "submit"]
    BY <2>1 DEF StartSubmit, Lock
  <2>6. UNCHANGED <<retired, requestVars, policyVars, deployVars>>
    BY <2>1 DEF StartSubmit, Lock
  <2> HIDE DEF new
  <2> QED BY <2>4, <2>5, <2>6 DEF TypeOK, requestVars, policyVars, deployVars
<1>4. CASE FinishSubmit(e)
  <2>1. draft[e] \in Drafts /\ draft[e] # None /\ lock[e] = "submit"
    BY <1>4 DEF TypeOK, FinishSubmit
  <2> DEFINE id == draft[e].id
             new == [env |-> e, version |-> draft[e].version,
                     number |-> draft[e].number, pinned |-> draft[e].pinned]
  <2>2. id \in Requests /\ new \in Submissions /\ new # None
    BY <2>1, PromotionConstants DEF Drafts, Submissions
  <2>3. /\ status' = [status EXCEPT ![id] = "review"]
        /\ request' = [request EXCEPT ![id] = new]
        /\ overtaken' \subseteq Deployments \cup Decisions
        /\ Unlock(e)
        /\ UNCHANGED <<retired, deciding, policyVars, pc, plan>>
    BY <1>4, AppendTyped DEF FinishSubmit
  <2> HIDE DEF id, new
  <2> QED BY <2>2, <2>3 DEF TypeOK, Unlock, policyVars
<1>5. CASE RefuseSubmit(e) \/ AbandonEnvironment(e)
  BY <1>5 DEF TypeOK, RefuseSubmit, AbandonEnvironment, Unlock, requestVars, policyVars,
              deployVars
<1> QED BY <1>1, <1>2, <1>3, <1>4, <1>5 DEF Environment

\* A decision on a request and a change of the policy keep the types.
LEMMA TypeGovernance ==
  ASSUME TypeOK, Decision \/ Policy
  PROVE  TypeOK'
<1>1. ASSUME NEW r \in Requests, NEW outcome \in Outcomes, StartDecide(r, outcome)
      PROVE  TypeOK'
  <2> DEFINE new == [request |-> r, outcome |-> outcome]
  <2>1. new \in Decisions /\ deciding' = new
    BY <1>1 DEF StartDecide, Decisions
  <2> HIDE DEF new
  <2> QED BY <1>1, <2>1 DEF TypeOK, StartDecide, environmentVars, policyVars, deployVars
<1>2. CASE FinishDecide
  <2>1. /\ deciding.request \in Requests /\ request[deciding.request] # None
        /\ deciding.outcome \in {"review", "approved", "rejected", "withdrawn"}
    BY <1>2, PromotionConstants DEF TypeOK, FinishDecide, Decisions
  <2>2. overtaken' \subseteq Deployments \cup Decisions
    BY <1>2 DEF TypeOK, FinishDecide, Executing
  <2> QED BY <1>2, <2>1, <2>2 DEF TypeOK, FinishDecide, environmentVars, policyVars
<1>3. CASE RefuseDecide \/ AbandonDecide
  BY <1>3 DEF TypeOK, RefuseDecide, AbandonDecide, environmentVars, policyVars
<1>4. CASE Policy
  <2>1. CASE FinishSavePolicy
    <3>1. overtaken' \subseteq Deployments \cup Decisions
      BY <2>1, AppendTyped DEF FinishSavePolicy
    <3> QED BY <2>1, <3>1, PromotionConstants DEF TypeOK, FinishSavePolicy, requestVars,
            environmentVars
  <2>2. CASE AbandonSavePolicy \/ \E p \in Policies : StartSavePolicy(p)
    BY <2>2, PromotionConstants DEF TypeOK, StartSavePolicy, AbandonSavePolicy, requestVars,
       environmentVars, deployVars
  <2> QED BY <1>4, <2>1, <2>2 DEF Policy
<1> QED BY <1>1, <1>2, <1>3, <1>4 DEF Decision

\* What the checks of a deploy or a rollback leave behind.
LEMMA CheckPlans ==
  ASSUME TypeOK, NEW d \in Deployments, NEW e \in Environments, NEW v \in Versions,
         NEW r \in Requests \cup {None}, Check(d, e, v, r)
  PROVE  /\ plan'[d] = [env |-> e, version |-> v, request |-> r]
         /\ plan'[d] \in Plans
         /\ TypeOK'
<1> DEFINE new == [env |-> e, version |-> v, request |-> r]
<1>1. new \in Plans /\ new # None
  BY PromotionConstants DEF Plans
<1>2. /\ pc' = [pc EXCEPT ![d] = "checked"]
      /\ plan' = [plan EXCEPT ![d] = new]
      /\ UNCHANGED <<requestVars, environmentVars, policyVars, overtaken>>
  BY DEF Check
<1>3. plan'[d] = new
  BY <1>2 DEF TypeOK
<1> HIDE DEF new
<1>4. TypeOK'
  BY <1>1, <1>2 DEF TypeOK, requestVars, environmentVars, policyVars
<1> QED BY <1>1, <1>3, <1>4 DEF new

\* Every step of a deploy or a rollback keeps the types.
LEMMA TypeDeployment ==
  ASSUME TypeOK, PlansSound, NEW d \in Deployments, Deployment(d)
  PROVE  TypeOK'
<1>1. CASE \E e \in Environments, v \in Versions :
             \/ CheckUngated(d, e, v)
             \/ \E r \in Requests : CheckGated(d, e, v, r)
             \/ CheckRollback(d, e, v)
  BY <1>1, CheckPlans DEF CheckUngated, CheckGated, CheckRollback
<1>2. CASE Claim(d) \/ Execute(d) \/ RefuseExecuted(d) \/ Abort(d)
  BY <1>2 DEF TypeOK, Claim, Execute, RefuseExecuted, Abort, requestVars, environmentVars,
              policyVars
<1>3. CASE CommitWithoutRequest(d)
  <2>1. overtaken' \subseteq Deployments \cup Decisions
    BY <1>3, AppendTyped DEF CommitWithoutRequest
  <2> QED BY <1>3, <2>1 DEF TypeOK, CommitWithoutRequest, Commit, environmentVars, policyVars
<1>4. CASE CommitExecuted(d)
  <2>1. plan[d] \in Plans /\ plan[d] # None /\ plan[d].request # None
    BY <1>4, PromotionConstants DEF TypeOK, CommitExecuted, PlansSound, Holding
  <2>2. plan[d].request \in Requests /\ status[plan[d].request] = "approved"
    BY <1>4, <2>1 DEF Plans, CommitExecuted, PlansSound, Holding
  <2>3. overtaken' \subseteq Deployments \cup Decisions
    BY <1>4, AppendTyped DEF CommitExecuted, TypeOK
  <2> QED BY <1>4, <2>1, <2>2, <2>3 DEF TypeOK, CommitExecuted, Commit, environmentVars,
              policyVars
<1>5. CASE BreakDeadlock(d)
  <2>1. CASE Abort(d)
    BY <1>2, <2>1
  <2>2. CASE AbandonDecide
    BY <2>2, TypeGovernance DEF Decision
  <2>3. CASE EnvironmentDeadlock(d) /\ AbandonEnvironment(plan[d].env)
    <3>1. plan[d].env \in Environments
      BY <2>3 DEF TypeOK, EnvironmentDeadlock, Plans
    <3> QED BY <2>3, <3>1, TypeEnvironment DEF Environment
  <2> QED BY <1>5, <2>1, <2>2, <2>3 DEF BreakDeadlock
<1> QED BY <1>1, <1>2, <1>3, <1>4, <1>5 DEF Deployment

-----------------------------------------------------------------------------
(* The invariant holds.                                                    *)

\* What depends on requests and Deployments alone.
RecordInv == PlansSound /\ RequestsSound /\ ExecutedOnce /\ NumberedInOrder /\ PromotedInOrder

\* What depends on who holds a lock.
LockInv == DraftsSound /\ LocksSound /\ HeldReadsStayTrue

CoreInv == TypeOK /\ RecordInv /\ LockInv

IInv == CoreInv /\ ChainSound

\* A fresh database satisfies the invariant.
LEMMA InvInit == Init => IInv
<1> SUFFICES ASSUME Init PROVE IInv
  OBVIOUS
<1>1. TypeOK
  BY TypeInit
<1>2. Committed = {} /\ Holding = {} /\ Appending = {}
  BY DEF Init, Committed, Holding, Appending, Executing
<1>3. \A e \in Environments : RequestsInto(e) = {}
  BY DEF Init, RequestsInto
<1>4. NumberedInOrder
  <2> SUFFICES ASSUME NEW e \in Environments
               PROVE  {request[r].number : r \in RequestsInto(e)}
                        = 1..Cardinality(RequestsInto(e))
    BY DEF NumberedInOrder
  <2>1. Cardinality(RequestsInto(e)) = 0 /\ RequestsInto(e) = {}
    BY <1>3, FS_EmptySet
  <2> QED BY <2>1
<1>5. PlansSound /\ RequestsSound /\ ExecutedOnce /\ PromotedInOrder
  BY <1>2 DEF Init, PlansSound, RequestsSound, ExecutedOnce, PromotedInOrder
<1>6. DraftsSound /\ LocksSound /\ HeldReadsStayTrue
  BY DEF Init, DraftsSound, LocksSound, HeldReadsStayTrue
<1>7. ChainSound
  BY <1>2 DEF ChainSound
<1> QED BY <1>1, <1>4, <1>5, <1>6, <1>7 DEF IInv, RecordInv, LockInv, CoreInv

\* What depends on requests and Deployments alone is kept by every step that leaves them.
LEMMA Steady ==
  ASSUME RecordInv, UNCHANGED <<status, request, pc, plan>>
  PROVE  /\ RecordInv'
         /\ \A e \in Environments, v \in Versions : PriorDeployed(e, v)' = PriorDeployed(e, v)
         /\ \A e \in Environments : NextNumber(e)' = NextNumber(e)
<1>1. Holding' = Holding /\ Committed' = Committed
  BY DEF Holding, Committed
<1>2. \A e : RequestsInto(e)' = RequestsInto(e)
  BY DEF RequestsInto
<1>3. \A e, v : DeployedTo(e, v)' = DeployedTo(e, v)
  BY <1>1 DEF DeployedTo
<1>4. \A e, v : PriorDeployed(e, v)' = PriorDeployed(e, v)
  BY <1>3 DEF PriorDeployed
<1>5. \A e, v : Placeable(e, v)' = Placeable(e, v)
  BY <1>3, <1>4 DEF Placeable
<1>6. PlansSound'
  BY <1>1, <1>5 DEF RecordInv, PlansSound
<1>7. RequestsSound'
  BY <1>4 DEF RecordInv, RequestsSound
<1>8. ExecutedOnce'
  BY <1>1 DEF RecordInv, ExecutedOnce
<1>9. NumberedInOrder'
  BY <1>2 DEF RecordInv, NumberedInOrder
<1>10. PromotedInOrder'
  BY <1>1, <1>2, <1>4 DEF RecordInv, PromotedInOrder
<1> QED BY <1>1, <1>2, <1>4, <1>6, <1>7, <1>8, <1>9, <1>10 DEF RecordInv, NextNumber

\* So is everything, where nothing is locked or unlocked either.
LEMMA Unmoved ==
  ASSUME CoreInv, TypeOK', UNCHANGED <<status, request, pc, plan, retired, lock, draft>>,
         overtaken' = {}
  PROVE  CoreInv'
<1>1. TypeOK /\ RecordInv /\ LockInv
  BY DEF CoreInv
<1>2. /\ RecordInv'
      /\ \A f \in Environments, w \in Versions : PriorDeployed(f, w)' = PriorDeployed(f, w)
      /\ \A f \in Environments : NextNumber(f)' = NextNumber(f)
  BY <1>1, Steady
<1>3. DraftsSound'
  <2>1. \A f \in Environments : draft[f] # None => draft[f].version \in Versions
    BY <1>1 DEF TypeOK, Drafts
  <2> QED BY <1>1, <1>2, <2>1 DEF LockInv, DraftsSound
<1>4. LocksSound' /\ HeldReadsStayTrue'
  BY <1>1, <1>2 DEF LockInv, LocksSound, HeldReadsStayTrue
<1> QED BY <1>2, <1>3, <1>4 DEF CoreInv, LockInv

\* The chain's lock lets no event follow a head another transaction holds.
LEMMA AppendUnderLock ==
  ASSUME HeldReadsStayTrue, AuditFree, Append
  PROVE  overtaken' = {}
BY DEF HeldReadsStayTrue, AuditFree, Append

\* A deploy that executes has the chain alone, and so has a decision.
LEMMA SoleWriter ==
  ASSUME TypeOK, ChainSound
  PROVE  /\ \A d \in Executing : Appending = {d} /\ Executing = {d} /\ deciding = None
         /\ deciding # None => Executing = {}
<1>1. deciding # None => deciding \notin Deployments
  BY PromotionConstants DEF TypeOK
<1>2. Executing \subseteq Deployments /\ Executing \subseteq Appending
  BY DEF Executing, Appending
<1> QED BY <1>1, <1>2 DEF ChainSound, Appending

\* A transaction on an Environment other than a submission's two ends.
LEMMA InvEnvironment ==
  ASSUME IInv, NEW e \in Environments,
         \/ StartRename(e) \/ FinishRename(e) \/ StartRetire(e) \/ FinishRetire(e)
         \/ RefuseSubmit(e) \/ AbandonEnvironment(e)
  PROVE  CoreInv'
<1>1. TypeOK /\ RecordInv /\ LockInv
  BY DEF IInv, CoreInv
<1>2. TypeOK'
  BY <1>1, TypeEnvironment DEF Environment
<1>3. UNCHANGED <<status, request, pc, plan>>
  BY DEF StartRename, FinishRename, StartRetire, FinishRetire, RefuseSubmit, AbandonEnvironment,
         Lock, requestVars, deployVars
<1>4. /\ RecordInv'
      /\ \A f \in Environments, v \in Versions : PriorDeployed(f, v)' = PriorDeployed(f, v)
      /\ \A f \in Environments : NextNumber(f)' = NextNumber(f)
  BY <1>1, <1>3, Steady
<1>5. overtaken' = {}
  <2>1. CASE FinishRename(e) \/ FinishRetire(e)
    BY <1>1, <2>1, AppendUnderLock DEF LockInv, FinishRename, FinishRetire
  <2>2. CASE StartRename(e) \/ StartRetire(e) \/ RefuseSubmit(e) \/ AbandonEnvironment(e)
    BY <1>1, <2>2 DEF LockInv, HeldReadsStayTrue, StartRename, StartRetire, RefuseSubmit,
                      AbandonEnvironment, Lock, deployVars
  <2> QED BY <2>1, <2>2
<1>6. \A f \in Environments : draft'[f] # None => draft'[f] = draft[f]
  BY <1>1 DEF TypeOK, StartRename, FinishRename, StartRetire, FinishRetire, RefuseSubmit,
              AbandonEnvironment, Unlock
<1>7. DraftsSound'
  <2>1. \A f \in Environments : draft[f] # None => draft[f].version \in Versions
    BY <1>1 DEF TypeOK, Drafts
  <2> QED BY <1>1, <1>3, <1>4, <1>6, <2>1 DEF LockInv, DraftsSound
<1>8. LocksSound'
  BY <1>1 DEF TypeOK, LockInv, LocksSound, StartRename, FinishRename, StartRetire, FinishRetire,
     RefuseSubmit, AbandonEnvironment, Lock, Unlock
<1>9. HeldReadsStayTrue'
  <2>1. \A f \in Environments : draft'[f] # None => f \notin retired'
    BY <1>2, <1>8 DEF TypeOK, LocksSound
  <2> QED BY <1>1, <1>4, <1>5, <1>6, <2>1 DEF LockInv, HeldReadsStayTrue
<1> QED BY <1>2, <1>4, <1>7, <1>8, <1>9 DEF IInv, LockInv, CoreInv

\* A submission that begins reads its evidence and its number.
LEMMA InvStartSubmit ==
  ASSUME IInv, NEW e \in Environments, NEW v \in Versions, NEW r \in Requests,
         NEW skip \in BOOLEAN, StartSubmit(e, v, r, skip)
  PROVE  CoreInv'
<1>1. TypeOK /\ RecordInv /\ LockInv
  BY DEF IInv, CoreInv
<1>2. TypeOK'
  BY <1>1, TypeEnvironment DEF Environment
<1> DEFINE new == [id |-> r, version |-> v, number |-> NextNumber(e),
                   pinned |-> IF PriorDeployed(e, v) THEN "deployment" ELSE "skip"]
<1>3. /\ draft' = [draft EXCEPT ![e] = new]
      /\ lock' = [lock EXCEPT ![e] = "submit"]
      /\ Prior[e] # None /\ e \notin retired /\ lock[e] = "free"
      /\ Unused(r)
      /\ UNCHANGED <<retired, status, request, pc, plan, overtaken>>
  BY DEF StartSubmit, Lock, requestVars, deployVars
<1>4. /\ RecordInv'
      /\ \A f \in Environments, w \in Versions : PriorDeployed(f, w)' = PriorDeployed(f, w)
      /\ \A f \in Environments : NextNumber(f)' = NextNumber(f)
  BY <1>1, <1>3, Steady
<1>5. /\ draft'[e] = new
      /\ \A f \in Environments \ {e} : draft'[f] = draft[f]
  BY <1>1, <1>3 DEF TypeOK
<1>6. /\ new.id = r /\ new.version = v /\ new.number = NextNumber(e)
      /\ new.pinned = "deployment" => PriorDeployed(e, v)
  OBVIOUS
<1> HIDE DEF new
<1>7. DraftsSound'
  <2>1. \A f \in Environments : draft[f] # None => draft[f].version \in Versions
    BY <1>1 DEF TypeOK, Drafts
  <2> QED BY <1>1, <1>3, <1>4, <1>5, <1>6, <2>1 DEF LockInv, DraftsSound, Unused
<1>8. LocksSound'
  BY <1>1, <1>3 DEF TypeOK, LockInv, LocksSound
<1>9. HeldReadsStayTrue'
  BY <1>1, <1>3, <1>4, <1>5, <1>6 DEF LockInv, HeldReadsStayTrue
<1> QED BY <1>2, <1>4, <1>7, <1>8, <1>9 DEF IInv, LockInv, CoreInv

\* A submission that ends has the next number and evidence that still holds.
LEMMA InvFinishSubmit ==
  ASSUME IInv, NEW e \in Environments, FinishSubmit(e)
  PROVE  CoreInv'
<1>1. TypeOK /\ RecordInv /\ LockInv
  BY DEF IInv, CoreInv
<1>2. TypeOK'
  BY <1>1, TypeEnvironment DEF Environment
<1>3. draft[e] \in Drafts /\ draft[e] # None
  BY <1>1 DEF TypeOK, FinishSubmit
<1> DEFINE id == draft[e].id
           new == [env |-> e, version |-> draft[e].version,
                   number |-> draft[e].number, pinned |-> draft[e].pinned]
<1>4. id \in Requests /\ draft[e].version \in Versions
  BY <1>3 DEF Drafts
<1>5. /\ status' = [status EXCEPT ![id] = "review"]
      /\ request' = [request EXCEPT ![id] = new]
      /\ Append /\ AuditFree /\ Unlock(e)
      /\ UNCHANGED <<retired, pc, plan>>
  BY DEF FinishSubmit
<1>6. /\ new.env = e /\ new.number = draft[e].number /\ new.pinned = draft[e].pinned
      /\ new.version = draft[e].version /\ new # None
  BY <1>3, PromotionConstants DEF Submissions, Drafts
<1>7. /\ status[id] = "absent" /\ Prior[e] # None
      /\ draft[e].pinned = "deployment" => PriorDeployed(e, draft[e].version)
      /\ draft[e].number = NextNumber(e)
  BY <1>1, <1>3 DEF LockInv, DraftsSound, HeldReadsStayTrue
<1> HIDE DEF id, new
<1>8. /\ request[id] = None
      /\ status'[id] = "review" /\ request'[id] = new
      /\ \A r \in Requests \ {id} : status'[r] = status[r] /\ request'[r] = request[r]
  BY <1>1, <1>4, <1>5, <1>7 DEF TypeOK
<1>9. Holding' = Holding /\ Committed' = Committed
  BY <1>5 DEF Holding, Committed
<1>10. \A f, w : DeployedTo(f, w)' = DeployedTo(f, w)
  BY <1>5, <1>9 DEF DeployedTo
<1>11. \A f, w : PriorDeployed(f, w)' = PriorDeployed(f, w) /\ Placeable(f, w)' = Placeable(f, w)
  BY <1>10 DEF PriorDeployed, Placeable
<1>12. /\ RequestsInto(e)' = RequestsInto(e) \cup {id} /\ id \notin RequestsInto(e)
       /\ \A f \in Environments \ {e} : RequestsInto(f)' = RequestsInto(f)
  BY <1>4, <1>6, <1>8 DEF RequestsInto
<1>13. PlansSound'
  <2>1. \A d \in Deployments : plan[d] # None => plan[d].request \in Requests \cup {None}
    BY <1>1 DEF TypeOK, Plans
  <2>2. \A d \in Deployments : plan[d] # None /\ plan[d].request # None => plan[d].request # id
    BY <1>1, <1>8 DEF RecordInv, PlansSound
  <2> QED BY <1>1, <1>5, <1>8, <1>9, <1>11, <2>1, <2>2 DEF RecordInv, PlansSound
<1>14. RequestsSound'
  BY <1>1, <1>6, <1>7, <1>8, <1>11 DEF RecordInv, RequestsSound
<1>15. ExecutedOnce'
  <2>1. \A d \in Committed : plan[d].request # None =>
          plan[d].request # id /\ plan[d].request \in Requests
    BY <1>1, <1>7 DEF TypeOK, Plans, Committed, RecordInv, ExecutedOnce
  <2> QED BY <1>1, <1>5, <1>7, <1>8, <1>9, <2>1, PromotionConstants DEF RecordInv, ExecutedOnce
<1>16. NumberedInOrder' /\ NextNumber(e) \in Nat
  <2>1. IsFiniteSet(RequestsInto(e))
    BY FiniteRequests, FS_Subset DEF RequestsInto
  <2>2. /\ Cardinality(RequestsInto(e)) \in Nat
        /\ Cardinality(RequestsInto(e)') = Cardinality(RequestsInto(e)) + 1
    BY <1>12, <2>1, FS_AddElement, FS_CardinalityType
  <2>3. {request'[r].number : r \in RequestsInto(e)'}
          = {request[r].number : r \in RequestsInto(e)} \cup {NextNumber(e)}
    BY <1>4, <1>6, <1>7, <1>8, <1>12 DEF RequestsInto
  <2>4. {request'[r].number : r \in RequestsInto(e)'} = 1..Cardinality(RequestsInto(e)')
    BY <1>1, <2>2, <2>3 DEF RecordInv, NumberedInOrder, NextNumber
  <2>5. ASSUME NEW f \in Environments \ {e}
        PROVE  {request'[r].number : r \in RequestsInto(f)'} = 1..Cardinality(RequestsInto(f)')
    <3>1. \A r \in RequestsInto(f) : request'[r] = request[r]
      BY <1>4, <1>6, <1>8, <1>12 DEF RequestsInto
    <3>2. RequestsInto(f)' = RequestsInto(f)
      BY <1>12
    <3> QED BY <1>1, <3>1, <3>2 DEF RecordInv, NumberedInOrder
  <2> QED BY <2>2, <2>4, <2>5 DEF NumberedInOrder, NextNumber
<1>17. PromotedInOrder'
  <2>1. \A f \in Environments : \A r \in RequestsInto(f) :
          status[r] = "executed" =>
            r \in RequestsInto(f)' /\ status'[r] = "executed" /\ request'[r] = request[r]
    BY <1>7, <1>8, <1>12 DEF RequestsInto
  <2>2. \A d \in Committed : plan[d].env \in Environments
    BY <1>1, PromotionConstants DEF TypeOK, Plans, Committed
  <2> QED BY <1>1, <1>5, <1>9, <1>11, <2>1, <2>2 DEF RecordInv, PromotedInOrder
<1>18. /\ draft'[e] = None /\ lock'[e] = "free"
       /\ \A f \in Environments \ {e} : draft'[f] = draft[f] /\ lock'[f] = lock[f]
  BY <1>1, <1>5 DEF TypeOK, Unlock
<1>19. DraftsSound'
  <2>1. \A f \in Environments \ {e} : draft[f] # None =>
          draft[f].id # id /\ draft[f].id \in Requests /\ draft[f].version \in Versions
    BY <1>1, <1>3 DEF LockInv, DraftsSound, TypeOK, Drafts, id
  <2> QED BY <1>1, <1>8, <1>11, <1>18, <2>1 DEF LockInv, DraftsSound
<1>20. LocksSound'
  BY <1>1, <1>5, <1>18 DEF LockInv, LocksSound
<1>21. HeldReadsStayTrue'
  <2>1. overtaken' = {}
    BY <1>1, <1>5, AppendUnderLock DEF LockInv
  <2> QED BY <1>1, <1>5, <1>12, <1>18, <2>1 DEF LockInv, HeldReadsStayTrue, NextNumber
<1> QED BY <1>2, <1>13, <1>14, <1>15, <1>16, <1>17, <1>19, <1>20, <1>21
        DEF IInv, RecordInv, LockInv, CoreInv

\* A decision touches no submission in flight and no request that was executed.
LEMMA InvFinishDecide ==
  ASSUME IInv, FinishDecide
  PROVE  CoreInv'
<1>1. TypeOK /\ RecordInv /\ LockInv
  BY DEF IInv, CoreInv
<1>2. TypeOK'
  BY <1>1, TypeGovernance DEF Decision
<1>0. PICK r \in Requests, outcome \in {"review", "approved", "rejected", "withdrawn"} :
        deciding.request = r /\ deciding.outcome = outcome
  BY <1>1, PromotionConstants DEF TypeOK, FinishDecide, Decisions
<1>3. /\ status[r] = "review" /\ status' = [status EXCEPT ![r] = outcome]
      /\ UNCHANGED <<request, retired, lock, draft, pc, plan>>
  BY <1>0 DEF FinishDecide, environmentVars
<1>4. status'[r] = outcome /\ \A q \in Requests \ {r} : status'[q] = status[q]
  BY <1>1, <1>3 DEF TypeOK
<1>5. Holding' = Holding /\ Committed' = Committed
  BY <1>3 DEF Holding, Committed
<1>6. \A e : RequestsInto(e)' = RequestsInto(e)
  BY <1>3 DEF RequestsInto
<1>7. \A e, v : DeployedTo(e, v)' = DeployedTo(e, v)
  BY <1>3, <1>5 DEF DeployedTo
<1>8. \A e, v : PriorDeployed(e, v)' = PriorDeployed(e, v) /\ Placeable(e, v)' = Placeable(e, v)
  BY <1>7 DEF PriorDeployed, Placeable
<1>9. \A d \in Deployments : plan[d] # None => plan[d].request \in Requests \cup {None}
  BY <1>1 DEF TypeOK, Plans
<1>10. PlansSound'
  BY <1>1, <1>3, <1>4, <1>5, <1>8, <1>9 DEF RecordInv, PlansSound
<1>11. RequestsSound' /\ NumberedInOrder'
  BY <1>1, <1>3, <1>6, <1>8 DEF RecordInv, RequestsSound, NumberedInOrder
<1>12. ExecutedOnce'
  BY <1>1, <1>3, <1>4, <1>5 DEF RecordInv, ExecutedOnce
<1>13. PromotedInOrder'
  <2>1. \A e : \A q \in RequestsInto(e) : status[q] = "executed" => status'[q] = "executed"
    BY <1>3, <1>4 DEF RequestsInto
  <2> QED BY <1>1, <1>3, <1>5, <1>6, <1>8, <2>1 DEF RecordInv, PromotedInOrder
<1>14. DraftsSound'
  <2>1. \A e \in Environments : draft[e] # None => draft[e].id \in Requests
    BY <1>1 DEF TypeOK, Drafts
  <2> QED BY <1>1, <1>3, <1>4, <1>8, <2>1 DEF LockInv, DraftsSound
<1>15. LocksSound' /\ HeldReadsStayTrue'
  <2>1. Executing = {}
    BY <1>1, SoleWriter DEF IInv, FinishDecide
  <2>2. overtaken' = {}
    BY <1>1, <2>1 DEF LockInv, HeldReadsStayTrue, FinishDecide
  <2> QED BY <1>1, <1>3, <1>6, <2>2 DEF LockInv, LocksSound, HeldReadsStayTrue, NextNumber
<1> QED BY <1>2, <1>10, <1>11, <1>12, <1>13, <1>14, <1>15 DEF IInv, RecordInv, LockInv, CoreInv

\* A decision that begins, or is given up, leaves what is recorded.
LEMMA InvOpenDecide ==
  ASSUME IInv,
         \/ \E r \in Requests, outcome \in Outcomes : StartDecide(r, outcome)
         \/ RefuseDecide \/ AbandonDecide
  PROVE  CoreInv'
<1>1. TypeOK /\ RecordInv /\ LockInv
  BY DEF IInv, CoreInv
<1>2. TypeOK'
  BY <1>1, TypeGovernance DEF Decision
<1>3. /\ UNCHANGED <<status, request, pc, plan, retired, lock, draft>>
      /\ overtaken' = {}
  BY <1>1 DEF StartDecide, RefuseDecide, AbandonDecide, environmentVars, deployVars, LockInv,
              HeldReadsStayTrue
<1> QED BY <1>2, <1>3, Unmoved DEF IInv

\* A policy that is saved, however late, touches nothing that was recorded.
LEMMA InvPolicy ==
  ASSUME IInv, Policy
  PROVE  CoreInv'
<1>1. TypeOK /\ RecordInv /\ LockInv
  BY DEF IInv, CoreInv
<1>2. TypeOK'
  BY <1>1, TypeGovernance
<1>3. UNCHANGED <<status, request, pc, plan, retired, lock, draft>>
  BY DEF Policy, StartSavePolicy, FinishSavePolicy, AbandonSavePolicy, requestVars,
         environmentVars, deployVars
<1>4. overtaken' = {}
  <2>1. CASE FinishSavePolicy
    BY <1>1, <2>1, AppendUnderLock DEF LockInv, FinishSavePolicy
  <2>2. CASE UNCHANGED overtaken
    BY <1>1, <2>2 DEF LockInv, HeldReadsStayTrue
  <2> QED BY <2>1, <2>2 DEF Policy, StartSavePolicy, AbandonSavePolicy, deployVars
<1> QED BY <1>2, <1>3, <1>4, Unmoved DEF IInv

\* A step of a deploy that commits nothing leaves what is recorded and what is locked.
LEMMA Uncommitted ==
  ASSUME IInv, Committed' = Committed, \A d \in Committed : plan'[d] = plan[d],
         UNCHANGED <<status, request, retired, lock, draft>>, overtaken' = {}
  PROVE  /\ RequestsSound' /\ ExecutedOnce' /\ NumberedInOrder' /\ PromotedInOrder' /\ LockInv'
         /\ \A e, v : DeployedTo(e, v)' = DeployedTo(e, v)
         /\ \A e, v : Placeable(e, v)' = Placeable(e, v)
<1>1. RecordInv /\ LockInv
  BY DEF IInv, CoreInv
<1>2. \A e : RequestsInto(e)' = RequestsInto(e)
  BY DEF RequestsInto
<1>3. \A e, v : DeployedTo(e, v)' = DeployedTo(e, v)
  BY DEF DeployedTo
<1>4. \A e, v : PriorDeployed(e, v)' = PriorDeployed(e, v) /\ Placeable(e, v)' = Placeable(e, v)
  BY <1>3 DEF PriorDeployed, Placeable
<1>5. RequestsSound' /\ NumberedInOrder'
  BY <1>1, <1>2, <1>4 DEF RecordInv, RequestsSound, NumberedInOrder
<1>6. ExecutedOnce'
  BY <1>1 DEF RecordInv, ExecutedOnce
<1>7. PromotedInOrder'
  BY <1>1, <1>2, <1>4 DEF RecordInv, PromotedInOrder
<1>8. LockInv'
  BY <1>1, <1>2, <1>4 DEF LockInv, DraftsSound, LocksSound, HeldReadsStayTrue, NextNumber
<1> QED BY <1>3, <1>4, <1>5, <1>6, <1>7, <1>8

\* The checks of a deploy or a rollback establish what its plan rests on.
LEMMA InvCheck ==
  ASSUME IInv, NEW d \in Deployments, NEW e \in Environments, NEW v \in Versions,
         \/ CheckUngated(d, e, v)
         \/ \E r \in Requests : CheckGated(d, e, v, r)
         \/ CheckRollback(d, e, v)
  PROVE  CoreInv'
<1>1. TypeOK /\ RecordInv /\ LockInv
  BY DEF IInv, CoreInv
<1>2. PICK r \in Requests \cup {None} :
        /\ Check(d, e, v, r)
        /\ r = None => Placeable(e, v)
        /\ r # None => /\ status[r] = "approved"
                       /\ request[r].env = e
                       /\ request[r].version = v
  <2>1. CASE CheckUngated(d, e, v) \/ CheckRollback(d, e, v)
    <3>1. Placeable(e, v) /\ Check(d, e, v, None)
      BY <2>1, ZenonT(30) DEF CheckUngated, CheckRollback, OrderHolds, Placeable
    <3> QED BY <3>1
  <2>2. CASE \E r \in Requests : CheckGated(d, e, v, r)
    <3>1. PICK r \in Requests : CheckGated(d, e, v, r)
      BY <2>2
    <3>2. /\ Check(d, e, v, r) /\ status[r] = "approved"
          /\ request[r].env = e /\ request[r].version = v
          /\ r # None
      BY <3>1, PromotionConstants DEF CheckGated
    <3> QED BY <3>2
  <2> QED BY <2>1, <2>2
<1>3. /\ TypeOK' /\ plan'[d] = [env |-> e, version |-> v, request |-> r]
      /\ plan'[d] \in Plans
  BY <1>1, <1>2, CheckPlans
<1>4. /\ pc[d] = "idle" /\ pc'[d] = "checked"
      /\ \A o \in Deployments \ {d} : pc'[o] = pc[o] /\ plan'[o] = plan[o]
      /\ UNCHANGED <<status, request, retired, lock, draft, overtaken>>
  BY <1>1, <1>2 DEF TypeOK, Check, requestVars, environmentVars
<1>5. Committed' = Committed /\ Holding' = Holding /\ d \notin Committed \cup Holding
  BY <1>4 DEF Committed, Holding
<1>6. /\ RequestsSound' /\ ExecutedOnce' /\ NumberedInOrder' /\ PromotedInOrder' /\ LockInv'
      /\ \A f, w : Placeable(f, w)' = Placeable(f, w)
  <2>1. overtaken' = {} /\ \A o \in Committed : plan'[o] = plan[o]
    BY <1>1, <1>4, <1>5 DEF LockInv, HeldReadsStayTrue, Committed
  <2> QED BY <1>4, <1>5, <2>1, Uncommitted
<1>7. r # None => request[r] # None
  BY <1>1, <1>2 DEF TypeOK
<1>8. PlansSound'
  <2>1. /\ \A d1, d2 \in Holding' : plan'[d1].request = plan'[d2].request => d1 = d2
        /\ \A o \in Holding' : plan'[o].request # None
    BY <1>1, <1>4, <1>5 DEF RecordInv, PlansSound, Holding
  <2>2. plan'[d].env = e /\ plan'[d].version = v /\ plan'[d].request = r
    BY <1>3
  <2>3. ASSUME NEW o \in Deployments, plan'[o] # None, plan'[o].request # None
        PROVE  LET q == plan'[o].request IN
               /\ request'[q] # None
               /\ request'[q].env = plan'[o].env
               /\ request'[q].version = plan'[o].version
               /\ o \in Holding' => status'[q] = "approved"
    BY <1>1, <1>2, <1>4, <1>5, <1>7, <2>2, <2>3 DEF RecordInv, PlansSound
  <2>4. ASSUME NEW o \in Deployments, pc'[o] = "checked", plan'[o].request = None
        PROVE  Placeable(plan'[o].env, plan'[o].version)
    BY <1>1, <1>2, <1>4, <2>2, <2>4 DEF RecordInv, PlansSound
  <2>5. \A o \in Deployments : pc'[o] = "checked" /\ plan'[o].request = None =>
          Placeable(plan[o].env, plan[o].version)'
    BY <1>6, <2>4
  <2> QED BY <2>1, <2>3, <2>5 DEF PlansSound
<1> QED BY <1>3, <1>6, <1>8 DEF IInv, RecordInv, CoreInv

\* Between its checks and its commit a deploy takes its request, loses it or rolls back.
LEMMA InvProceed ==
  ASSUME IInv, NEW d \in Deployments,
         Claim(d) \/ Execute(d) \/ RefuseExecuted(d) \/ Abort(d)
  PROVE  CoreInv'
<1>1. TypeOK /\ RecordInv /\ LockInv
  BY DEF IInv, CoreInv
<1>2. TypeOK'
  BY <1>1, TypeDeployment DEF RecordInv, Deployment
<1>3. /\ pc[d] \in {"checked", "claimed", "executing"} /\ plan' = plan
      /\ pc'[d] \in {"claimed", "executing", "refused", "aborted"}
      /\ \A o \in Deployments \ {d} : pc'[o] = pc[o]
      /\ UNCHANGED <<status, request, retired, lock, draft>>
  BY <1>1 DEF TypeOK, Claim, Execute, RefuseExecuted, Abort, requestVars, environmentVars
<1>4. overtaken' = {}
  BY <1>1 DEF LockInv, HeldReadsStayTrue, Claim, Execute, RefuseExecuted, Abort
<1>5. Committed' = Committed
  BY <1>3 DEF Committed
<1>6. /\ RequestsSound' /\ ExecutedOnce' /\ NumberedInOrder' /\ PromotedInOrder' /\ LockInv'
      /\ \A f, w : Placeable(f, w)' = Placeable(f, w)
  BY <1>3, <1>4, <1>5, Uncommitted
<1>7. PlansSound'
  <2>1. CASE Claim(d)
    <3>1. /\ plan[d].request # None /\ status[plan[d].request] = "approved"
          /\ \A o \in Holding : plan[o].request # plan[d].request
          /\ Holding' = Holding \cup {d}
      BY <1>1, <1>3, <2>1 DEF TypeOK, Claim, StillApproved, RowHeld, Holding
    <3>2. pc'[d] = "claimed"
      BY <1>1, <2>1 DEF TypeOK, Claim
    <3> QED BY <1>1, <1>3, <1>6, <3>1, <3>2 DEF RecordInv, PlansSound
  <2>2. CASE ~Claim(d)
    <3>1. Holding' \subseteq Holding /\ pc'[d] # "checked"
      BY <1>1, <1>3, <2>2 DEF TypeOK, Holding, Execute, RefuseExecuted, Abort
    <3> QED BY <1>1, <1>3, <1>6, <3>1 DEF RecordInv, PlansSound
  <2> QED BY <2>1, <2>2
<1> QED BY <1>2, <1>6, <1>7 DEF IInv, RecordInv, CoreInv

\* A Deployment that commits is placed: what it rests on is there, and it alone executes its
\* request.
LEMMA InvCommit ==
  ASSUME IInv, NEW d \in Deployments, CommitWithoutRequest(d) \/ CommitExecuted(d)
  PROVE  CoreInv'
<1>1. TypeOK /\ RecordInv /\ LockInv
  BY DEF IInv, CoreInv
<1>2. TypeOK'
  BY <1>1, TypeDeployment DEF RecordInv, Deployment
<1> DEFINE r == plan[d].request
<1>3. /\ pc[d] \in {"checked", "executing"} /\ plan' = plan
      /\ pc[d] = "executing" <=> r # None
      /\ pc'[d] = "committed"
      /\ \A o \in Deployments \ {d} : pc'[o] = pc[o]
      /\ UNCHANGED <<request, retired, lock, draft>>
  BY <1>1 DEF TypeOK, CommitWithoutRequest, CommitExecuted, Commit, environmentVars,
              RecordInv, PlansSound, Holding
<1>4. plan[d] # None /\ plan[d] \in Plans
  BY <1>1, <1>3 DEF TypeOK
<1>5. /\ r # None => r \in Requests /\ status[r] = "approved" /\ request[r] # None
      /\ r # None => request[r].env = plan[d].env /\ request[r].version = plan[d].version
      /\ r = None => Placeable(plan[d].env, plan[d].version)
  BY <1>1, <1>3, <1>4 DEF RecordInv, PlansSound, Plans, Holding
<1>6. /\ r # None => status'[r] = "executed"
      /\ \A q \in Requests : q # r => status'[q] = status[q]
  BY <1>1, <1>3, <1>5 DEF TypeOK, CommitWithoutRequest, CommitExecuted
<1>7. Committed' = Committed \cup {d} /\ d \notin Committed /\ Holding' = Holding \ {d}
  BY <1>3 DEF Committed, Holding
<1>8. overtaken' = {}
  <2>1. CASE CommitWithoutRequest(d)
    BY <1>1, <2>1, AppendUnderLock DEF LockInv, CommitWithoutRequest
  <2>2. CASE CommitExecuted(d)
    <3>1. Appending = {d}
      BY <1>1, <2>2, SoleWriter DEF IInv, Executing, CommitExecuted, CoreInv
    <3> QED BY <1>1, <2>2, <3>1 DEF LockInv, HeldReadsStayTrue, CommitExecuted
  <2> QED BY <2>1, <2>2
<1>9. \A e : RequestsInto(e)' = RequestsInto(e)
  BY <1>3 DEF RequestsInto
<1>10. \A e, v : DeployedTo(e, v) => DeployedTo(e, v)'
  BY <1>3, <1>7 DEF DeployedTo
<1>11. \A e, v : /\ PriorDeployed(e, v) => PriorDeployed(e, v)'
                 /\ Placeable(e, v) => Placeable(e, v)'
  BY <1>10 DEF PriorDeployed, Placeable
<1>12. \A o \in Deployments : plan[o] # None => plan[o] \in Plans
  BY <1>1 DEF TypeOK
<1> HIDE DEF r
<1>13. PlansSound'
  <2>1. /\ \A d1, d2 \in Holding' : plan'[d1].request = plan'[d2].request => d1 = d2
        /\ \A o \in Holding' : plan'[o].request # None
    BY <1>1, <1>3, <1>7 DEF RecordInv, PlansSound
  <2>2. ASSUME NEW o \in Deployments, plan[o] # None, plan[o].request # None
        PROVE  /\ request[plan[o].request] # None
               /\ request[plan[o].request].env = plan[o].env
               /\ request[plan[o].request].version = plan[o].version
               /\ o \in Holding' => status'[plan[o].request] = "approved"
    <3>1. CASE o \in Holding'
      <4>1. o \in Holding /\ o # d /\ plan[o].request \in Requests
        BY <1>7, <1>12, <2>2, <3>1 DEF Plans
      <4>2. r # None => d \in Holding
        BY <1>3 DEF Holding
      <4>3. plan[o].request # r
        BY <1>1, <2>2, <4>1, <4>2 DEF RecordInv, PlansSound, r
      <4> QED BY <1>1, <1>6, <2>2, <4>1, <4>3 DEF RecordInv, PlansSound
    <3>2. CASE o \notin Holding'
      BY <1>1, <2>2, <3>2 DEF RecordInv, PlansSound
    <3> QED BY <3>1, <3>2
  <2>3. \A o \in Deployments : pc'[o] = "checked" /\ plan[o].request = None =>
          Placeable(plan[o].env, plan[o].version)
    BY <1>1, <1>3 DEF RecordInv, PlansSound
  <2> QED BY <1>3, <1>11, <2>1, <2>2, <2>3 DEF PlansSound
<1>14. RequestsSound' /\ NumberedInOrder'
  BY <1>1, <1>3, <1>9, <1>11 DEF RecordInv, RequestsSound, NumberedInOrder
<1>15. ExecutedOnce'
  <2>1. \A o \in Committed : plan[o].request # None =>
          plan[o].request \in Requests /\ plan[o].request # r
    BY <1>1, <1>5, <1>12 DEF RecordInv, ExecutedOnce, TypeOK, Committed, Plans
  <2>2. \A q \in Requests : status'[q] = "executed" <=>
          \E o \in Committed' : plan[o].request = q
    BY <1>1, <1>5, <1>6, <1>7, <2>1, PromotionConstants DEF RecordInv, ExecutedOnce, r
  <2>3. \A d1, d2 \in Committed' :
          plan[d1].request = plan[d2].request /\ plan[d1].request # None => d1 = d2
    BY <1>1, <1>7, <2>1 DEF RecordInv, ExecutedOnce, r
  <2>4. \A o \in Committed' : plan[o].request # None =>
          /\ request[plan[o].request].env = plan[o].env
          /\ request[plan[o].request].version = plan[o].version
    BY <1>1, <1>5, <1>7 DEF RecordInv, ExecutedOnce, r
  <2> QED BY <1>3, <2>2, <2>3, <2>4 DEF ExecutedOnce
<1>16. PromotedInOrder'
  <2>1. \A e, v : Waived(e, v) => Waived(e, v)'
    <3>1. \A q \in Requests : status[q] = "executed" => status'[q] = "executed"
      BY <1>5, <1>6, PromotionConstants
    <3>2. ASSUME NEW e, NEW v, Waived(e, v) PROVE Waived(e, v)'
      <4>1. PICK q \in RequestsInto(e) :
              status[q] = "executed" /\ request[q].version = v /\ request[q].pinned = "skip"
        BY <3>2 DEF Waived
      <4>2. q \in RequestsInto(e)' /\ status'[q] = "executed" /\ request' = request
        <5>1. q \in RequestsInto(e)'
          BY <1>9, <4>1
        <5>2. status'[q] = "executed"
          BY <3>1, <4>1 DEF RequestsInto
        <5> QED BY <1>3, <5>1, <5>2
      <4> QED BY <4>1, <4>2 DEF Waived
    <3> QED BY <3>2
  <2>2. \A o \in Committed :
          Prior[plan[o].env] # None =>
            PriorDeployed(plan[o].env, plan[o].version) \/ Waived(plan[o].env, plan[o].version)
    BY <1>1 DEF RecordInv, PromotedInOrder, Waived
  <2>3. Prior[plan[d].env] # None =>
          \/ PriorDeployed(plan[d].env, plan[d].version)
          \/ Waived(plan[d].env, plan[d].version)'
    <3>1. CASE r = None
      <4>1. DeployedTo(plan[d].env, plan[d].version) =>
              \E o \in Committed : plan[o].env = plan[d].env /\ plan[o].version = plan[d].version
        BY DEF DeployedTo
      <4>2. Waived(plan[d].env, plan[d].version) => Waived(plan[d].env, plan[d].version)'
        BY <1>3, <2>1
      <4> QED BY <1>3, <1>5, <2>2, <3>1, <4>1, <4>2 DEF Placeable
    <3>2. CASE r # None
      <4>1. request[r].pinned \in Evidence
        BY <1>1, <1>5, <3>2 DEF TypeOK, Submissions
      <4>2. CASE request[r].pinned = "deployment"
        BY <1>1, <1>5, <3>2, <4>2 DEF RecordInv, RequestsSound
      <4>3. CASE request[r].pinned = "skip"
        BY <1>3, <1>5, <1>6, <1>9, <3>2, <4>3 DEF RequestsInto, Waived
      <4> QED BY <4>1, <4>2, <4>3 DEF Evidence
    <3> QED BY <3>1, <3>2
  <2>4. \A o \in Committed : Prior[plan[o].env] # None =>
          PriorDeployed(plan[o].env, plan[o].version)' \/ Waived(plan[o].env, plan[o].version)'
    BY <1>3, <1>11, <2>1, <2>2
  <2>5. Prior[plan[d].env] # None =>
          PriorDeployed(plan[d].env, plan[d].version)' \/ Waived(plan[d].env, plan[d].version)'
    BY <1>3, <1>11, <2>3
  <2> QED BY <1>3, <1>7, <2>4, <2>5 DEF PromotedInOrder, Waived
<1>17. LockInv'
  <2>1. \A e \in Environments : draft[e] # None => status'[draft[e].id] = "absent"
    <3>1. \A e \in Environments : draft[e] # None =>
            draft[e].id \in Requests /\ status[draft[e].id] = "absent"
      BY <1>1 DEF TypeOK, Drafts, LockInv, DraftsSound
    <3> QED BY <1>5, <1>6, <3>1, PromotionConstants
  <2> QED BY <1>1, <1>3, <1>8, <1>9, <1>11, <2>1
          DEF LockInv, DraftsSound, LocksSound, HeldReadsStayTrue, NextNumber
<1> QED BY <1>2, <1>13, <1>14, <1>15, <1>16, <1>17 DEF IInv, RecordInv, CoreInv

\* Whoever appends and does not commit at once finds the chain free.
LEMMA ChainNext ==
  ASSUME CoreInv, ChainSound, [Next]_vars
  PROVE  ChainSound'
<1>0. TypeOK
  BY DEF CoreInv
<1>1. SUFFICES ASSUME ~(Appending' \subseteq Appending)
               PROVE  AuditFree /\ \E x : Appending' = {x}
  BY DEF ChainSound, AuditFree
<1>2. ASSUME NEW d \in Deployments, Execute(d)
      PROVE  AuditFree /\ Appending' = {d}
  BY <1>0, <1>2 DEF TypeOK, Execute, AuditFree, Appending, Executing, requestVars
<1>3. ASSUME NEW r \in Requests, NEW outcome \in Outcomes, StartDecide(r, outcome)
      PROVE  AuditFree /\ Appending' = {deciding'}
  <2>1. deciding' \in Decisions /\ AuditFree /\ pc' = pc
    BY <1>3 DEF StartDecide, Decisions, deployVars
  <2>2. deciding' # None
    BY <2>1, PromotionConstants
  <2> QED BY <2>1, <2>2 DEF AuditFree, Appending, Executing
<1>4. ASSUME \A d \in Deployments : ~Execute(d),
             \A r \in Requests, outcome \in Outcomes : ~StartDecide(r, outcome)
      PROVE  FALSE
  <2>1. SUFFICES /\ \A d \in Deployments : pc'[d] = "executing" => pc[d] = "executing"
                 /\ deciding' \in {deciding, None}
    BY <1>1 DEF Appending, Executing
  <2>2. ASSUME NEW e \in Environments, Environment(e) PROVE UNCHANGED <<pc, deciding>>
    BY <2>2 DEF Environment, StartRename, FinishRename, StartRetire, FinishRetire, StartSubmit,
       FinishSubmit, RefuseSubmit, AbandonEnvironment, Lock, requestVars, deployVars
  <2>3. CASE Decision
    BY <1>4, <2>3 DEF Decision, FinishDecide, RefuseDecide, AbandonDecide
  <2>4. CASE Policy \/ UNCHANGED vars
    BY <2>4 DEF Policy, StartSavePolicy, FinishSavePolicy, AbandonSavePolicy, vars, requestVars,
                deployVars
  <2>5. ASSUME NEW d \in Deployments, Deployment(d)
        PROVE  /\ \A c \in Deployments : pc'[c] = "executing" => pc[c] = "executing"
               /\ deciding' \in {deciding, None}
    <3>1. CASE BreakDeadlock(d)
      BY <1>0, <3>1 DEF TypeOK, BreakDeadlock, Abort, AbandonEnvironment, AbandonDecide,
                        requestVars, deployVars
    <3>2. CASE ~BreakDeadlock(d)
      BY <1>0, <1>4, <2>5, <3>2 DEF TypeOK, Deployment, CheckUngated, CheckGated, CheckRollback,
         Check, Claim, RefuseExecuted, CommitWithoutRequest, CommitExecuted, Commit, Abort,
         requestVars
    <3> QED BY <3>1, <3>2
  <2> QED BY <2>2, <2>3, <2>4, <2>5 DEF Next
<1> QED BY <1>2, <1>3, <1>4

\* Every step keeps the invariant.
LEMMA InvNext == IInv /\ [Next]_vars => IInv'
<1> SUFFICES ASSUME IInv, [Next]_vars PROVE CoreInv'
  BY ChainNext DEF IInv, CoreInv
<1>1. ASSUME NEW e \in Environments, Environment(e) PROVE CoreInv'
  BY <1>1, InvEnvironment, InvStartSubmit, InvFinishSubmit DEF Environment
<1>2. CASE Decision
  BY <1>2, InvOpenDecide, InvFinishDecide DEF Decision
<1>3. CASE Policy
  BY <1>3, InvPolicy
<1>4. ASSUME NEW d \in Deployments, Deployment(d) PROVE CoreInv'
  <2>1. CASE BreakDeadlock(d)
    <3>1. \/ Abort(d) \/ AbandonDecide
          \/ plan[d].env \in Environments /\ AbandonEnvironment(plan[d].env)
      BY <2>1 DEF IInv, TypeOK, BreakDeadlock, EnvironmentDeadlock, Plans, CoreInv
    <3> QED BY <3>1, InvProceed, InvEnvironment, InvOpenDecide
  <2>2. CASE Claim(d) \/ Execute(d) \/ RefuseExecuted(d) \/ Abort(d)
    BY <2>2, InvProceed
  <2>3. CASE CommitWithoutRequest(d) \/ CommitExecuted(d)
    BY <2>3, InvCommit
  <2>4. CASE \E e \in Environments, v \in Versions :
               \/ CheckUngated(d, e, v)
               \/ \E r \in Requests : CheckGated(d, e, v, r)
               \/ CheckRollback(d, e, v)
    BY <2>4, InvCheck
  <2> QED BY <1>4, <2>1, <2>2, <2>3, <2>4 DEF Deployment
<1>5. CASE UNCHANGED vars
  <2>1. UNCHANGED <<status, request, pc, plan, retired, lock, draft, overtaken>> /\ TypeOK'
    BY <1>5 DEF vars, requestVars, environmentVars, policyVars, deployVars, IInv, TypeOK, CoreInv
  <2>2. overtaken' = {}
    BY <2>1 DEF IInv, LockInv, HeldReadsStayTrue, CoreInv
  <2> QED BY <2>1, <2>2, Unmoved DEF IInv, CoreInv
<1> QED BY <1>1, <1>2, <1>3, <1>4, <1>5 DEF Next

\* The invariant holds in every reachable state.
LEMMA Invariant == Spec => []IInv
BY InvInit, InvNext, PTL DEF Spec

-----------------------------------------------------------------------------
(* The theorems.                                                           *)

\* The state of Environments, requests, policy and deploys is well typed, and a submission is
\* in flight exactly while its Environment's row is locked for it.
THEOREM TypeCorrect == Spec => []TypeOK
<1>1. IInv => TypeOK
  BY DEF IInv, CoreInv
<1> QED BY <1>1, Invariant, PTL

\* A request is executed by exactly one committed Deployment, whatever deploys race for it.
THEOREM ExecutedExactlyOnce == Spec => []ExecutedOnce
<1>1. IInv => ExecutedOnce
  BY DEF IInv, RecordInv, CoreInv
<1> QED BY <1>1, Invariant, PTL

\* What a transaction has read under the Environment's row or the chain's lock stays true.
THEOREM LocksSuffice == Spec => []HeldReadsStayTrue
<1>1. IInv => HeldReadsStayTrue
  BY DEF IInv, LockInv, CoreInv
<1> QED BY <1>1, Invariant, PTL

\* The requests into an Environment are numbered without a gap or a duplicate.
THEOREM NumbersInOrder == Spec => []NumberedInOrder
<1>1. IInv => NumberedInOrder
  BY DEF IInv, RecordInv, CoreInv
<1> QED BY <1>1, Invariant, PTL

\* No version reaches an Environment before its predecessor, unless a request waived it.
THEOREM AlwaysPromotedInOrder == Spec => []PromotedInOrder
<1>1. IInv => PromotedInOrder
  BY DEF IInv, RecordInv, CoreInv
<1> QED BY <1>1, Invariant, PTL

-----------------------------------------------------------------------------
(* The refinement.                                                         *)

\* A version is placed in the ladder where a committed Deployment put it.
LEMMA ReachedIsDeployed ==
  ASSUME TypeOK
  PROVE  /\ Ladder!Placed = Committed
         /\ \A e, v : Ladder!Reached(e, v) <=> DeployedTo(e, v)
<1>1. \A d \in Deployments : Placements[d] # None <=> pc[d] = "committed"
  BY PromotionConstants DEF TypeOK, Placements
<1>2. Ladder!Placed = Committed
  BY <1>1 DEF Ladder!Placed, Committed
<1>3. \A d \in Committed : Placements[d] = plan[d]
  BY DEF Placements, Committed
<1> QED BY <1>2, <1>3 DEF Ladder!Reached, DeployedTo

\* Where neither a request nor a Deployment is added, the ladder stays.
LEMMA LadderStays ==
  ASSUME TypeOK, UNCHANGED request,
         \A d \in Deployments : pc'[d] = "committed" <=> pc[d] = "committed",
         \A d \in Deployments : pc[d] = "committed" => plan'[d] = plan[d]
  PROVE  UNCHANGED Ladder!vars
<1>1. Asked' = Asked
  BY DEF Asked
<1>2. Placements' = Placements
  BY DEF Placements
<1> QED BY <1>1, <1>2 DEF Ladder!vars

\* The insert of a request asks for its rung.
LEMMA LadderAsk ==
  ASSUME IInv, NEW e \in Environments, FinishSubmit(e)
  PROVE  Ladder!Next
<1>1. TypeOK /\ DraftsSound
  BY DEF IInv, LockInv, CoreInv
<1>2. draft[e] \in Drafts /\ draft[e] # None
  BY <1>1 DEF TypeOK, FinishSubmit
<1> DEFINE id == draft[e].id
<1>3. /\ id \in Requests /\ draft[e].version \in Versions
      /\ draft[e].pinned \in Evidence
  BY <1>2 DEF Drafts
<1>4. /\ status[id] = "absent"
      /\ draft[e].pinned = "deployment" => DeployedTo(Prior[e], draft[e].version)
  BY <1>1, <1>2 DEF DraftsSound, PriorDeployed
<1>5. /\ request' = [request EXCEPT ![id] =
                       [env |-> e, version |-> draft[e].version,
                        number |-> draft[e].number, pinned |-> draft[e].pinned]]
      /\ UNCHANGED <<pc, plan>>
  BY DEF FinishSubmit
<1>6. request[id] = None /\ Asked[id] = None
  BY <1>1, <1>3, <1>4 DEF TypeOK, Asked
<1> DEFINE new == [env |-> e, version |-> draft[e].version,
                   number |-> draft[e].number, pinned |-> draft[e].pinned]
<1>7. /\ new # None /\ new.env = e /\ new.version = draft[e].version
      /\ new.pinned = draft[e].pinned
  BY <1>2, PromotionConstants DEF Submissions, Drafts
<1>8. request' = [request EXCEPT ![id] = new]
  BY <1>5
<1> HIDE DEF id, new
<1>9. Asked' = [Asked EXCEPT ![id] = [env |-> e, version |-> draft[e].version,
                                     pinned |-> draft[e].pinned]]
  <2>1. request'[id] = new /\ \A r \in Requests \ {id} : request'[r] = request[r]
    BY <1>1, <1>3, <1>8 DEF TypeOK
  <2>2. \A r \in Requests \ {id} : Asked'[r] = Asked[r]
    BY <2>1 DEF Asked
  <2>3. Asked'[id] = [env |-> e, version |-> draft[e].version,
                     pinned |-> draft[e].pinned]
    BY <1>3, <1>7, <2>1 DEF Asked
  <2>4. Asked \in [Requests -> {Asked[r] : r \in Requests}] /\ Asked' = [r \in Requests |-> Asked'[r]]
    BY DEF Asked
  <2> QED BY <1>3, <2>2, <2>3, <2>4
<1>10. draft[e].pinned = "skip" \/ Ladder!Supported(e, draft[e].version)
  BY <1>1, <1>3, <1>4, ReachedIsDeployed DEF Ladder!Supported, Evidence
<1>11. Placements' = Placements
  BY <1>5 DEF Placements
<1>12. Ladder!Ask(id, e, draft[e].version, draft[e].pinned)
  BY <1>6, <1>9, <1>10, <1>11 DEF Ladder!Ask
<1> QED BY <1>3, <1>12 DEF Ladder!Next, Evidence

\* A commit places the version, as its request asked or where its support is.
LEMMA LadderPlace ==
  ASSUME IInv, NEW d \in Deployments, CommitWithoutRequest(d) \/ CommitExecuted(d)
  PROVE  Ladder!Next
<1>1. TypeOK /\ PlansSound /\ RequestsSound /\ ExecutedOnce
  BY DEF IInv, RecordInv, CoreInv
<1> DEFINE e == plan[d].env
           v == plan[d].version
           r == plan[d].request
<1>2. /\ pc[d] \in {"checked", "executing"}
      /\ pc' = [pc EXCEPT ![d] = "committed"]
      /\ pc[d] = "executing" <=> r # None
      /\ UNCHANGED <<plan, request>>
  BY <1>1 DEF CommitWithoutRequest, CommitExecuted, Commit, PlansSound, Holding
<1>3. plan[d] # None /\ plan[d] \in Plans
  BY <1>1, <1>2 DEF TypeOK
<1>4. /\ e \in Environments /\ v \in Versions /\ r \in Requests \cup {None}
      /\ plan[d] = [env |-> e, version |-> v, request |-> r]
  BY <1>3 DEF Plans
<1>5. Asked' = Asked
  BY <1>2 DEF Asked
<1>6. Placements' = [Placements EXCEPT ![d] = plan[d]] /\ Placements[d] = None
  BY <1>1, <1>2 DEF Placements, TypeOK
<1>7. Ladder!Place(d, e, v, r)
  BY <1>4, <1>5, <1>6 DEF Ladder!Place
<1>8. /\ Ladder!Placed = Committed
      /\ \A f, w : Ladder!Reached(f, w) <=> DeployedTo(f, w)
  BY <1>1, ReachedIsDeployed
<1> HIDE DEF e, v, r
<1>9. CASE r = None
  <2>1. Prior[e] = None \/ DeployedTo(Prior[e], v) \/ DeployedTo(e, v)
    BY <1>1, <1>2, <1>9 DEF PlansSound, Placeable, PriorDeployed, e, v, r
  <2>2. Ladder!Climb(d, e, v)
    BY <1>7, <1>8, <1>9, <2>1 DEF Ladder!Climb, Ladder!Supported
  <2> QED BY <1>4, <2>2 DEF Ladder!Next
<1>10. CASE r # None
  <2>1. /\ r \in Requests /\ request[r] # None /\ status[r] = "approved"
        /\ request[r].env = e /\ request[r].version = v
    BY <1>1, <1>2, <1>3, <1>4, <1>10 DEF PlansSound, Holding, e, v, r
  <2>2. /\ Asked[r] # None
        /\ Asked[r].env = e /\ Asked[r].version = v /\ Asked[r].pinned = request[r].pinned
    <3>1. Asked[r] = [env |-> e, version |-> v, pinned |-> request[r].pinned]
      BY <2>1 DEF Asked
    <3>2. Asked[r] \in Rungs
      BY <1>1, <1>4, <2>1, <3>1 DEF Rungs, TypeOK, Submissions
    <3> QED BY <3>1, <3>2, PromotionConstants
  <2>3. request[r].pinned = "skip" \/ DeployedTo(Prior[e], v)
    <3>1. request[r].pinned \in Evidence
      BY <1>1, <2>1 DEF TypeOK, Submissions
    <3>2. request[r].pinned = "deployment" => PriorDeployed(e, v)
      BY <1>1, <2>1 DEF RequestsSound
    <3> QED BY <3>1, <3>2 DEF Evidence, PriorDeployed
  <2>4. \A o \in Committed : Placements[o].request # r
    BY <1>1, <2>1 DEF ExecutedOnce, Placements, Committed
  <2>5. Ladder!ClimbAsAsked(d, e, v, r)
    BY <1>7, <1>8, <2>2, <2>3, <2>4 DEF Ladder!ClimbAsAsked, Ladder!Supported
  <2> QED BY <1>4, <2>1, <2>5 DEF Ladder!Next
<1> QED BY <1>9, <1>10

\* Every step is a step of the ladder, or leaves it.
LEMMA LadderStep ==
  ASSUME IInv, [Next]_vars
  PROVE  [Ladder!Next]_(Ladder!vars)
<1>1. TypeOK
  BY DEF IInv, CoreInv
<1>2. ASSUME NEW e \in Environments, Environment(e), ~FinishSubmit(e)
      PROVE  UNCHANGED Ladder!vars
  <2>1. UNCHANGED <<request, pc, plan>>
    BY <1>2 DEF Environment, StartRename, FinishRename, StartRetire, FinishRetire, StartSubmit,
       RefuseSubmit, AbandonEnvironment, Lock, requestVars, deployVars
  <2> QED BY <1>1, <2>1, LadderStays
<1>3. ASSUME NEW e \in Environments, FinishSubmit(e) PROVE Ladder!Next
  BY <1>3, LadderAsk
<1>4. CASE Decision \/ Policy \/ UNCHANGED vars
  <2>1. UNCHANGED <<request, pc, plan>>
    BY <1>4 DEF Decision, StartDecide, FinishDecide, RefuseDecide, AbandonDecide, Policy,
       StartSavePolicy, FinishSavePolicy, AbandonSavePolicy, vars, requestVars, deployVars
  <2> QED BY <1>1, <2>1, LadderStays
<1>5. ASSUME NEW d \in Deployments,
             Claim(d) \/ Execute(d) \/ RefuseExecuted(d) \/ Abort(d)
      PROVE  UNCHANGED Ladder!vars
  <2>1. /\ UNCHANGED <<request, plan>> /\ pc[d] # "committed" /\ pc'[d] # "committed"
        /\ \A o \in Deployments \ {d} : pc'[o] = pc[o]
    BY <1>1, <1>5 DEF TypeOK, Claim, Execute, RefuseExecuted, Abort, requestVars
  <2> QED BY <1>1, <2>1, LadderStays
<1>6. ASSUME NEW d \in Deployments, NEW e \in Environments, NEW v \in Versions,
             NEW r \in Requests \cup {None}, Check(d, e, v, r)
      PROVE  UNCHANGED Ladder!vars
  <2>1. /\ UNCHANGED request /\ pc[d] # "committed" /\ pc'[d] # "committed"
        /\ \A o \in Deployments \ {d} : pc'[o] = pc[o] /\ plan'[o] = plan[o]
    BY <1>1, <1>6 DEF TypeOK, Check, requestVars
  <2> QED BY <1>1, <2>1, LadderStays
<1>7. ASSUME NEW d \in Deployments, Deployment(d)
      PROVE  Ladder!Next \/ UNCHANGED Ladder!vars
  <2>1. CASE BreakDeadlock(d)
    <3>1. CASE AbandonEnvironment(plan[d].env) \/ AbandonDecide
      <4>1. UNCHANGED <<request, pc, plan>>
        BY <3>1 DEF AbandonEnvironment, AbandonDecide, requestVars, deployVars
      <4> QED BY <1>1, <4>1, LadderStays
    <3> QED BY <1>5, <2>1, <3>1 DEF BreakDeadlock
  <2>2. CASE CommitWithoutRequest(d) \/ CommitExecuted(d)
    BY <2>2, LadderPlace
  <2>3. CASE \E e \in Environments, v \in Versions :
               \/ CheckUngated(d, e, v)
               \/ \E r \in Requests : CheckGated(d, e, v, r)
               \/ CheckRollback(d, e, v)
    BY <1>6, <2>3 DEF CheckUngated, CheckGated, CheckRollback
  <2> QED BY <1>5, <1>7, <2>1, <2>2, <2>3 DEF Deployment
<1> QED BY <1>2, <1>3, <1>4, <1>7 DEF Next

\* Locks, transactions, policies and races implement the ladder: what a request asks is fixed
\* once, a Deployment is placed where its request or its support says, and is never removed.
THEOREM PromotionsImplementLadder == Spec => ImplementsLadder
<1>1. Init => Ladder!Init
  BY DEF Init, Ladder!Init, Asked, Placements
<1>2. IInv /\ [Next]_vars => [Ladder!Next]_(Ladder!vars)
  BY LadderStep
<1> QED BY <1>1, <1>2, InvInit, InvNext, PTL DEF Spec, ImplementsLadder, Ladder!Spec

-----------------------------------------------------------------------------
(* The windows of the claims that the code breaks: outside them they hold.  *)

\* Nobody deploys into an Environment, or saves a policy that names it, while it is retired.
RetiredAlone ==
  \A e \in Environments : lock[e] = "retire" =>
    /\ \A d \in Deployments : pc[d] \in Unfinished => plan[d].env # e
    /\ saving # None => saving[e] = "none"

\* What _blockers has read stays true until the retirement ends, and after it.
RetireInv ==
  /\ \A d \in Deployments :
       pc[d] \in Unfinished \cup {"committed"} => plan[d].env \notin retired
  /\ \A e \in Environments : lock[e] = "retire" =>
       policy[e] = "none" /\ \A d \in Committed : plan[d].env # e
  /\ \A e \in retired : policy[e] = "none" /\ (saving # None => saving[e] = "none")

\* A transaction on an Environment's row keeps it.
LEMMA RetireEnvironment ==
  ASSUME TypeOK, RetiredAlone, RetireInv, NEW e \in Environments, Environment(e)
  PROVE  RetireInv'
<1> USE DEF requestVars, policyVars, deployVars
<1>0. lock \in [Environments -> {"free", "rename", "retire", "submit"}]
  BY DEF TypeOK
<1>1. CASE FinishRetire(e)
  <2>1. /\ lock[e] = "retire" /\ retired' = retired \cup {e}
        /\ lock' = [lock EXCEPT ![e] = "free"]
        /\ UNCHANGED <<policy, saving, pc, plan>>
    BY <1>1 DEF FinishRetire, Unlock
  <2>2. policy[e] = "none" /\ (saving # None => saving[e] = "none")
    BY <2>1 DEF RetireInv, RetiredAlone
  <2>3. \A d \in Deployments : pc[d] \in Unfinished \cup {"committed"} => plan[d].env # e
    BY <2>1 DEF RetireInv, RetiredAlone, Committed
  <2> QED BY <1>0, <2>1, <2>2, <2>3 DEF RetireInv, Committed
<1>2. CASE StartRetire(e)
  <2>1. /\ lock' = [lock EXCEPT ![e] = "retire"]
        /\ policy[e] = "none" /\ \A d \in Committed : plan[d].env # e
        /\ UNCHANGED <<retired, policy, saving, pc, plan>>
    BY <1>2 DEF StartRetire, Lock
  <2> QED BY <1>0, <2>1 DEF RetireInv, Committed
<1>3. CASE ~FinishRetire(e) /\ ~StartRetire(e)
  <2>1. /\ UNCHANGED <<retired, policy, saving, pc, plan>>
        /\ \A f \in Environments : lock'[f] = "retire" => lock[f] = "retire"
    BY <1>0, <1>3 DEF Environment, StartRename, FinishRename, StartSubmit, FinishSubmit,
       RefuseSubmit, AbandonEnvironment, Lock, Unlock
  <2> QED BY <2>1 DEF RetireInv, Committed
<1> QED BY <1>1, <1>2, <1>3

\* A deploy keeps it: it is checked into no retired Environment, and waits for the row.
LEMMA RetireDeployment ==
  ASSUME TypeOK, RetiredAlone, RetireInv, NEW d \in Deployments, Deployment(d)
  PROVE  RetireInv'
<1> USE DEF requestVars, policyVars, environmentVars
<1>0. /\ pc \in [Deployments ->
           {"idle", "checked", "claimed", "executing", "committed", "refused", "aborted"}]
      /\ plan \in [Deployments -> Plans \cup {None}]
      /\ pc[d] # "idle" => plan[d].env \in Environments
  BY DEF TypeOK, Plans
<1>1. ASSUME NEW e \in Environments, NEW v \in Versions, NEW r \in Requests \cup {None},
             Check(d, e, v, r)
      PROVE  RetireInv'
  BY <1>0, <1>1 DEF Check, RetireInv, Committed, Unfinished
<1>2. CASE Claim(d) \/ Execute(d) \/ RefuseExecuted(d) \/ Abort(d)
  <2>1. /\ UNCHANGED <<retired, policy, saving, lock, plan>>
        /\ \A c \in Deployments : pc'[c] \in Unfinished \cup {"committed"} =>
             pc[c] \in Unfinished \cup {"committed"}
        /\ \A c \in Deployments : pc'[c] = "committed" => pc[c] = "committed"
    BY <1>0, <1>2 DEF Claim, Execute, RefuseExecuted, Abort, Unfinished
  <2> QED BY <2>1 DEF RetireInv, Committed
<1>3. CASE CommitWithoutRequest(d) \/ CommitExecuted(d)
  <2>1. /\ lock[plan[d].env] = "free" /\ pc[d] \in Unfinished
        /\ pc' = [pc EXCEPT ![d] = "committed"]
        /\ UNCHANGED <<retired, policy, saving, lock, plan>>
    BY <1>3 DEF CommitWithoutRequest, CommitExecuted, Commit, Unfinished
  <2> QED BY <1>0, <2>1 DEF RetireInv, Committed, Unfinished
<1>4. CASE BreakDeadlock(d)
  <2>1. \/ Abort(d) \/ AbandonDecide
        \/ AbandonEnvironment(plan[d].env) /\ plan[d].env \in Environments
    BY <1>0, <1>4 DEF BreakDeadlock, EnvironmentDeadlock
  <2>2. \A e \in Environments : AbandonEnvironment(e) => Environment(e)
    BY DEF Environment
  <2>3. CASE AbandonDecide
    BY <2>3 DEF AbandonDecide, RetireInv, Committed
  <2> QED BY <1>2, <2>1, <2>2, <2>3, RetireEnvironment
<1> QED BY <1>1, <1>2, <1>3, <1>4 DEF Deployment, CheckUngated, CheckGated, CheckRollback

\* Every step keeps it.
LEMMA RetireNext ==
  ASSUME TypeOK, RetiredAlone, RetireInv, [Next]_vars
  PROVE  RetireInv'
<1>1. ASSUME NEW p \in Policies, StartSavePolicy(p) PROVE RetireInv'
  BY <1>1 DEF StartSavePolicy, requestVars, environmentVars, deployVars, RetireInv, Committed
<1>2. CASE FinishSavePolicy
  <2>1. /\ saving # None /\ policy' = saving /\ saving' = None
        /\ UNCHANGED <<retired, lock, pc, plan>>
    BY <1>2 DEF FinishSavePolicy, environmentVars
  <2>2. retired \subseteq Environments
    BY DEF TypeOK
  <2> QED BY <2>1, <2>2 DEF RetireInv, RetiredAlone, Committed
<1>3. CASE AbandonSavePolicy
  BY <1>3 DEF AbandonSavePolicy, requestVars, environmentVars, deployVars, RetireInv, Committed
<1>4. CASE Decision
  <2>1. UNCHANGED <<environmentVars, policyVars, pc, plan>>
    BY <1>4 DEF Decision, StartDecide, FinishDecide, RefuseDecide, AbandonDecide, deployVars
  <2> QED BY <2>1 DEF environmentVars, policyVars, RetireInv, Committed
<1>5. CASE UNCHANGED vars
  BY <1>5 DEF vars, environmentVars, policyVars, deployVars, RetireInv, Committed
<1> QED BY <1>1, <1>2, <1>3, <1>4, <1>5, RetireEnvironment, RetireDeployment DEF Next, Policy

\* An Environment whose retirement meets no deploy in flight into it and no policy about to
\* name it has no Deployment and no entry, and gets none later: environments.py:359-360 holds
\* but for these two races.
THEOREM RetirementsAreClean ==
  Spec /\ []RetiredAlone => [](RetiredIdle /\ NoEntryOfRetired)
<1>1. Init => RetireInv
  BY DEF Init, RetireInv, Committed
<1>2. TypeOK /\ RetiredAlone /\ RetireInv /\ [Next]_vars => RetireInv'
  BY RetireNext
<1>3. RetireInv => RetiredIdle /\ NoEntryOfRetired
  BY DEF RetireInv, RetiredIdle, NoEntryOfRetired, Committed
<1> QED BY <1>1, <1>2, <1>3, TypeCorrect, PTL DEF Spec

\* A target becomes gated only while no deploy without a request is on its way into it.
GatesSetBetweenDeploys ==
  [][\A e \in Environments : policy[e] = "none" /\ policy'[e] # "none" =>
       \A d \in Deployments :
         pc[d] = "checked" /\ plan[d].request = None => plan[d].env # e]_vars

\* A deploy on its way without a request needs none.
UngatedInv ==
  \A d \in Deployments : pc[d] = "checked" /\ plan[d].request = None =>
    policy[plan[d].env] = "none" \/ DeployedTo(plan[d].env, plan[d].version)

\* Every step keeps it that changes no gate over such a deploy.
LEMMA UngatedNext ==
  ASSUME TypeOK, UngatedInv, [Next]_vars,
         \/ UNCHANGED vars
         \/ \A e \in Environments : policy[e] = "none" /\ policy'[e] # "none" =>
              \A d \in Deployments :
                pc[d] = "checked" /\ plan[d].request = None => plan[d].env # e
  PROVE  UngatedInv'
<1>0. /\ pc \in [Deployments ->
           {"idle", "checked", "claimed", "executing", "committed", "refused", "aborted"}]
      /\ plan \in [Deployments -> Plans \cup {None}]
      /\ \A c \in Deployments : pc[c] # "idle" => plan[c].env \in Environments
  BY DEF TypeOK, Plans
<1>1. ASSUME UNCHANGED <<pc, plan, policy>> PROVE UngatedInv'
  BY <1>1 DEF UngatedInv, DeployedTo, Committed
<1>2. ASSUME NEW d \in Deployments, NEW e \in Environments, NEW v \in Versions,
             NEW r \in Requests \cup {None}, Check(d, e, v, r),
             r = None => policy[e] = "none" \/ DeployedTo(e, v)
      PROVE  UngatedInv'
  <2>1. /\ pc[d] = "idle" /\ UNCHANGED policy
        /\ pc' = [pc EXCEPT ![d] = "checked"]
        /\ plan' = [plan EXCEPT ![d] = [env |-> e, version |-> v, request |-> r]]
    BY <1>2 DEF Check, policyVars
  <2>2. \A f \in Environments : \A w : DeployedTo(f, w) => DeployedTo(f, w)'
    BY <1>0, <2>1 DEF DeployedTo, Committed
  <2>3. \A c \in Deployments \ {d} : plan'[c] = plan[c] /\ pc'[c] = pc[c]
    BY <1>0, <2>1
  <2>4. plan'[d] = [env |-> e, version |-> v, request |-> r]
    BY <1>0, <2>1
  <2> QED BY <1>0, <1>2, <2>1, <2>2, <2>3, <2>4 DEF UngatedInv
<1>3. ASSUME NEW d \in Deployments, Deployment(d),
             ~ \E e \in Environments, v \in Versions :
                 \/ CheckUngated(d, e, v)
                 \/ \E r \in Requests : CheckGated(d, e, v, r)
                 \/ CheckRollback(d, e, v)
      PROVE  UngatedInv'
  <2>1. /\ UNCHANGED <<plan, policy>>
        /\ \A c \in Deployments : pc'[c] = "checked" => pc[c] = "checked"
        /\ \A c \in Deployments : pc[c] = "committed" => pc'[c] = "committed"
    BY <1>0, <1>3 DEF Deployment, Claim, Execute, RefuseExecuted, CommitWithoutRequest,
       CommitExecuted, Commit, Abort, BreakDeadlock, AbandonEnvironment, AbandonDecide, policyVars,
       deployVars
  <2> QED BY <2>1 DEF UngatedInv, DeployedTo, Committed
<1>4. CASE FinishSavePolicy
  <2>1. UNCHANGED <<pc, plan>>
    BY <1>4 DEF FinishSavePolicy
  <2>2. \A f, w : DeployedTo(f, w)' = DeployedTo(f, w)
    BY <2>1 DEF DeployedTo, Committed
  <2>3. CASE UNCHANGED vars
    BY <1>1, <2>3 DEF vars, policyVars, deployVars
  <2> QED BY <1>0, <2>1, <2>2, <2>3 DEF UngatedInv
<1>5. ASSUME NEW e \in Environments, Environment(e) PROVE UNCHANGED <<pc, plan, policy>>
  BY <1>5 DEF Environment, StartRename, FinishRename, StartRetire, FinishRetire, StartSubmit,
     FinishSubmit, RefuseSubmit, AbandonEnvironment, Lock, policyVars, deployVars
<1>6. ASSUME \/ Decision
             \/ \E p \in Policies : StartSavePolicy(p)
             \/ AbandonSavePolicy
             \/ UNCHANGED vars
      PROVE  UNCHANGED <<pc, plan, policy>>
  BY <1>6 DEF Decision, StartDecide, FinishDecide, RefuseDecide, AbandonDecide, StartSavePolicy, AbandonSavePolicy, vars, policyVars, deployVars
<1>7. ASSUME NEW d \in Deployments, NEW e \in Environments, NEW v \in Versions,
             \/ CheckUngated(d, e, v)
             \/ \E r \in Requests : CheckGated(d, e, v, r)
             \/ CheckRollback(d, e, v)
      PROVE  UngatedInv'
  BY <1>2, <1>7, PromotionConstants DEF CheckUngated, CheckGated, CheckRollback
<1> QED BY <1>1, <1>3, <1>4, <1>5, <1>6, <1>7 DEF Next, Policy

\* Only a commit without a request can miss a gate.
LEMMA GateStep ==
  ASSUME IInv, UngatedInv, [Next]_vars, NEW d \in Deployments,
         pc[d] # "committed", pc'[d] = "committed"
  PROVE  \/ policy[plan[d].env] = "none"
         \/ plan[d].request # None
         \/ DeployedTo(plan[d].env, plan[d].version)
<1>0. pc \in [Deployments ->
        {"idle", "checked", "claimed", "executing", "committed", "refused", "aborted"}]
  BY DEF IInv, TypeOK, CoreInv
<1>1. ASSUME NEW c \in Deployments, Deployment(c),
             ~CommitWithoutRequest(d), ~CommitExecuted(d)
      PROVE  FALSE
  BY <1>0, <1>1 DEF Deployment, Check, CheckUngated, CheckGated, CheckRollback, Claim, Execute,
     RefuseExecuted, CommitWithoutRequest, CommitExecuted, Commit, Abort, BreakDeadlock,
     AbandonEnvironment, AbandonDecide, deployVars
<1>2. ASSUME NEW e \in Environments, Environment(e) PROVE UNCHANGED pc
  BY <1>2 DEF Environment, StartRename, FinishRename, StartRetire, FinishRetire, StartSubmit,
     FinishSubmit, RefuseSubmit, AbandonEnvironment, Lock, deployVars
<1>3. ASSUME Decision \/ Policy \/ UNCHANGED vars
      PROVE  UNCHANGED pc
  BY <1>3 DEF Decision, StartDecide, FinishDecide, RefuseDecide, AbandonDecide, Policy,
     StartSavePolicy, FinishSavePolicy, AbandonSavePolicy, vars, deployVars
<1>4. CASE CommitWithoutRequest(d)
  BY <1>4 DEF CommitWithoutRequest, UngatedInv
<1>5. CASE CommitExecuted(d)
  BY <1>5 DEF CommitExecuted, IInv, RecordInv, PlansSound, Holding, CoreInv
<1> QED BY <1>1, <1>2, <1>3, <1>4, <1>5 DEF Next

\* Outside the race of a deploy in flight with the policy that gates its target, a version
\* enters a gated Environment for the first time only with a request (deployments.py:548).
THEOREM GatesHoldBetweenDeploys == Spec /\ GatesSetBetweenDeploys => GateHolds
<1> DEFINE Between ==
             \A e \in Environments : policy[e] = "none" /\ policy'[e] # "none" =>
               \A d \in Deployments :
                 pc[d] = "checked" /\ plan[d].request = None => plan[d].env # e
           Gated ==
             \A d \in Deployments : pc[d] # "committed" /\ pc'[d] = "committed" =>
               \/ policy[plan[d].env] = "none"
               \/ plan[d].request # None
               \/ DeployedTo(plan[d].env, plan[d].version)
<1>1. Init => UngatedInv
  BY DEF Init, UngatedInv
<1>2. IInv /\ UngatedInv /\ [Next]_vars /\ [Between]_vars => UngatedInv'
  BY UngatedNext DEF IInv, CoreInv
<1>3. IInv /\ UngatedInv /\ [Next]_vars => [Gated]_vars
  BY GateStep
<1>4. GatesSetBetweenDeploys => [][Between]_vars
  BY DEF GatesSetBetweenDeploys
<1>5. [][Gated]_vars => GateHolds
  BY DEF GateHolds
<1> HIDE DEF Between, Gated
<1> QED BY <1>1, <1>2, <1>3, <1>4, <1>5, Invariant, PTL DEF Spec
=============================================================================
