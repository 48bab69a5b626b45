------------------------ MODULE PromotionsLiveness ------------------------
(***************************************************************************)
(* What ends in Promotions, for any Environments, versions, requests,      *)
(* deploys and policies: fairness is GuardedFairness, the form of Fairness *)
(* the provers can instantiate.                                            *)
(***************************************************************************)
EXTENDS PromotionsProofs

-----------------------------------------------------------------------------
(* What a step may do to a transaction.                                    *)

\* The plan of a deploy stands, one that has its request's row goes on to the chain or ends,
\* and none begins to execute unless it finds the chain free.
LEMMA Moves ==
  ASSUME TypeOK, [Next]_vars, NEW d \in Deployments
  PROVE  /\ pc[d] # "idle" => plan'[d] = plan[d]
         /\ pc[d] = "claimed" => pc'[d] \in {"claimed", "executing", "refused"}
         /\ pc[d] = "executing" => pc'[d] \in {"executing", "committed", "aborted"}
         /\ d \in Holding' => d \in Holding \/ Claim(d)
         /\ pc'[d] = "executing" => pc[d] = "executing" \/ AuditFree
<1> USE DEF requestVars, deployVars
<1>0. /\ pc \in [Deployments ->
           {"idle", "checked", "claimed", "executing", "committed", "refused", "aborted"}]
      /\ plan \in [Deployments -> Plans \cup {None}]
  BY DEF TypeOK
<1>1. CASE UNCHANGED <<pc, plan>>
  BY <1>1 DEF Holding
<1>2. ASSUME NEW e \in Environments, Environment(e) PROVE UNCHANGED <<pc, plan>>
  BY <1>2 DEF Environment, StartRename, FinishRename, StartRetire, FinishRetire, StartSubmit,
     FinishSubmit, RefuseSubmit, AbandonEnvironment, Lock
<1>3. Policy \/ UNCHANGED vars => UNCHANGED <<pc, plan>>
  BY DEF Policy, StartSavePolicy, FinishSavePolicy, AbandonSavePolicy, vars
<1>4. CASE Decision
  <2>1. UNCHANGED <<pc, plan>>
    BY <1>4 DEF Decision, StartDecide, FinishDecide, RefuseDecide, AbandonDecide
  <2> QED BY <2>1 DEF Holding
<1>5. ASSUME NEW c \in Deployments, Deployment(c)
      PROVE  /\ pc[d] # "idle" => plan'[d] = plan[d]
             /\ pc[d] = "claimed" => pc'[d] \in {"claimed", "executing", "refused"}
             /\ pc[d] = "executing" => pc'[d] \in {"executing", "committed", "aborted"}
             /\ d \in Holding' => d \in Holding \/ Claim(d)
             /\ pc'[d] = "executing" => pc[d] = "executing" \/ AuditFree
  <2>1. ASSUME NEW f, NEW v, NEW r, Check(c, f, v, r)
        PROVE  /\ pc[c] = "idle" /\ pc' = [pc EXCEPT ![c] = "checked"]
               /\ \A o \in Deployments : pc[o] # "idle" => plan'[o] = plan[o]
    BY <1>0, <2>1 DEF Check
  <2>2. CASE \E e \in Environments, v \in Versions :
               \/ CheckUngated(c, e, v)
               \/ \E r \in Requests : CheckGated(c, e, v, r)
               \/ CheckRollback(c, e, v)
    <3>1. /\ pc[c] = "idle" /\ pc' = [pc EXCEPT ![c] = "checked"]
          /\ \A o \in Deployments : pc[o] # "idle" => plan'[o] = plan[o]
      BY <2>1, <2>2 DEF CheckUngated, CheckGated, CheckRollback
    <3> QED BY <1>0, <3>1 DEF Holding
  <2>3. CASE Claim(c)
    BY <1>0, <2>3 DEF Claim, Holding
  <2>4. CASE Execute(c)
    BY <1>0, <2>4 DEF Execute, Holding
  <2>5. CASE RefuseExecuted(c) \/ Abort(c)
    BY <1>0, <2>5 DEF RefuseExecuted, Abort, Holding
  <2>6. CASE CommitWithoutRequest(c) \/ CommitExecuted(c)
    BY <1>0, <2>6 DEF CommitWithoutRequest, CommitExecuted, Commit, Holding
  <2>7. CASE BreakDeadlock(c) /\ ~Abort(c)
    <3>1. UNCHANGED <<pc, plan>>
      BY <2>7 DEF BreakDeadlock, AbandonEnvironment, AbandonDecide
    <3> QED BY <3>1 DEF Holding
  <2> QED BY <1>5, <2>2, <2>3, <2>4, <2>5, <2>6, <2>7 DEF Deployment
<1> QED BY <1>1, <1>2, <1>3, <1>4, <1>5 DEF Next

\* Nor does a decision begin unless it finds the chain free.
LEMMA DecisionMoves ==
  ASSUME [Next]_vars
  PROVE  deciding' \in {deciding, None} \/ AuditFree
<1> USE DEF requestVars
<1>1. ASSUME NEW e \in Environments, Environment(e) PROVE UNCHANGED deciding
  BY <1>1 DEF Environment, StartRename, FinishRename, StartRetire, FinishRetire, StartSubmit,
     FinishSubmit, RefuseSubmit, AbandonEnvironment, Lock
<1>2. CASE Decision
  BY <1>2 DEF Decision, StartDecide, FinishDecide, RefuseDecide, AbandonDecide
<1>3. Policy \/ UNCHANGED vars => UNCHANGED deciding
  BY DEF Policy, StartSavePolicy, FinishSavePolicy, AbandonSavePolicy, vars
<1>4. ASSUME NEW d \in Deployments, Deployment(d) PROVE deciding' \in {deciding, None}
  BY <1>4 DEF Deployment, CheckUngated, CheckGated, CheckRollback, Check, Claim, Execute,
     RefuseExecuted, CommitWithoutRequest, CommitExecuted, Commit, Abort, BreakDeadlock,
     AbandonEnvironment, AbandonDecide
<1> QED BY <1>1, <1>2, <1>3, <1>4 DEF Next

\* A deploy that has its request's row keeps it, or leaves it free.
LEMMA RowMoves ==
  ASSUME IInv, [Next]_vars, NEW d \in Holding
  PROVE  /\ plan'[d] = plan[d]
         /\ d \in Holding' \/ ~RowHeld(plan[d].request)'
<1>1. TypeOK /\ PlansSound
  BY DEF IInv, CoreInv, RecordInv
<1>2. /\ Holding \subseteq Deployments /\ Holding' \subseteq Deployments
      /\ \A c \in Holding : plan'[c] = plan[c]
  BY <1>1, Moves DEF Holding
<1>3. CASE \E c \in Deployments : Claim(c)
  BY <1>1, <1>2, <1>3 DEF Claim, Holding, TypeOK
<1>4. CASE \A c \in Deployments : ~Claim(c)
  <2>1. Holding' \subseteq Holding
    BY <1>1, <1>2, <1>4, Moves
  <2>2. \A c \in Holding : plan[c].request = plan[d].request => c = d
    BY <1>1 DEF PlansSound
  <2>3. ASSUME d \notin Holding', NEW c \in Holding' PROVE plan'[c].request # plan[d].request
    BY <1>2, <2>1, <2>2, <2>3
  <2> QED BY <1>2, <2>3 DEF RowHeld
<1> QED BY <1>3, <1>4

-----------------------------------------------------------------------------
(* The holder of the audit chain.                                          *)

\* A deploy that executes holds the chain alone, until it ends.
LEMMA SoleHolder ==
  ASSUME NEW d \in Deployments
  PROVE  IInv /\ pc[d] = "executing" /\ [Next]_vars =>
           (pc[d] = "executing")' \/ (AuditFree' /\ pc'[d] \notin Unfinished)
<1> SUFFICES ASSUME IInv, pc[d] = "executing", [Next]_vars, pc'[d] # "executing"
             PROVE  AuditFree' /\ pc'[d] \notin Unfinished
  OBVIOUS
<1>1. TypeOK /\ ChainSound
  BY DEF IInv, CoreInv
<1>2. Appending = {d} /\ Executing = {d} /\ deciding = None
  BY <1>1, SoleWriter DEF Executing
<1>3. ~AuditFree
  BY <1>2 DEF AuditFree
<1>4. \A c \in Deployments : pc'[c] = "executing" => c = d
  BY <1>1, <1>2, <1>3, Moves DEF Executing
<1>5. deciding' = None
  BY <1>2, <1>3, DecisionMoves
<1>6. pc'[d] \notin Unfinished
  BY <1>1, Moves DEF Unfinished
<1> QED BY <1>4, <1>5, <1>6 DEF AuditFree, Appending, Executing

\* So does a decision, until it is none.
LEMMA SoleDecision ==
  IInv /\ deciding # None /\ [Next]_vars =>
    deciding' = deciding \/ (deciding' = None /\ AuditFree')
<1> SUFFICES ASSUME IInv, deciding # None, [Next]_vars, deciding' # deciding
             PROVE  deciding' = None /\ AuditFree'
  OBVIOUS
<1>1. TypeOK /\ ChainSound
  BY DEF IInv, CoreInv
<1>2. Executing = {} /\ ~AuditFree
  BY <1>1, SoleWriter DEF AuditFree, Appending
<1>3. \A c \in Deployments : pc'[c] # "executing"
  BY <1>1, <1>2, Moves DEF Executing
<1>4. deciding' \in {deciding, None}
  BY <1>2, DecisionMoves
<1> QED BY <1>3, <1>4 DEF AuditFree, Appending, Executing

\* Either the holder can commit again and again, or the detector takes the lock from the
\* other side, or the deploy ends.
LEMMA HolderEnds ==
  ASSUME NEW d \in Deployments
  PROVE  Spec /\ GuardedFairness =>
           (pc[d] = "executing" ~> AuditFree /\ pc[d] \notin Unfinished)
<1> DEFINE Held == pc[d] = "executing"
           Ended == AuditFree /\ pc[d] \notin Unfinished
           Open == lock[plan[d].env] = "free"
<1>1. IInv /\ Held /\ [Next]_vars => Held' \/ Ended'
  BY SoleHolder
<1>2. IInv /\ Held /\ <<EndOf(d)>>_vars => Ended'
  <2>1. IInv /\ Held /\ EndOf(d) => pc'[d] # "executing"
    BY DEF IInv, CoreInv, TypeOK, EndOf, Claim, Execute, RefuseExecuted, CommitWithoutRequest,
           CommitExecuted, Commit
  <2>2. EndOf(d) => Next
    BY DEF EndOf, Next, Deployment
  <2> QED BY <2>1, <2>2, <1>1
<1>3. Held /\ Open => CanEnd(d)
  BY DEF CanEnd
<1>4. Held /\ ~Open => Deadlocked(d)
  BY DEF Deadlocked, EnvironmentDeadlock
<1>5. IInv /\ Held /\ <<BreakDeadlock(d)>>_vars => Ended' \/ Open'
  <2> SUFFICES ASSUME IInv, Held, BreakDeadlock(d) PROVE Ended' \/ Open'
    OBVIOUS
  <2>1. CASE Abort(d)
    <3>1. pc'[d] # "executing"
      BY <2>1 DEF Abort, IInv, CoreInv, TypeOK
    <3>2. Next
      BY <2>1 DEF Next, Deployment
    <3> QED BY <3>1, <3>2, <1>1
  <2>2. CASE AbandonEnvironment(plan[d].env)
    <3>1. plan[d].env \in Environments
      BY DEF IInv, CoreInv, TypeOK, Plans
    <3> QED BY <2>2, <3>1 DEF AbandonEnvironment, Unlock, deployVars, IInv, CoreInv, TypeOK
  <2> QED BY <2>1, <2>2 DEF BreakDeadlock, RequestDeadlock
<1>6. GuardedFairness => ([]<>CanEnd(d) => []<><<EndOf(d)>>_vars)
  BY DEF GuardedFairness
<1>7. GuardedFairness => (<>[]Deadlocked(d) => []<><<BreakDeadlock(d)>>_vars)
  BY DEF GuardedFairness
<1> HIDE DEF Held, Ended, Open
<1>8. Spec /\ GuardedFairness => (Held ~> Ended)
  BY <1>1, <1>2, <1>3, <1>4, <1>5, <1>6, <1>7, InvInit, InvNext, PTL DEF Spec
<1> QED BY <1>8 DEF Held, Ended

\* A decision that waits for its request's row has it in the end, or is given up: the deploy
\* that has the row waits for the chain, and the detector sees it.
LEMMA RowIsLeft ==
  ASSUME NEW d \in Deployments
  PROVE  Spec /\ GuardedFairness => (RequestDeadlock(d) ~> deciding = None \/ CanDecide)
<1> DEFINE Stuck == RequestDeadlock(d)
           Free == deciding = None \/ CanDecide
<1>1. ASSUME IInv, Stuck, [Next]_vars PROVE Stuck' \/ Free'
  <2>1. TypeOK /\ deciding # None /\ d \in Holding /\ deciding.request = plan[d].request
    BY <1>1 DEF IInv, CoreInv, RequestDeadlock, Holding
  <2>2. deciding' = deciding \/ deciding' = None
    BY <1>1, <2>1, SoleDecision
  <2>3. pc'[d] # "executing"
    <3>1. ~AuditFree
      BY <2>1 DEF AuditFree, Appending
    <3> QED BY <1>1, <2>1, <3>1, Moves DEF RequestDeadlock
  <2>0. plan'[d] = plan[d]
    BY <1>1, <2>1, RowMoves
  <2>4. CASE d \in Holding'
    BY <2>0, <2>1, <2>2, <2>3, <2>4 DEF RequestDeadlock, Holding
  <2>5. CASE ~RowHeld(plan[d].request)'
    BY <2>0, <2>1, <2>2, <2>5 DEF CanDecide, RowHeld
  <2> QED BY <1>1, <2>1, <2>4, <2>5, RowMoves
<1>2. ASSUME IInv, Stuck, BreakDeadlock(d) PROVE Free'
  <2>1. pc[d] = "claimed" /\ TypeOK
    BY <1>2 DEF IInv, CoreInv, RequestDeadlock
  <2>2. CASE Abort(d)
    <3>1. pc'[d] # "claimed" /\ [Next]_vars
      BY <2>1, <2>2, <1>2 DEF TypeOK, Abort, Next, Deployment
    <3> QED BY <1>1, <1>2, <3>1 DEF RequestDeadlock
  <2>3. CASE AbandonDecide
    BY <2>3 DEF AbandonDecide
  <2> QED BY <1>2, <2>1, <2>2, <2>3 DEF BreakDeadlock, EnvironmentDeadlock
<1>3. IInv /\ Stuck /\ [Next]_vars => Stuck' \/ Free'
  BY <1>1
<1>4. IInv /\ Stuck /\ <<BreakDeadlock(d)>>_vars => Free'
  BY <1>2
<1>5. Stuck => Deadlocked(d)
  BY DEF Deadlocked
<1>6. GuardedFairness => (<>[]Deadlocked(d) => []<><<BreakDeadlock(d)>>_vars)
  BY DEF GuardedFairness
<1> HIDE DEF Stuck, Free
<1>7. Spec /\ GuardedFairness => (Stuck ~> Free)
  BY <1>3, <1>4, <1>5, <1>6, InvInit, InvNext, PTL DEF Spec
<1> QED BY <1>7 DEF Stuck, Free

\* Every decision ends.
LEMMA DecisionEnds ==
  Spec /\ GuardedFairness => (deciding # None ~> deciding = None /\ AuditFree)
<1> DEFINE Open == deciding # None
           Ended == deciding = None /\ AuditFree
           Can == CanDecide
           Stuck(d) == RequestDeadlock(d)
           Free == deciding = None \/ CanDecide
<1>1. IInv /\ Open /\ [Next]_vars => Open' \/ Ended'
  BY SoleDecision
<1>2. IInv /\ Open /\ <<EndDecide>>_vars => Ended'
  <2>1. EndDecide => deciding' = None /\ Next
    BY DEF EndDecide, FinishDecide, RefuseDecide, AbandonDecide, Next, Decision
  <2> QED BY <1>1, <2>1
<1>3. ASSUME NEW d \in Deployments
      PROVE  Spec /\ GuardedFairness => [](Stuck(d) => <>Free)
  BY RowIsLeft, PTL
<1>4. IInv /\ ~Free => \E d \in Deployments : Stuck(d)
  <2> SUFFICES ASSUME IInv, deciding # None, RowHeld(deciding.request)
               PROVE  \E d \in Deployments : RequestDeadlock(d)
    BY DEF CanDecide
  <2>1. PICK d \in Holding : plan[d].request = deciding.request
    BY DEF RowHeld
  <2>2. pc[d] # "executing"
    BY <2>1, SoleWriter DEF IInv, CoreInv, Executing, Holding
  <2> QED BY <2>1, <2>2 DEF RequestDeadlock, Holding
<1>5. Free => ~Open \/ Can
  OBVIOUS
<1>6. GuardedFairness => ([]<>Can => []<><<EndDecide>>_vars)
  BY DEF GuardedFairness
<1>7. Open \/ deciding = None
  OBVIOUS
<1> HIDE DEF Open, Ended, Can, Stuck, Free
<1>8. Spec /\ GuardedFairness => \A d \in Deployments : [](Stuck(d) => <>Free)
  BY <1>3
<1>9. (\A d \in Deployments : [](Stuck(d) => <>Free)) =>
        [](\A d \in Deployments : Stuck(d) => <>Free)
  OBVIOUS
<1>10. IInv /\ (\A d \in Deployments : Stuck(d) => <>Free) => (~Free => <>Free)
  BY <1>4
<1>11. Spec /\ GuardedFairness => (Open ~> Ended)
  BY <1>1, <1>2, <1>5, <1>6, <1>8, <1>9, <1>10, Invariant, PTL DEF Spec
<1> QED BY <1>11 DEF Open, Ended

\* So nobody waits for the chain for ever.
LEMMA ChainIsFreeAgain == Spec /\ GuardedFairness => []<>AuditFree
<1> DEFINE Free == AuditFree
           Held(d) == pc[d] = "executing"
           Open == deciding # None
<1>1. ASSUME NEW d \in Deployments
      PROVE  Spec /\ GuardedFairness => [](Held(d) => <>Free)
  BY HolderEnds, PTL
<1>2. ~Free => Open \/ \E d \in Deployments : Held(d)
  BY DEF AuditFree, Appending, Executing
<1>3. Spec /\ GuardedFairness => [](Open => <>Free)
  BY DecisionEnds, PTL
<1> HIDE DEF Held, Free, Open
<1>4. Spec /\ GuardedFairness => \A d \in Deployments : [](Held(d) => <>Free)
  BY <1>1
<1>5. (\A d \in Deployments : [](Held(d) => <>Free)) =>
        [](\A d \in Deployments : Held(d) => <>Free)
  OBVIOUS
<1>6. (\A d \in Deployments : Held(d) => <>Free) => (~Free => Open \/ <>Free)
  BY <1>2
<1>7. Spec /\ GuardedFairness => []<>Free
  BY <1>3, <1>4, <1>5, <1>6, PTL
<1> QED BY <1>7 DEF Free

-----------------------------------------------------------------------------
(* The Environments' rows.                                                 *)

\* What a transaction that ends on its Environment's row leaves: the row is free, and so is
\* the chain if it was.
LEMMA RowReleased ==
  ASSUME NEW e \in Environments
  PROVE  /\ IInv /\ <<FinishOf(e)>>_vars => AuditFree' /\ (lock[e] = "free")'
         /\ IInv /\ <<RefuseSubmit(e)>>_vars =>
              (lock[e] = "free")' /\ (policy[e] = "none")' /\ AuditFree' = AuditFree
<1>1. IInv /\ FinishOf(e) => AuditFree' /\ (lock[e] = "free")'
  BY DEF IInv, CoreInv, TypeOK, FinishOf, FinishRename, FinishRetire, FinishSubmit, Unlock,
         AuditFree, Appending, Executing, requestVars
<1>2. IInv /\ RefuseSubmit(e) =>
        (lock[e] = "free")' /\ (policy[e] = "none")' /\ AuditFree' = AuditFree
  BY DEF IInv, CoreInv, TypeOK, RefuseSubmit, Unlock, AuditFree, Appending, Executing,
         deployVars, policyVars, requestVars
<1> QED BY <1>1, <1>2

\* A row is locked until its transaction finds the chain free, or the policy without the
\* entry it needs.
LEMMA RowIsFreeAgain ==
  ASSUME NEW e \in Environments
  PROVE  Spec /\ GuardedFairness => (lock[e] # "free" ~> lock[e] = "free")
<1> DEFINE Open == lock[e] = "free"
<1>1. IInv /\ <<FinishOf(e)>>_vars => Open'
  BY RowReleased
<1>2. IInv /\ <<RefuseSubmit(e)>>_vars => Open'
  BY RowReleased
<1>3. AuditFree /\ ~Open => CanFinish(e) \/ CanRefuse(e)
  BY DEF CanFinish, CanRefuse
<1>4. GuardedFairness => ([]<>CanFinish(e) => []<><<FinishOf(e)>>_vars)
  BY DEF GuardedFairness
<1>5. GuardedFairness => ([]<>CanRefuse(e) => []<><<RefuseSubmit(e)>>_vars)
  BY DEF GuardedFairness
<1>6. (lock[e] # "free") <=> ~Open
  OBVIOUS
<1> HIDE DEF Open
<1>7. Spec /\ GuardedFairness => (lock[e] # "free" ~> Open)
  BY <1>1, <1>2, <1>3, <1>4, <1>5, <1>6, ChainIsFreeAgain, Invariant, PTL
<1> QED BY <1>7 DEF Open

\* Under a held chain the policy stands, and no submission starts without its entry.
LEMMA NoSubmissionUnderChain ==
  ASSUME NEW e \in Environments
  PROVE  /\ TypeOK
         /\ ~AuditFree /\ policy[e] = "none" /\ lock[e] # "submit"
         /\ [Next]_vars
         => (policy[e] = "none")' /\ (lock[e] # "submit")'
<1> SUFFICES ASSUME TypeOK, ~AuditFree, policy[e] = "none", lock[e] # "submit", [Next]_vars
             PROVE  policy' = policy /\ lock'[e] # "submit"
  OBVIOUS
<1>1. ASSUME NEW f \in Environments, Environment(f)
      PROVE  policy' = policy /\ lock'[e] # "submit"
  <2>1. CASE StartRename(f) \/ StartRetire(f)
    BY <2>1 DEF StartRename, StartRetire, Lock, policyVars, TypeOK
  <2>2. CASE \E v \in Versions, r \in Requests, skip \in BOOLEAN : StartSubmit(f, v, r, skip)
    BY <2>2 DEF StartSubmit, Lock, policyVars, TypeOK
  <2>3. CASE FinishRename(f) \/ FinishRetire(f) \/ FinishSubmit(f)
    BY <2>3 DEF FinishRename, FinishRetire, FinishSubmit
  <2>4. CASE RefuseSubmit(f) \/ AbandonEnvironment(f)
    BY <2>4 DEF RefuseSubmit, AbandonEnvironment, Unlock, policyVars, TypeOK
  <2> QED BY <1>1, <2>1, <2>2, <2>3, <2>4 DEF Environment
<1>2. CASE Decision
  BY <1>2 DEF Decision, StartDecide, FinishDecide, RefuseDecide, AbandonDecide, environmentVars,
              policyVars
<1>3. CASE Policy
  BY <1>3 DEF Policy, StartSavePolicy, FinishSavePolicy, AbandonSavePolicy, environmentVars
<1>4. ASSUME NEW d \in Deployments, Deployment(d)
      PROVE  policy' = policy /\ lock'[e] # "submit"
  <2>1. CASE BreakDeadlock(d)
    BY <2>1 DEF BreakDeadlock, Abort, AbandonEnvironment, AbandonDecide, Unlock, policyVars,
                environmentVars, TypeOK
  <2>2. CASE ~BreakDeadlock(d)
    BY <1>4, <2>2 DEF Deployment, CheckUngated, CheckGated, CheckRollback, Check, Claim, Execute,
       RefuseExecuted, CommitWithoutRequest, CommitExecuted, Commit, Abort, policyVars,
       environmentVars
  <2> QED BY <2>1, <2>2
<1>5. CASE UNCHANGED vars
  BY <1>5 DEF vars, policyVars, environmentVars
<1> QED BY <1>1, <1>2, <1>3, <1>4, <1>5 DEF Next

\* The chain and a row are free together again and again.  If the row were locked whenever
\* the chain is free, only refusals could release it, each while a transaction holds the
\* chain; but no submission starts before that one ends, and then there is none to refuse.
LEMMA BothAreFreeAgain ==
  ASSUME NEW e \in Environments
  PROVE  Spec /\ GuardedFairness => []<>(AuditFree /\ lock[e] = "free")
<1> DEFINE Open == lock[e] = "free"
           Bare == policy[e] = "none" /\ lock[e] # "submit"
<1>1. IInv /\ <<FinishOf(e)>>_vars => AuditFree' /\ Open'
  BY RowReleased
<1>2. IInv /\ <<RefuseSubmit(e)>>_vars => Open' /\ Bare' /\ (AuditFree' <=> AuditFree)
  BY RowReleased
<1>3. AuditFree /\ ~Open => CanFinish(e) \/ CanRefuse(e)
  BY DEF CanFinish, CanRefuse
<1>4. Bare => ~CanRefuse(e)
  BY DEF CanRefuse
<1>5. IInv /\ ~AuditFree /\ Bare /\ [Next]_vars => Bare'
  BY NoSubmissionUnderChain DEF IInv, CoreInv
<1>6. GuardedFairness => ([]<>CanFinish(e) => []<><<FinishOf(e)>>_vars)
  BY DEF GuardedFairness
<1>7. GuardedFairness => ([]<>CanRefuse(e) => []<><<RefuseSubmit(e)>>_vars)
  BY DEF GuardedFairness
<1> HIDE DEF Open, Bare
<1>8. Spec /\ GuardedFairness => []<>(AuditFree /\ Open)
  BY <1>1, <1>2, <1>3, <1>4, <1>5, <1>6, <1>7, ChainIsFreeAgain, Invariant, PTL DEF Spec
<1> QED BY <1>8 DEF Open

-----------------------------------------------------------------------------
(* The requests' rows.                                                     *)

\* A deploy that has its request's row finds the chain free, and goes on.
LEMMA ClaimGoesOn ==
  ASSUME NEW d \in Deployments
  PROVE  Spec /\ GuardedFairness => (pc[d] = "claimed" ~> ~(pc[d] = "claimed"))
<1> DEFINE Claimed == pc[d] = "claimed"
           Gone == ~(pc[d] = "claimed")
           Free == AuditFree
<1>1. IInv /\ Claimed /\ <<EndOf(d)>>_vars => Gone'
  BY DEF IInv, CoreInv, TypeOK, EndOf, Claim, Execute, RefuseExecuted, CommitWithoutRequest,
         CommitExecuted, Commit
<1>2. Claimed /\ Free => CanEnd(d)
  BY DEF CanEnd
<1>3. GuardedFairness => ([]<>CanEnd(d) => []<><<EndOf(d)>>_vars)
  BY DEF GuardedFairness
<1>4. Spec /\ GuardedFairness => []<>Free
  BY ChainIsFreeAgain
<1>5. Claimed \/ Gone
  OBVIOUS
<1> HIDE DEF Claimed, Gone, Free
<1>6. Spec /\ GuardedFairness => (Claimed ~> Gone)
  BY <1>1, <1>2, <1>3, <1>4, <1>5, Invariant, PTL
<1> QED BY <1>6 DEF Claimed, Gone

\* A request's row is held until its deploy ends.
LEMMA HolderLeaves ==
  ASSUME NEW r \in Requests, NEW d \in Deployments
  PROVE  Spec /\ GuardedFairness =>
           (d \in Holding /\ plan[d].request = r ~> ~RowHeld(r))
<1> DEFINE Has == d \in Holding /\ plan[d].request = r
           Free == ~RowHeld(r)
           Claimed == pc[d] = "claimed"
           Held == pc[d] = "executing"
           Ended == AuditFree /\ pc[d] \notin Unfinished
<1>1. ASSUME IInv, Has, [Next]_vars PROVE Has' \/ Free'
  <2>0. plan'[d] = plan[d]
    BY <1>1, RowMoves
  <2>1. CASE d \in Holding'
    BY <1>1, <2>0, <2>1
  <2>2. CASE ~RowHeld(plan[d].request)'
    BY <1>1, <2>0, <2>2 DEF RowHeld
  <2> QED BY <1>1, <2>1, <2>2, RowMoves
<1>2. IInv /\ Has /\ [Next]_vars => Has' \/ Free'
  BY <1>1
<1>3. Has => Claimed \/ Held
  BY DEF Holding
<1>4. Ended => ~Has
  BY DEF Holding, Unfinished
<1>5. Spec /\ GuardedFairness => (Claimed ~> ~Claimed)
  BY ClaimGoesOn
<1>6. Spec /\ GuardedFairness => (Held ~> Ended)
  BY HolderEnds
<1> HIDE DEF Has, Free, Claimed, Held, Ended
<1>7. Spec /\ GuardedFairness => (Has ~> Free)
  BY <1>2, <1>3, <1>4, <1>5, <1>6, Invariant, PTL DEF Spec
<1> QED BY <1>7 DEF Has, Free

\* So every request's row is free again and again.
LEMMA RequestIsFreeAgain ==
  ASSUME NEW r \in Requests
  PROVE  Spec /\ GuardedFairness => []<>~RowHeld(r)
<1> DEFINE Free == ~RowHeld(r)
           Has(d) == d \in Holding /\ plan[d].request = r
<1>1. ASSUME NEW d \in Deployments
      PROVE  Spec /\ GuardedFairness => [](Has(d) => <>Free)
  BY HolderLeaves, PTL
<1>2. ~Free => \E d \in Deployments : Has(d)
  BY DEF RowHeld, Holding
<1> HIDE DEF Has, Free
<1>3. Spec /\ GuardedFairness => \A d \in Deployments : [](Has(d) => <>Free)
  BY <1>1
<1>4. (\A d \in Deployments : [](Has(d) => <>Free)) =>
        [](\A d \in Deployments : Has(d) => <>Free)
  OBVIOUS
<1>5. (\A d \in Deployments : Has(d) => <>Free) => (~Free => <>Free)
  BY <1>2
<1>6. Spec /\ GuardedFairness => []<>Free
  BY <1>3, <1>4, <1>5, PTL
<1> QED BY <1>6 DEF Free

-----------------------------------------------------------------------------
(* The deploys.                                                            *)

\* A deploy that passed its checks finds what it waits for free, and goes on: with a request
\* that is the request's row, without one the chain and the Environment's row.
LEMMA CheckedGoesOn ==
  ASSUME NEW d \in Deployments, NEW p \in Plans
  PROVE  Spec /\ GuardedFairness => (pc[d] = "checked" /\ plan[d] = p ~> pc[d] # "checked")
<1> DEFINE Waiting == pc[d] = "checked" /\ plan[d] = p
           Gone == pc[d] # "checked"
           Ready == IF p.request = None THEN AuditFree /\ lock[p.env] = "free"
                                        ELSE ~RowHeld(p.request)
<1>1. TypeOK /\ Waiting /\ [Next]_vars => Waiting' \/ Gone'
  BY Moves
<1>2. IInv /\ Waiting /\ <<EndOf(d)>>_vars => Gone'
  BY DEF IInv, CoreInv, TypeOK, EndOf, Claim, Execute, RefuseExecuted, CommitWithoutRequest,
         CommitExecuted, Commit
<1>3. Waiting /\ Ready => CanEnd(d)
  BY DEF CanEnd
<1>4. GuardedFairness => ([]<>CanEnd(d) => []<><<EndOf(d)>>_vars)
  BY DEF GuardedFairness
<1>5. Spec /\ GuardedFairness => []<>Ready
  <2>1. CASE p.request = None
    <3>0. PICK e \in Environments : e = p.env
      BY DEF Plans
    <3> DEFINE Both == AuditFree /\ lock[e] = "free"
    <3>1. Spec /\ GuardedFairness => []<>Both
      BY BothAreFreeAgain
    <3>2. Both <=> Ready
      BY <2>1, <3>0
    <3> HIDE DEF Both, Ready
    <3> QED BY <3>1, <3>2, PTL
  <2>2. CASE p.request # None
    <3>0. PICK r \in Requests : r = p.request
      BY <2>2 DEF Plans
    <3> DEFINE Row == ~RowHeld(r)
    <3>1. Spec /\ GuardedFairness => []<>Row
      BY RequestIsFreeAgain
    <3>2. Row <=> Ready
      BY <2>2, <3>0
    <3> HIDE DEF Row, Ready
    <3> QED BY <3>1, <3>2, PTL
  <2> QED BY <2>1, <2>2
<1>6. IInv => TypeOK
  BY DEF IInv, CoreInv
<1> HIDE DEF Waiting, Gone, Ready
<1>7. Spec /\ GuardedFairness => (Waiting ~> Gone)
  BY <1>1, <1>2, <1>3, <1>4, <1>5, <1>6, Invariant, PTL DEF Spec
<1> QED BY <1>7 DEF Waiting, Gone

\* Whatever its plan is.
LEMMA DeployEnds ==
  ASSUME NEW d \in Deployments
  PROVE  Spec /\ GuardedFairness => (pc[d] \in Unfinished ~> pc[d] \notin Unfinished)
<1> DEFINE Waiting(p) == pc[d] = "checked" /\ plan[d] = p
           Gone == pc[d] # "checked"
           Claimed == pc[d] = "claimed"
           Held == pc[d] = "executing"
           Live == pc[d] \in Unfinished
           Ended == pc[d] \notin Unfinished
<1>1. ASSUME NEW p \in Plans
      PROVE  Spec /\ GuardedFairness => [](Waiting(p) => <>Gone)
  BY CheckedGoesOn, PTL
<1>2. TypeOK /\ ~Gone => \E p \in Plans : Waiting(p)
  BY DEF TypeOK
<1>3. Spec /\ GuardedFairness => (Held ~> AuditFree /\ Ended)
  BY HolderEnds
<1>4. Gone => Claimed \/ Held \/ Ended
  BY DEF Unfinished
<1>5. Spec /\ GuardedFairness => (Claimed ~> ~Claimed)
  BY ClaimGoesOn
<1>6. TypeOK /\ Claimed /\ [Next]_vars => (Claimed \/ Held \/ Ended)'
  BY Moves DEF Unfinished
<1> HIDE DEF Waiting, Gone, Claimed, Held, Live, Ended
<1>7. Spec /\ GuardedFairness => \A p \in Plans : [](Waiting(p) => <>Gone)
  BY <1>1
<1>8. (\A p \in Plans : [](Waiting(p) => <>Gone)) =>
        [](\A p \in Plans : Waiting(p) => <>Gone)
  OBVIOUS
<1>9. TypeOK /\ (\A p \in Plans : Waiting(p) => <>Gone) => (~Gone => <>Gone)
  BY <1>2
<1>10. Spec /\ GuardedFairness => (Live ~> Ended)
  BY <1>3, <1>4, <1>5, <1>6, <1>7, <1>8, <1>9, TypeCorrect, PTL DEF Spec
<1> QED BY <1>10 DEF Live, Ended

-----------------------------------------------------------------------------
(* The theorems.                                                           *)

\* No lock is held for ever: every deploy that passed its checks ends, every Environment
\* becomes free again, and so does the chain of every decision.
THEOREM TransactionsEnd == Spec /\ GuardedFairness => EveryTransactionEnds
<1>1. Spec /\ GuardedFairness =>
        \A d \in Deployments : pc[d] \in Unfinished ~> pc[d] \notin Unfinished
  BY DeployEnds
<1>2. Spec /\ GuardedFairness => \A e \in Environments : lock[e] # "free" ~> lock[e] = "free"
  BY RowIsFreeAgain
<1>3. Spec /\ GuardedFairness => (deciding # None ~> deciding = None)
  BY DecisionEnds, PTL
<1> QED BY <1>1, <1>2, <1>3 DEF EveryTransactionEnds

\* Nor do they all wait for each other: somebody can go on, or the detector can, and there are
\* two shapes of deadlock for it to break.
THEOREM NobodyWaitsInVain == Spec => []SomeoneProceeds
<1>1. IInv => SomeoneProceeds
  <2> SUFFICES ASSUME IInv PROVE SomeoneProceeds
    OBVIOUS
  <2>1. CASE \E d \in Deployments : pc[d] = "executing"
    BY <2>1 DEF SomeoneProceeds, CanEnd, EnvironmentDeadlock
  <2>2. CASE deciding # None
    <3>1. CASE RowHeld(deciding.request)
      <4>1. PICK d \in Holding : plan[d].request = deciding.request
        BY <3>1 DEF RowHeld
      <4>2. pc[d] # "executing"
        BY <2>2, <4>1, SoleWriter DEF IInv, CoreInv, Executing, Holding
      <4> QED BY <2>2, <4>1, <4>2 DEF SomeoneProceeds, RequestDeadlock, Holding
    <3>2. CASE ~RowHeld(deciding.request)
      BY <2>2, <3>2 DEF SomeoneProceeds, CanDecide
    <3> QED BY <3>1, <3>2
  <2>3. CASE AuditFree /\ \E e \in Environments : lock[e] # "free"
    BY <2>3 DEF SomeoneProceeds, CanFinish, CanRefuse
  <2>4. CASE AuditFree /\ \A e \in Environments : lock[e] = "free"
    <3>1. \A d \in Deployments : pc[d] = "checked" => plan[d].env \in Environments
      BY DEF IInv, CoreInv, TypeOK, Plans
    <3>2. CASE \E d \in Deployments : pc[d] = "claimed"
      BY <2>4, <3>2 DEF SomeoneProceeds, CanEnd
    <3>3. CASE \A d \in Deployments : pc[d] \notin {"claimed", "executing"}
      <4>1. \A r : ~RowHeld(r)
        BY <3>3 DEF RowHeld, Holding
      <4>2. \A d \in Deployments : pc[d] = "checked" => CanEnd(d)
        BY <2>4, <3>1, <4>1 DEF CanEnd
      <4>3. deciding = None
        BY <2>4 DEF AuditFree, Appending
      <4> QED BY <2>4, <3>3, <4>2, <4>3 DEF SomeoneProceeds, Unfinished
    <3> QED BY <2>1, <3>2, <3>3
  <2> QED BY <2>1, <2>2, <2>3, <2>4 DEF AuditFree, Appending, Executing
<1> QED BY <1>1, Invariant, PTL
===========================================================================
