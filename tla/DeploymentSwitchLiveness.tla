---------------------- MODULE DeploymentSwitchLiveness ----------------------
(***************************************************************************)
(* What the reconciler repairs in DeploymentSwitch, for any processes,     *)
(* deploys, workspaces and Environments: fairness is GuardedPasses, the    *)
(* form of FairProcess the provers can instantiate.                        *)
(***************************************************************************)
EXTENDS DeploymentSwitchProofs

\* The deploys into an Environment are of one workspace.  _latest_deployments reads one row
\* per Environment: where two workspaces share one, the row of the other hides this one's.
OneWorkspaceEach ==
  \A d1, d2 \in Deploys : EnvironmentOf[d1] = EnvironmentOf[d2] => WorkspaceOf[d1] = WorkspaceOf[d2]

-----------------------------------------------------------------------------
(* The invariant: what a process has before it starts and between passes,  *)
(* and that a listener listens to every channel redis-py knows of.         *)

FreshIsEmpty ==
  \A p \in Processes : status[p] = "new" =>
    listener[p] = "off" /\ subscribed[p] = {} /\ inbox[p] = <<>> /\ passPhase[p] = "idle"

PassesAreClean ==
  \A p \in Processes :
    /\ passPhase[p] = "idle" => touched[p] = {}
    /\ passPhase[p] # "idle" => status[p] \in {"joined", "up"}

ListensToAll ==
  \A p \in Processes : Alive(p) =>
    /\ channels[p] \subseteq serves[p]
    /\ listener[p] \in {"on", "off"} => channels[p] \subseteq subscribed[p]

MemberInv == FreshIsEmpty /\ PassesAreClean /\ ListensToAll

FullInv == TypeOK /\ StampsBounded /\ RecordInv /\ MemberInv

\* Before any process starts there is nothing to clean.
LEMMA MemberInit == Init => MemberInv
BY DEF Init, MemberInv, FreshIsEmpty, PassesAreClean, ListensToAll, Alive

\* A coordinator reaches only the processes that are subscribed.
LEMMA MemberCoordinator ==
  ASSUME TypeOK, MemberInv, NEW d \in Deploys, CoordinatorStep(d)
  PROVE  MemberInv'
<1> USE DEF MemberInv, FreshIsEmpty, PassesAreClean, ListensToAll, Alive
<1>1. CASE PublishPrepare(d) \/ PublishCommit(d)
  <2>1. UNCHANGED <<subscribed, passVars, memberVars>>
    BY <1>1 DEF PublishPrepare, PublishCommit
  <2>2. \A p \in Processes : subscribed[p] = {} => inbox'[p] = inbox[p]
    BY <1>1 DEF PublishPrepare, PublishCommit, Publish
  <2> QED BY <2>1, <2>2 DEF passVars, memberVars
<1>2. CASE ~(PublishPrepare(d) \/ PublishCommit(d))
  <2>1. UNCHANGED <<subscribed, inbox, passVars, memberVars>>
    BY <1>2 DEF CoordinatorStep, Open, FinishPrepare, Prune, ShortPrepare, CommitRow,
       FinishCommit, CoordinatorDies, redisVars
  <2> QED BY <2>1 DEF passVars, memberVars
<1> QED BY <1>1, <1>2

\* A step of a process leaves the others as they were.
LEMMA OthersUntouched ==
  ASSUME TypeOK, NEW p \in Processes, NEW q \in Processes \ {p}, ProcessStep(q)
  PROVE  /\ status'[p] = status[p] /\ listener'[p] = listener[p] /\ serves'[p] = serves[p]
         /\ channels'[p] = channels[p]
         /\ subscribed'[p] = subscribed[p] /\ inbox'[p] = inbox[p] /\ live'[p] = live[p]
         /\ passPhase'[p] = passPhase[p] /\ passEnvs'[p] = passEnvs[p]
         /\ passRow'[p] = passRow[p] /\ touched'[p] = touched[p]
<1> USE DEF TypeOK, redisVars, passVars, memberVars
<1>1. CASE Subscribe(q) \/ Join(q) \/ Disconnect(q) \/ Reconnect(q) \/ ListenerDies(q)
  BY <1>1 DEF Subscribe, Join, Disconnect, Reconnect, ListenerDies
<1>2. CASE HandlePrepare(q) \/ Acknowledge(q)
  BY <1>2 DEF HandlePrepare, Takes, Acknowledge
<1>3. CASE HandleCommit(q)
  <2> DEFINE d == Head(inbox[q]).deploy
  <2>1. Swap(q, d) /\ inbox' = [inbox EXCEPT ![q] = Tail(@)]
    BY <1>3 DEF HandleCommit, Takes
  <2>2. live'[p] = live[p] /\ touched'[p] = touched[p]
    BY <2>1 DEF Swap
  <2> QED BY <1>3, <2>1, <2>2 DEF HandleCommit, Takes
<1>4. CASE Crash(q) \/ Stop(q)
  BY <1>4 DEF Crash, Stop, Gone, PassEnds
<1>5. CASE RedisDrops(q)
  BY <1>5 DEF RedisDrops
<1>6. CASE PassBegin(q) \/ PassRead(q) \/ EnsureSubscribe(q) \/ EnsureJoin(q)
  BY <1>6 DEF PassBegin, PassRead, EnsureSubscribe, EnsureJoin
<1>7. CASE PassApply(q) \/ SubscribeFails(q) \/ PassFail(q)
  BY <1>7 DEF PassApply, PassFail, PassEnds, SubscribeFails
<1> QED BY <1>1, <1>2, <1>3, <1>4, <1>5, <1>6, <1>7 DEF ProcessStep, ListenerStep, PassStep

\* The invariant, of one process.
MemberOf(p) ==
  /\ status[p] = "new" =>
       listener[p] = "off" /\ subscribed[p] = {} /\ inbox[p] = <<>> /\ passPhase[p] = "idle"
  /\ passPhase[p] = "idle" => touched[p] = {}
  /\ passPhase[p] # "idle" => status[p] \in {"joined", "up"}
  /\ Alive(p) => channels[p] \subseteq serves[p]
  /\ Alive(p) /\ listener[p] \in {"on", "off"} => channels[p] \subseteq subscribed[p]

\* A process keeps its own part of the invariant.
LEMMA MemberOwn ==
  ASSUME TypeOK, NEW p \in Processes, MemberOf(p), ProcessStep(p)
  PROVE  MemberOf(p)'
<1> USE DEF TypeOK, MemberOf, Alive, redisVars, passVars, memberVars
<1>1. CASE Subscribe(p)
  BY <1>1 DEF Subscribe
<1>9. CASE Join(p)
  BY <1>9 DEF Join
<1>10. CASE Disconnect(p)
  BY <1>10 DEF Disconnect
<1>11. CASE Reconnect(p) \/ ListenerDies(p)
  BY <1>11 DEF Reconnect, ListenerDies
<1>2. CASE HandlePrepare(p) \/ Acknowledge(p)
  BY <1>2 DEF HandlePrepare, Takes, Acknowledge
<1>3. CASE HandleCommit(p)
  <2> DEFINE d == Head(inbox[p]).deploy
  <2>1. Swap(p, d) /\ inbox[p] # <<>>
    BY <1>3 DEF HandleCommit, Takes
  <2>2. passPhase[p] = "idle" => touched'[p] = touched[p]
    BY <2>1 DEF Swap
  <2> QED BY <1>3, <2>1, <2>2 DEF HandleCommit, Takes
<1>4. CASE Crash(p) \/ Stop(p)
  BY <1>4 DEF Crash, Stop, Gone, PassEnds
<1>5. CASE RedisDrops(p)
  BY <1>5 DEF RedisDrops
<1>6. CASE PassBegin(p)
  BY <1>6 DEF PassBegin
<1>12. CASE PassRead(p)
  BY <1>12 DEF PassRead
<1>13. CASE EnsureJoin(p)
  BY <1>13 DEF EnsureJoin
<1>7. CASE EnsureSubscribe(p)
  BY <1>7 DEF EnsureSubscribe, Wanted
<1>8. CASE PassApply(p) \/ SubscribeFails(p) \/ PassFail(p)
  BY <1>8 DEF PassApply, PassFail, PassEnds, SubscribeFails
<1> QED BY <1>1, <1>2, <1>3, <1>4, <1>5, <1>6, <1>7, <1>8, <1>9, <1>10, <1>11, <1>12, <1>13
        DEF ProcessStep, ListenerStep, PassStep

\* Every step keeps the invariant.
LEMMA FullStep == FullInv /\ [Next]_vars => FullInv'
<1> SUFFICES ASSUME FullInv, [Next]_vars PROVE FullInv'
  OBVIOUS
<1>1. TypeOK' /\ StampsBounded' /\ RecordInv'
  BY TypeStep, StampsStep, RecordStep DEF FullInv
<1>2. MemberInv'
  <2>1. ASSUME NEW q \in Processes, ProcessStep(q) PROVE MemberInv'
    <3>1. \A p \in Processes : MemberOf(p)
      BY DEF FullInv, MemberInv, FreshIsEmpty, PassesAreClean, ListensToAll, MemberOf
    <3>2. ASSUME NEW p \in Processes PROVE MemberOf(p)'
      <4>1. CASE p = q
        BY <2>1, <3>1, <4>1, MemberOwn DEF FullInv
      <4>2. CASE p # q
        BY <2>1, <3>1, <4>2, OthersUntouched DEF FullInv, MemberOf, Alive
      <4> QED BY <4>1, <4>2
    <3> QED BY <3>2 DEF MemberInv, FreshIsEmpty, PassesAreClean, ListensToAll, MemberOf
  <2>2. CASE \E e \in Environments : CreateEnvironment(e)
    BY <2>2 DEF CreateEnvironment, FullInv, MemberInv, FreshIsEmpty, PassesAreClean, ListensToAll,
                Alive, redisVars, passVars, memberVars
  <2>3. CASE UNCHANGED vars
    BY <2>3 DEF vars, FullInv, MemberInv, FreshIsEmpty, PassesAreClean, ListensToAll,
                Alive, redisVars, passVars, memberVars
  <2> QED BY <2>1, <2>2, <2>3, MemberCoordinator DEF Next, FullInv
<1> QED BY <1>1, <1>2 DEF FullInv

\* Every reachable state satisfies the invariant.
LEMMA FullHolds == Spec => []FullInv
<1>1. Init => FullInv
  BY TypeInit, RecordInit, MemberInit DEF FullInv
<1> QED BY <1>1, FullStep, PTL DEF Spec

-----------------------------------------------------------------------------
(* A process that starts when no deploy is in flight.                      *)

\* With one workspace per Environment, a read finds the newest row of every key.
LEMMA ReadFindsNewest ==
  ASSUME TypeOK, StampsBounded, OneWorkspaceEach, NEW k \in Keys, RowsOf(k) # {}
  PROVE  LET d == LatestDeployments[k[2]] IN d = Newest(RowsOf(k)) /\ d # None /\ Key(d) = k
<1>1. PICK c \in rows : Key(c) = k
  BY DEF RowsOf
<1>2. k[2] \in Environments /\ k = <<k[1], k[2]>>
  BY DEF Keys
<1>3. rows \subseteq Deploys
  BY DEF TypeOK
<1>4. EnvironmentOf[c] = k[2] /\ WorkspaceOf[c] = k[1]
  BY <1>1, <1>2 DEF Key
<1>5. RowsIn(k[2]) = RowsOf(k)
  <2>1. \A d \in rows : EnvironmentOf[d] = k[2] => WorkspaceOf[d] = k[1]
    BY <1>1, <1>3, <1>4 DEF OneWorkspaceEach
  <2> QED BY <1>2, <2>1 DEF RowsIn, RowsOf, Key
<1>6. RowsOf(k) \in SUBSET Deploys
  BY <1>3 DEF RowsOf
<1>7. Newest(RowsOf(k)) \in RowsOf(k)
  BY <1>6, NewestIsNewest
<1> QED BY <1>2, <1>3, <1>5, <1>7, SmallConstants DEF LatestDeployments, RowsOf

\* Nothing is on its way to the process, and what its pass read is still the latest.
Undisturbed(p) ==
  /\ Settled
  /\ inbox[p] = <<>> /\ touched[p] = {}
  /\ PassHasRead(p) => passRow[p] = LatestDeployments
  /\ status[p] = "up" => ServesLatest(p)

\* Once no deploy is in flight no row is committed and nothing is published.
LEMMA SettledIsQuiet ==
  ASSUME TypeOK, Settled, NEW d \in Deploys
  PROVE  ~CoordinatorStep(d)
BY DEF Settled, CoordinatorStep, Open, PublishPrepare, FinishPrepare, Prune, ShortPrepare,
       CommitRow, PublishCommit, FinishCommit, CoordinatorDies, InTransaction

\* What a process reads and serves depends on the rows only.
LEMMA ServesSame ==
  ASSUME NEW p \in Processes, UNCHANGED <<rows, stamp>>
  PROVE  /\ LatestDeployments' = LatestDeployments
         /\ live'[p] = live[p] => (ServesLatest(p)' <=> ServesLatest(p))
BY DEF LatestDeployments, ServesLatest, Newest, RowsIn, RowsOf, Key

\* Its own steps leave the process undisturbed, and its start-up load finds every newest row.
LEMMA UndisturbedOwn ==
  ASSUME FullInv, OneWorkspaceEach, NEW p \in Processes, Undisturbed(p), ProcessStep(p)
  PROVE  Undisturbed(p)'
<1>1. TypeOK /\ StampsBounded
  BY DEF FullInv
<1>2. UNCHANGED <<rows, stamp, pc>>
  BY DEF ProcessStep, ListenerStep, PassStep, Subscribe, Join, HandlePrepare, HandleCommit,
     PassBegin, PassRead, EnsureSubscribe, EnsureJoin, PassApply, Disconnect, Reconnect,
     ListenerDies, Crash, Stop, Gone, RedisDrops, PassFail, dbVars, coordVars, Takes,
     Acknowledge, SubscribeFails
<1>3. Settled' /\ LatestDeployments' = LatestDeployments
  BY <1>2, ServesSame DEF Settled, Undisturbed
<1>4. ~HandlePrepare(p) /\ ~HandleCommit(p)
  BY DEF Undisturbed, HandlePrepare, HandleCommit, Takes
<1>5. CASE Subscribe(p) \/ Join(p) \/ Acknowledge(p) \/ Reconnect(p) \/ ListenerDies(p)
  <2>1. UNCHANGED <<inbox, passVars, live>> /\ (status'[p] = "up" => status[p] = "up")
    BY <1>1, <1>5 DEF Subscribe, Join, Acknowledge, Reconnect, ListenerDies, TypeOK, redisVars
  <2> QED BY <1>2, <1>3, <2>1, ServesSame DEF Undisturbed, PassHasRead, passVars
<1>6. CASE Disconnect(p) \/ RedisDrops(p)
  <2>1. inbox'[p] = <<>> /\ UNCHANGED <<passVars, live, status>>
    BY <1>1, <1>6 DEF Disconnect, RedisDrops, TypeOK, memberVars
  <2> QED BY <1>2, <1>3, <2>1, ServesSame DEF Undisturbed, PassHasRead, passVars
<1>7. CASE Crash(p) \/ Stop(p)
  <2>1. inbox'[p] = <<>> /\ touched'[p] = {} /\ passPhase'[p] = "idle" /\ status'[p] = "gone"
    BY <1>1, <1>7 DEF Crash, Stop, Gone, PassEnds, TypeOK
  <2> QED BY <1>3, <2>1 DEF Undisturbed, PassHasRead
<1>8. CASE PassBegin(p) \/ EnsureSubscribe(p) \/ EnsureJoin(p)
  <2>1. UNCHANGED <<inbox, touched, passRow, live, status>>
    BY <1>8 DEF PassBegin, EnsureSubscribe, EnsureJoin, memberVars, redisVars
  <2>2. PassHasRead(p)' => PassHasRead(p)
    BY <1>1, <1>8 DEF PassBegin, EnsureSubscribe, EnsureJoin, PassHasRead, TypeOK
  <2> QED BY <1>2, <1>3, <2>1, <2>2, ServesSame DEF Undisturbed
<1>9. CASE PassRead(p)
  <2>1. UNCHANGED <<inbox, touched, live, status>> /\ passRow'[p] = LatestDeployments
    BY <1>1, <1>9 DEF PassRead, memberVars, redisVars, TypeOK
  <2> QED BY <1>2, <1>3, <2>1, ServesSame DEF Undisturbed
<1>10. CASE PassApply(p)
  <2>1. inbox' = inbox /\ touched'[p] = {} /\ passPhase'[p] = "idle"
    BY <1>1, <1>10 DEF PassApply, PassEnds, redisVars, TypeOK
  <2>2. touched[p] = {} /\ passRow[p] = LatestDeployments
    BY <1>10 DEF PassApply, Undisturbed, PassHasRead
  <2>3. live'[p] = [k \in Keys |-> Reconciled(p, k)]
    BY <1>1, <1>10 DEF PassApply, TypeOK
  <2>4. ASSUME NEW k \in Keys, RowsOf(k) # {} PROVE live'[p][k] = Newest(RowsOf(k))
    BY <1>1, <2>2, <2>3, <2>4, ReadFindsNewest DEF Reconciled
  <2>5. \A k \in Keys : RowsOf(k)' = RowsOf(k) /\ Newest(RowsOf(k))' = Newest(RowsOf(k))
    BY <1>2 DEF RowsOf, Newest, Key
  <2>6. ServesLatest(p)'
    BY <2>4, <2>5 DEF ServesLatest
  <2> QED BY <1>3, <2>1, <2>6 DEF Undisturbed, PassHasRead
<1>11. CASE SubscribeFails(p) \/ PassFail(p)
  <2>1. UNCHANGED <<inbox, live, status>> /\ touched'[p] = {} /\ passPhase'[p] = "idle"
    BY <1>1, <1>11 DEF PassFail, PassEnds, memberVars, redisVars, TypeOK, SubscribeFails
  <2> QED BY <1>2, <1>3, <2>1, ServesSame DEF Undisturbed, PassHasRead
<1> QED BY <1>4, <1>5, <1>6, <1>7, <1>8, <1>9, <1>10, <1>11
        DEF ProcessStep, ListenerStep, PassStep

\* Nor does anybody else disturb it.
LEMMA UndisturbedStep ==
  ASSUME NEW p \in Processes
  PROVE  FullInv /\ OneWorkspaceEach /\ Undisturbed(p) /\ [Next]_vars => Undisturbed(p)'
<1> SUFFICES ASSUME FullInv, OneWorkspaceEach, Undisturbed(p), [Next]_vars PROVE Undisturbed(p)'
  OBVIOUS
<1>1. CASE ProcessStep(p)
  BY <1>1, UndisturbedOwn
<1>2. ASSUME NEW q \in Processes \ {p}, ProcessStep(q) PROVE Undisturbed(p)'
  <2>1. UNCHANGED <<rows, stamp, pc>>
    BY <1>2 DEF ProcessStep, ListenerStep, PassStep, Subscribe, Join, HandlePrepare, HandleCommit,
       PassBegin, PassRead, EnsureSubscribe, EnsureJoin, PassApply, Disconnect, Reconnect,
       ListenerDies, Crash, Stop, Gone, RedisDrops, PassFail, dbVars, coordVars, Takes,
       Acknowledge, SubscribeFails
  <2> QED BY <1>2, <2>1, OthersUntouched, ServesSame
          DEF FullInv, Undisturbed, PassHasRead, Settled
<1>3. CASE (\E e \in Environments : CreateEnvironment(e)) \/ UNCHANGED vars
  <2>1. UNCHANGED <<rows, stamp, coordVars, redisVars, passVars, memberVars>>
    BY <1>3 DEF CreateEnvironment, vars, dbVars
  <2> QED BY <2>1, ServesSame
          DEF Undisturbed, PassHasRead, Settled, coordVars, redisVars, passVars, memberVars
<1> QED BY <1>1, <1>2, <1>3, SettledIsQuiet DEF Next, FullInv, Undisturbed

\* main.py: a process that starts when no deploy is in flight serves the latest committed
\* Deployment of every Environment from its start-up load on, if no Environment is shared by
\* workspaces.
THEOREM FreshServesLatest == Spec /\ OneWorkspaceEach => FreshProcessServesLatest
<1> SUFFICES ASSUME NEW p \in Processes
             PROVE  Spec /\ OneWorkspaceEach =>
                      [](status[p] = "new" /\ Settled => [](status[p] = "up" => ServesLatest(p)))
  BY DEF FreshProcessServesLatest
<1>1. FullInv /\ status[p] = "new" /\ Settled => Undisturbed(p)
  BY DEF FullInv, MemberInv, FreshIsEmpty, PassesAreClean, Undisturbed, PassHasRead
<1>2. Undisturbed(p) => (status[p] = "up" => ServesLatest(p))
  BY DEF Undisturbed
<1>3. OneWorkspaceEach => []OneWorkspaceEach
  BY DEF OneWorkspaceEach
<1> QED BY <1>1, <1>2, <1>3, UndisturbedStep, FullHolds, PTL DEF Spec

-----------------------------------------------------------------------------
(* The reconciler.                                                         *)

\* A process that is up stays up or is gone, and one that is gone stays gone.
LEMMA UpOrGone ==
  ASSUME NEW p \in Processes
  PROVE  /\ FullInv /\ status[p] = "up" /\ [Next]_vars =>
              (status[p] = "up")' \/ (status[p] = "gone")'
         /\ FullInv /\ status[p] = "gone" /\ [Next]_vars => (status[p] = "gone")'
<1> SUFFICES ASSUME FullInv, status[p] \in {"up", "gone"}, [Next]_vars
             PROVE  status'[p] = status[p] \/ status'[p] = "gone"
  OBVIOUS
<1>1. TypeOK /\ MemberOf(p)
  BY DEF FullInv, MemberInv, FreshIsEmpty, PassesAreClean, ListensToAll, MemberOf
<1>2. CASE ProcessStep(p)
  <2>1. CASE PassApply(p)
    BY <1>1, <2>1 DEF PassApply, MemberOf, TypeOK
  <2>2. CASE ~PassApply(p)
    BY <1>1, <1>2, <2>2 DEF ProcessStep, ListenerStep, PassStep, Subscribe, Join, HandlePrepare,
       HandleCommit, PassBegin, PassRead, EnsureSubscribe, EnsureJoin, Disconnect, Reconnect,
       ListenerDies, Crash, Stop, Gone, RedisDrops, PassFail, memberVars, TypeOK, Takes,
       Acknowledge, SubscribeFails
  <2> QED BY <2>1, <2>2
<1>3. ASSUME NEW q \in Processes \ {p}, ProcessStep(q) PROVE status'[p] = status[p]
  BY <1>1, <1>3, OthersUntouched
<1>4. ASSUME NEW d \in Deploys, CoordinatorStep(d) PROVE status' = status
  BY <1>4 DEF CoordinatorStep, Open, PublishPrepare, FinishPrepare, Prune, ShortPrepare,
     CommitRow, PublishCommit, FinishCommit, CoordinatorDies, memberVars
<1>5. CASE (\E e \in Environments : CreateEnvironment(e)) \/ UNCHANGED vars
  BY <1>5 DEF CreateEnvironment, vars, memberVars
<1> QED BY <1>2, <1>3, <1>4, <1>5 DEF Next

\* While a process is up and its connection holds, its passes keep getting through, whatever
\* fails in between: each phase leads to the next or to the end of the pass, and the loop
\* begins another.
LEMMA PassesGetThrough ==
  ASSUME NEW p \in Processes
  PROVE  /\ Spec /\ GuardedPasses
         /\ <>[](status[p] = "up") /\ <>[](listener[p] # "down")
         => []<><<PassApply(p)>>_vars
<1> DEFINE Idle == passPhase[p] = "idle"
           Begun == passPhase[p] = "begun"
           Read == passPhase[p] = "read"
           Joining == passPhase[p] = "joining"
           Ensured == passPhase[p] = "ensured"
           Up == status[p] = "up"
           Connected == listener[p] # "down"
<1>1. GuardedPasses =>
        /\ <>[]CanBegin(p) => []<><<PassBegin(p)>>_vars
        /\ []<>Begun => []<><<PassRead(p)>>_vars
        /\ []<>CanSubscribe(p) => []<><<EnsureSubscribe(p)>>_vars
        /\ []<>Joining => []<><<EnsureJoin(p)>>_vars
        /\ []<>CanApply(p) => []<><<PassApply(p)>>_vars
  BY DEF GuardedPasses
<1>2. FullInv => Idle \/ Begun \/ Read \/ Joining \/ Ensured
  BY DEF FullInv, TypeOK
<1>3. /\ FullInv /\ <<PassBegin(p)>>_vars => Begun'
      /\ FullInv /\ <<PassRead(p)>>_vars => Read'
      /\ FullInv /\ <<EnsureSubscribe(p)>>_vars => Joining'
      /\ FullInv /\ <<EnsureJoin(p)>>_vars => Ensured'
  BY DEF FullInv, TypeOK, PassBegin, PassRead, EnsureSubscribe, EnsureJoin
<1>4. Idle /\ Up => CanBegin(p)
  BY DEF CanBegin
<1>5. Read /\ Up /\ Connected => CanSubscribe(p) \/ CanApply(p)
  BY DEF CanSubscribe, CanApply
<1>6. Ensured => CanApply(p)
  BY DEF CanApply
<1> HIDE DEF Idle, Begun, Read, Joining, Ensured, Up, Connected
<1>7. Spec /\ GuardedPasses /\ <>[]Up /\ <>[]Connected => []<><<PassApply(p)>>_vars
  BY <1>1, <1>2, <1>3, <1>4, <1>5, <1>6, FullHolds, PTL
<1> QED BY <1>7 DEF Up, Connected

-----------------------------------------------------------------------------
(* A new Environment.                                                      *)

\* What the reconciler has done about e: the process is subscribed to it, or a SUBSCRIBE that
\* raised has lost it.
Listens(p, e) == e \in subscribed[p] \/ e \in Lost(p)

\* The pass of p has seen e, or has subscribed to it.
SeesEnvironment(p, e) ==
  \/ passPhase[p] = "idle"
  \/ passPhase[p] \in {"begun", "read"} /\ e \in passEnvs[p]
  \/ passPhase[p] \in {"joining", "ensured"} /\ Listens(p, e)

\* While the connection of a running process holds, a channel is kept and what is lost stays
\* lost, a pass that began after e was created keeps it in sight, and when it gets through the
\* process listens to e or has lost it.
LEMMA EnvironmentOwn ==
  ASSUME FullInv, NEW p \in Processes, NEW e \in envs, ProcessStep(p),
         status[p] = "up", status'[p] = "up", listener[p] # "down", listener'[p] # "down"
  PROVE  /\ SeesEnvironment(p, e) => SeesEnvironment(p, e)'
         /\ Listens(p, e) => Listens(p, e)'
         /\ SeesEnvironment(p, e) /\ PassApply(p) => Listens(p, e)'
<1>1. TypeOK /\ MemberOf(p)
  BY DEF FullInv, MemberInv, FreshIsEmpty, PassesAreClean, ListensToAll, MemberOf
<1>2. CASE ListenerStep(p)
  <2>1. UNCHANGED <<subscribed, serves, channels, passPhase, passEnvs>>
    BY <1>2 DEF ListenerStep, HandlePrepare, HandleCommit, Acknowledge, passVars
  <2>2. PassApply(p) => passPhase[p] # "idle" /\ passPhase'[p] = "idle"
    BY <1>1 DEF PassApply, PassEnds, TypeOK
  <2> QED BY <2>1, <2>2 DEF SeesEnvironment, Listens, Lost
<1>3. CASE PassBegin(p)
  <2>1. UNCHANGED <<subscribed, serves, channels>> /\ passPhase'[p] = "begun" /\ passEnvs'[p] = envs
    BY <1>1, <1>3 DEF PassBegin, redisVars, memberVars, TypeOK
  <2>2. ~PassApply(p)
    BY <1>3 DEF PassBegin, PassApply
  <2> QED BY <2>1, <2>2 DEF SeesEnvironment, Listens, Lost
<1>4. CASE PassRead(p)
  <2>1. /\ UNCHANGED <<subscribed, serves, channels, passEnvs>>
        /\ passPhase[p] = "begun" /\ passPhase'[p] = "read"
    BY <1>1, <1>4 DEF PassRead, redisVars, memberVars, TypeOK
  <2> QED BY <2>1 DEF SeesEnvironment, PassApply, Listens, Lost
<1>5. CASE EnsureSubscribe(p)
  <2>1. /\ subscribed'[p] = subscribed[p] \cup Wanted(p)
        /\ channels'[p] = channels[p] \cup Wanted(p)
        /\ serves'[p] = serves[p] \cup passEnvs[p]
        /\ passPhase'[p] = "joining" /\ passPhase[p] = "read" /\ Wanted(p) # {}
    BY <1>1, <1>5 DEF EnsureSubscribe, TypeOK
  <2>2. Listens(p, e) => Listens(p, e)'
    BY <2>1 DEF Listens, Lost
  <2>3. e \in passEnvs[p] => Listens(p, e)'
    <3>1. listener[p] = "dead" => passEnvs[p] \subseteq Wanted(p)
      BY DEF Wanted
    <3>2. listener[p] # "dead" => channels[p] \subseteq subscribed[p]
      BY <1>1 DEF MemberOf, Alive, TypeOK
    <3> QED BY <2>1, <3>1, <3>2 DEF Listens, Lost
  <2>4. ~PassApply(p)
    BY <2>1 DEF PassApply
  <2> QED BY <2>1, <2>2, <2>3, <2>4 DEF SeesEnvironment
<1>6. CASE EnsureJoin(p)
  <2>1. /\ UNCHANGED <<subscribed, serves, channels>>
        /\ passPhase[p] = "joining" /\ passPhase'[p] = "ensured"
    BY <1>1, <1>6 DEF EnsureJoin, memberVars, TypeOK
  <2> QED BY <2>1 DEF SeesEnvironment, PassApply, Listens, Lost
<1>7. CASE PassApply(p)
  <2>1. UNCHANGED <<subscribed, serves, channels>> /\ passPhase'[p] = "idle"
    BY <1>1, <1>7 DEF PassApply, PassEnds, redisVars, TypeOK
  <2>2. ASSUME passPhase[p] = "read", e \in passEnvs[p] PROVE Listens(p, e)
    <3>1. Wanted(p) = {}
      BY <1>7, <2>2 DEF PassApply
    <3>2. e \in serves[p] /\ listener[p] \in {"on", "off"}
      BY <1>1, <2>2, <3>1 DEF Wanted, TypeOK
    <3> QED BY <1>1, <3>2 DEF MemberOf, Alive, Listens, Lost
  <2> QED BY <1>7, <2>1, <2>2 DEF SeesEnvironment, PassApply, Listens, Lost
<1>8. CASE SubscribeFails(p) \/ PassFail(p)
  <2>1. /\ UNCHANGED <<subscribed, channels>> /\ serves[p] \subseteq serves'[p]
        /\ passPhase'[p] = "idle" /\ passPhase[p] \in {"begun", "read", "joining"}
    BY <1>1, <1>8 DEF PassFail, SubscribeFails, PassEnds, redisVars, memberVars, TypeOK
  <2>2. PassApply(p) => Wanted(p) = {}
    BY <2>1 DEF PassApply
  <2>3. ~PassApply(p)
    <3>1. CASE SubscribeFails(p)
      BY <2>2, <3>1 DEF SubscribeFails
    <3>2. CASE PassFail(p)
      BY <3>2 DEF PassFail, PassApply
    <3> QED BY <1>8, <3>1, <3>2
  <2> QED BY <2>1, <2>3 DEF SeesEnvironment, Listens, Lost
<1>9. ~Subscribe(p) /\ ~Join(p) /\ ~Disconnect(p) /\ ~Reconnect(p) /\ ~ListenerDies(p)
  BY <1>1 DEF Subscribe, Join, Disconnect, Reconnect, ListenerDies, TypeOK
<1>10. ~Crash(p) /\ ~Stop(p) /\ ~RedisDrops(p)
  BY <1>1 DEF Crash, Stop, Gone, RedisDrops, TypeOK
<1> QED BY <1>2, <1>3, <1>4, <1>5, <1>6, <1>7, <1>8, <1>9, <1>10 DEF ProcessStep, PassStep

\* Nor does anybody else take a channel away.
LEMMA EnvironmentStep ==
  ASSUME NEW p \in Processes, NEW e \in Environments
  PROVE  /\ FullInv /\ e \in envs /\ status[p] = "up" /\ listener[p] # "down"
         /\ [Next]_vars /\ (status[p] = "up")' /\ (listener[p] # "down")'
         => /\ SeesEnvironment(p, e) => SeesEnvironment(p, e)'
            /\ Listens(p, e) => Listens(p, e)'
            /\ SeesEnvironment(p, e) /\ PassApply(p) => Listens(p, e)'
<1> SUFFICES ASSUME FullInv, e \in envs, status[p] = "up", listener[p] # "down", [Next]_vars,
                    status'[p] = "up", listener'[p] # "down"
             PROVE  /\ SeesEnvironment(p, e) => SeesEnvironment(p, e)'
                    /\ Listens(p, e) => Listens(p, e)'
                    /\ SeesEnvironment(p, e) /\ PassApply(p) => Listens(p, e)'
  OBVIOUS
<1>1. CASE ProcessStep(p)
  BY <1>1, EnvironmentOwn
<1>2. CASE ~ProcessStep(p)
  <2>1. /\ subscribed'[p] = subscribed[p] /\ serves'[p] = serves[p] /\ channels'[p] = channels[p]
        /\ passPhase'[p] = passPhase[p] /\ passEnvs'[p] = passEnvs[p]
    <3>1. ASSUME NEW d \in Deploys, CoordinatorStep(d) PROVE UNCHANGED <<subscribed, passVars, memberVars>>
      BY <3>1 DEF CoordinatorStep, Open, PublishPrepare, FinishPrepare, Prune, ShortPrepare,
         CommitRow, PublishCommit, FinishCommit, CoordinatorDies, redisVars
    <3>2. ASSUME NEW q \in Processes \ {p}, ProcessStep(q)
          PROVE  /\ subscribed'[p] = subscribed[p] /\ serves'[p] = serves[p]
                 /\ channels'[p] = channels[p]
                 /\ passPhase'[p] = passPhase[p] /\ passEnvs'[p] = passEnvs[p]
      BY <3>2, OthersUntouched DEF FullInv
    <3>3. ASSUME NEW f, CreateEnvironment(f) PROVE UNCHANGED <<subscribed, passVars, memberVars>>
      BY <3>3 DEF CreateEnvironment, redisVars
    <3> QED BY <1>2, <3>1, <3>2, <3>3 DEF Next, vars, redisVars, passVars, memberVars
  <2>2. ~PassApply(p)
    BY <1>2 DEF ProcessStep, PassStep
  <2> QED BY <2>1, <2>2 DEF SeesEnvironment, Listens, Lost
<1> QED BY <1>1, <1>2

\* SwitchReconciler: an Environment created after a process started, a listener that ended or a
\* pass that failed leaves no running process unsubscribed for ever, once its Redis connection
\* no longer drops; only a SUBSCRIBE that raised under a living listener does.
THEOREM ReconcilerSubscribes == Spec /\ GuardedPasses => SubscribesUnlessLost
<1> SUFFICES ASSUME NEW p \in Processes, NEW e \in Environments
             PROVE  /\ Spec /\ GuardedPasses
                    /\ <>[](listener[p] # "down")
                    => <>[](status[p] = "up" /\ e \in envs => e \in subscribed[p] \/ e \in Lost(p))
  BY DEF SubscribesUnlessLost
<1> DEFINE Up == status[p] = "up"
           Out == status[p] = "gone"
           Connected == listener[p] # "down"
           Exists == e \in envs
           Sees == SeesEnvironment(p, e)
           Subscribed == Listens(p, e)
<1>1. /\ FullInv /\ Up /\ [Next]_vars => Up' \/ Out'
      /\ FullInv /\ Out /\ [Next]_vars => Out'
      /\ Out => ~Up
  BY UpOrGone
<1>2. FullInv /\ Exists /\ [Next]_vars => Exists'
  <2>1. ASSUME NEW d \in Deploys, CoordinatorStep(d) PROVE envs' = envs
    BY <2>1 DEF CoordinatorStep, Open, PublishPrepare, FinishPrepare, Prune, ShortPrepare,
       CommitRow, PublishCommit, FinishCommit, CoordinatorDies, dbVars
  <2>2. ASSUME NEW q \in Processes, ProcessStep(q) PROVE envs' = envs
    BY <2>2 DEF ProcessStep, ListenerStep, PassStep, Subscribe, Join, HandlePrepare, HandleCommit,
       PassBegin, PassRead, EnsureSubscribe, EnsureJoin, PassApply, Disconnect, Reconnect,
       ListenerDies, Crash, Stop, Gone, RedisDrops, PassFail, dbVars, Takes,
       Acknowledge, SubscribeFails
  <2> QED BY <2>1, <2>2 DEF Next, CreateEnvironment, vars, dbVars
<1>3. FullInv /\ Exists /\ Up /\ Connected /\ [Next]_vars /\ Up' /\ Connected' =>
        /\ Sees => Sees'
        /\ Subscribed => Subscribed'
        /\ Sees /\ PassApply(p) => Subscribed'
  BY EnvironmentStep
<1>4. FullInv /\ <<PassApply(p)>>_vars => PassApply(p) /\ Sees'
  BY DEF FullInv, TypeOK, PassApply, PassEnds, SeesEnvironment
<1>5. Spec /\ GuardedPasses /\ <>[]Up /\ <>[]Connected => []<><<PassApply(p)>>_vars
  BY PassesGetThrough
<1> HIDE DEF Up, Out, Connected, Exists, Sees, Subscribed
<1>6. Spec /\ GuardedPasses /\ <>[]Connected => <>[](Up /\ Exists => Subscribed)
  BY <1>1, <1>2, <1>3, <1>4, <1>5, FullHolds, PTL DEF Spec
<1> QED BY <1>6 DEF Up, Exists, Subscribed, Connected, Listens

-----------------------------------------------------------------------------
(* A missed or late COMMIT.                                                *)

\* The record of k has come to rest on d, and no COMMIT of k waits at p.
AtRest(p, k, d) ==
  /\ Newest(RowsOf(k)) = d
  /\ \A i \in 1..Len(inbox[p]) :
       inbox[p][i].phase = "commit" => Key(inbox[p][i].deploy) # k

\* The pass of p began since, and has read d if it has read anything.
ReadsNewest(p, k, d) ==
  \/ passPhase[p] = "idle"
  \/ passPhase[p] = "begun" /\ k \notin touched[p]
  \/ PassHasRead(p) /\ k \notin touched[p] /\ passRow[p][k[2]] = d

\* While the record rests, such a pass stays one, an entry that is d stays d, and a pass that
\* gets through makes it d.
LEMMA RepairOwn ==
  ASSUME FullInv, OneWorkspaceEach, NEW p \in Processes, NEW k \in Keys, NEW d \in Deploys,
         AtRest(p, k, d), ReadsNewest(p, k, d), ProcessStep(p),
         status[p] = "up", status'[p] = "up"
  PROVE  /\ ReadsNewest(p, k, d)'
         /\ live[p][k] = d => live'[p][k] = d
         /\ PassApply(p) => live'[p][k] = d
<1>1. TypeOK /\ StampsBounded /\ MemberOf(p)
  BY DEF FullInv, MemberInv, FreshIsEmpty, PassesAreClean, ListensToAll, MemberOf
<1>2. /\ LatestDeployments[k[2]] = d
      /\ Key(d) = k
  <2>1. RowsOf(k) # {}
    BY SmallConstants DEF AtRest, Newest
  <2> QED BY <1>1, <2>1, ReadFindsNewest DEF AtRest
<1>3. k[2] \in Environments
  BY DEF Keys
<1>4. CASE HandlePrepare(p) \/ Acknowledge(p)
  <2>1. UNCHANGED <<passVars, live>>
    BY <1>4 DEF HandlePrepare, Acknowledge
  <2>2. ~PassApply(p)
    BY <1>1, <1>4, <2>1 DEF PassApply, PassEnds, TypeOK, passVars
  <2> QED BY <2>1, <2>2 DEF ReadsNewest, PassHasRead, passVars
<1>5. CASE HandleCommit(p)
  <2> DEFINE c == Head(inbox[p]).deploy
  <2>1. inbox[p] \in Seq(Messages) /\ inbox[p] # <<>> /\ inbox[p][1].phase = "commit"
    BY <1>1, <1>5 DEF HandleCommit, TypeOK, Takes
  <2>2. c = inbox[p][1].deploy /\ 1 \in 1..Len(inbox[p])
    BY <2>1
  <2>3. c \in Deploys /\ Key(c) # k /\ Key(c) \in Keys
    <3>1. inbox[p][1] \in Messages
      BY <2>1, <2>2
    <3>2. c \in Deploys
      BY <2>2, <3>1 DEF Messages
    <3>3. Key(c) # k
      BY <2>1, <2>2 DEF AtRest
    <3> QED BY <3>2, <3>3, DeployTargets DEF Key, Keys
  <2>4. Swap(p, c) /\ UNCHANGED <<passPhase, passRow>>
    BY <1>5 DEF HandleCommit, Takes
  <2> HIDE DEF c
  <2>5. live'[p][k] = live[p][k]
    BY <1>1, <2>3, <2>4 DEF Swap, TypeOK
  <2>6. k \notin touched[p] => k \notin touched'[p]
    BY <1>1, <2>3, <2>4 DEF Swap, TypeOK
  <2>7. ~PassApply(p)
    BY <1>1, <2>4 DEF PassApply, PassEnds, TypeOK
  <2> QED BY <2>4, <2>5, <2>6, <2>7 DEF ReadsNewest, PassHasRead
<1>6. CASE PassBegin(p)
  <2>1. /\ passPhase[p] = "idle" /\ passPhase'[p] = "begun" /\ touched' = touched
        /\ live' = live
    BY <1>1, <1>6 DEF PassBegin, memberVars, TypeOK
  <2> QED BY <1>1, <2>1 DEF ReadsNewest, MemberOf, PassApply
<1>7. CASE PassRead(p)
  <2>1. /\ passPhase[p] = "begun" /\ passPhase'[p] = "read" /\ touched' = touched
        /\ live' = live /\ passRow'[p] = LatestDeployments
    BY <1>1, <1>7 DEF PassRead, memberVars, TypeOK
  <2> QED BY <1>2, <2>1 DEF ReadsNewest, PassHasRead, PassApply
<1>8. CASE EnsureSubscribe(p) \/ EnsureJoin(p)
  <2>1. UNCHANGED <<touched, live, passRow>> /\ PassHasRead(p) /\ PassHasRead(p)'
    BY <1>1, <1>8 DEF EnsureSubscribe, EnsureJoin, PassHasRead, memberVars, TypeOK
  <2>2. ~PassApply(p)
    BY <1>1, <2>1 DEF PassApply, PassEnds, PassHasRead, TypeOK
  <2> QED BY <2>1, <2>2 DEF ReadsNewest, PassHasRead
<1>9. CASE PassApply(p)
  <2>1. passPhase'[p] = "idle" /\ live'[p] = [j \in Keys |-> Reconciled(p, j)]
    BY <1>1, <1>9 DEF PassApply, PassEnds, TypeOK
  <2>2. k \notin touched[p] /\ passRow[p][k[2]] = d
    BY <1>9 DEF PassApply, ReadsNewest
  <2>3. live'[p][k] = d
    BY <1>2, <2>1, <2>2, SmallConstants DEF Reconciled
  <2> QED BY <2>1, <2>3 DEF ReadsNewest
<1>10. CASE SubscribeFails(p) \/ PassFail(p)
  <2>1. passPhase'[p] = "idle" /\ live' = live
    BY <1>1, <1>10 DEF PassFail, PassEnds, memberVars, TypeOK, SubscribeFails
  <2> QED BY <1>9, <2>1 DEF ReadsNewest
<1>11. CASE Disconnect(p) \/ Reconnect(p) \/ ListenerDies(p)
  <2>1. UNCHANGED <<passVars, live>>
    BY <1>11 DEF Disconnect, Reconnect, ListenerDies
  <2>2. ~PassApply(p)
    BY <1>1, <2>1 DEF PassApply, PassEnds, TypeOK, passVars
  <2> QED BY <2>1, <2>2 DEF ReadsNewest, PassHasRead, passVars
<1>12. ~Subscribe(p) /\ ~Join(p) /\ ~Crash(p) /\ ~Stop(p) /\ ~RedisDrops(p)
  BY <1>1 DEF Subscribe, Join, Crash, Stop, Gone, RedisDrops, TypeOK
<1> QED BY <1>4, <1>5, <1>6, <1>7, <1>8, <1>9, <1>10, <1>11, <1>12
        DEF ProcessStep, ListenerStep, PassStep

\* Nobody else changes what p reads or serves.
LEMMA RepairStep ==
  ASSUME NEW p \in Processes, NEW k \in Keys, NEW d \in Deploys
  PROVE  /\ FullInv /\ OneWorkspaceEach /\ AtRest(p, k, d) /\ ReadsNewest(p, k, d)
         /\ status[p] = "up" /\ [Next]_vars /\ (status[p] = "up")'
         => /\ ReadsNewest(p, k, d)'
            /\ live[p][k] = d => (live[p][k] = d)'
            /\ PassApply(p) => (live[p][k] = d)'
<1> SUFFICES ASSUME FullInv, OneWorkspaceEach, AtRest(p, k, d), ReadsNewest(p, k, d),
                    status[p] = "up", [Next]_vars, status'[p] = "up"
             PROVE  /\ ReadsNewest(p, k, d)'
                    /\ live[p][k] = d => live'[p][k] = d
                    /\ PassApply(p) => live'[p][k] = d
  OBVIOUS
<1>1. CASE ProcessStep(p)
  BY <1>1, RepairOwn
<1>2. CASE ~ProcessStep(p)
  <2>1. /\ live'[p] = live[p] /\ passPhase'[p] = passPhase[p]
        /\ passRow'[p] = passRow[p] /\ touched'[p] = touched[p]
    <3>1. ASSUME NEW c \in Deploys, CoordinatorStep(c) PROVE UNCHANGED <<live, passVars>>
      BY <3>1 DEF CoordinatorStep, Open, PublishPrepare, FinishPrepare, Prune, ShortPrepare,
         CommitRow, PublishCommit, FinishCommit, CoordinatorDies, memberVars
    <3>2. ASSUME NEW q \in Processes \ {p}, ProcessStep(q)
          PROVE  /\ live'[p] = live[p] /\ passPhase'[p] = passPhase[p]
                 /\ passRow'[p] = passRow[p] /\ touched'[p] = touched[p]
      BY <3>2, OthersUntouched DEF FullInv
    <3>3. ASSUME NEW f, CreateEnvironment(f) PROVE UNCHANGED <<live, passVars>>
      BY <3>3 DEF CreateEnvironment, memberVars
    <3> QED BY <1>2, <3>1, <3>2, <3>3 DEF Next, vars, memberVars, passVars
  <2>2. ~PassApply(p)
    BY <1>2 DEF ProcessStep, PassStep
  <2> QED BY <2>1, <2>2 DEF ReadsNewest, PassHasRead
<1> QED BY <1>1, <1>2

\* SwitchReconciler, "the DB is the truth a missed message is repaired from": whatever was
\* lost, delayed or reordered, a running process whose connection holds serves the newest
\* Deployment of k for good, once the record of k rests and no COMMIT of k waits at it.
THEOREM ReconcilerRepairs ==
  Spec /\ GuardedPasses /\ OneWorkspaceEach =>
    \A p \in Processes, k \in Keys, d \in Deploys :
      <>[](listener[p] # "down") /\ <>[]AtRest(p, k, d) => <>[]Converged(p, k)
<1> SUFFICES ASSUME NEW p \in Processes, NEW k \in Keys, NEW d \in Deploys
             PROVE  /\ Spec /\ GuardedPasses /\ OneWorkspaceEach
                    /\ <>[](listener[p] # "down") /\ <>[]AtRest(p, k, d)
                    => <>[]Converged(p, k)
  OBVIOUS
<1> DEFINE Up == status[p] = "up"
           Out == status[p] = "gone"
           Connected == listener[p] # "down"
           Reads == ReadsNewest(p, k, d)
           Serves == live[p][k] = d
<1>1. /\ FullInv /\ Up /\ [Next]_vars => Up' \/ Out'
      /\ FullInv /\ Out /\ [Next]_vars => Out'
      /\ Out => ~Up
  BY UpOrGone
<1>2. /\ FullInv /\ OneWorkspaceEach /\ AtRest(p, k, d) /\ Reads
      /\ Up /\ [Next]_vars /\ Up'
      => /\ Reads'
         /\ Serves => Serves'
         /\ PassApply(p) => Serves'
  BY RepairStep
<1>3. FullInv /\ <<PassApply(p)>>_vars => PassApply(p) /\ Reads'
  BY DEF FullInv, TypeOK, PassApply, PassEnds, ReadsNewest
<1>4. Spec /\ GuardedPasses /\ <>[]Up /\ <>[]Connected => []<><<PassApply(p)>>_vars
  BY PassesGetThrough
<1>5. AtRest(p, k, d) /\ (~Up \/ Serves) => Converged(p, k)
  BY DEF AtRest, Converged
<1>6. OneWorkspaceEach => []OneWorkspaceEach
  BY DEF OneWorkspaceEach
<1> HIDE DEF Up, Out, Connected, Reads, Serves
<1>7. Spec /\ GuardedPasses /\ OneWorkspaceEach /\ <>[]Connected /\ <>[]AtRest(p, k, d) =>
        <>[]Converged(p, k)
  BY <1>1, <1>2, <1>3, <1>4, <1>5, <1>6, FullHolds, PTL DEF Spec
<1> QED BY <1>7 DEF Connected
=============================================================================
