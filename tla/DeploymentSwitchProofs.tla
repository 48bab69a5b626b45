----------------------- MODULE DeploymentSwitchProofs ----------------------
(***************************************************************************)
(* What DeploymentSwitch guarantees for any number of processes, deploys,  *)
(* workspaces and Environments, and any faults.                            *)
(***************************************************************************)
EXTENDS DeploymentSwitch, SequenceTheorems, WellFoundedInduction, TLAPS, FiniteSetTheorems

-----------------------------------------------------------------------------
(* Operators.                                                              *)

\* A nonempty set of naturals has a least element.
LEMMA LeastNatural ==
  ASSUME NEW T, T \subseteq Nat, T # {}
  PROVE  \E x \in T : \A y \in T : x <= y
<1>1. PICK x \in T : \A y \in T : ~(<<y, x>> \in OpToRel(<, Nat))
  BY NatLessThanWellFounded, WFMin
<1>2. \A y \in T : ~(y < x)
  BY <1>1 DEF OpToRel
<1> QED BY <1>2

\* ORDER BY deployed_at DESC LIMIT 1 returns a row of the set, and none is newer.
LEMMA NewestIsNewest ==
  ASSUME TypeOK, StampsBounded,
         NEW S \in SUBSET Deploys, S # {}
  PROVE  /\ Newest(S) \in S
         /\ \A d \in S : stamp[d] <= stamp[Newest(S)]
<1> DEFINE Ages == {clock - stamp[d] : d \in S}
<1>1. \A d \in S : stamp[d] \in Nat /\ stamp[d] <= clock /\ clock \in Nat
  BY DEF TypeOK, StampsBounded
<1>2. Ages \subseteq Nat /\ Ages # {}
  BY <1>1
<1>3. PICK a \in Ages : \A b \in Ages : a <= b
  BY <1>2, LeastNatural
<1>4. PICK d \in S : a = clock - stamp[d]
  OBVIOUS
<1>5. \A other \in S : stamp[other] <= stamp[d]
  <2> TAKE other \in S
  <2>1. a <= clock - stamp[other]
    BY <1>3
  <2> QED BY <1>1, <1>4, <2>1
<1> QED BY <1>5 DEF Newest

\* A message left in a handled inbox was in it before.
LEMMA TailElement ==
  ASSUME NEW S, NEW s \in Seq(S), s # <<>>, NEW i \in 1..Len(Tail(s))
  PROVE  i + 1 \in 1..Len(s) /\ Tail(s)[i] = s[i + 1]
OBVIOUS

\* Updating one entry of a table of tables keeps its type.
LEMMA TableUpdate ==
  ASSUME NEW A, NEW B, NEW C, NEW f \in [A -> [B -> C]], NEW a \in A, NEW b \in B, NEW c \in C
  PROVE  [f EXCEPT ![a][b] = c] \in [A -> [B -> C]]
<1>1. f[a] \in [B -> C]
  OBVIOUS
<1>2. [f[a] EXCEPT ![b] = c] \in [B -> C]
  BY <1>1
<1>3. [f EXCEPT ![a] = [f[a] EXCEPT ![b] = c]] \in [A -> [B -> C]]
  BY <1>2
<1> QED BY <1>3

\* Removing a prepared switch leaves a sequence of switches, no longer than it was.
LEMMA WithoutType ==
  ASSUME NEW s \in Seq(Deploys), NEW d \in Deploys
  PROVE  Without(s, d) \in Seq(Deploys) /\ Len(Without(s, d)) <= Len(s)
<1>1. CASE \E i \in 1..Len(s) : s[i] = d
  <2> DEFINE i == CHOOSE i \in 1..Len(s) : s[i] = d
  <2>1. i \in 1..Len(s)
    BY <1>1
  <2>2. Without(s, d) = SubSeq(s, 1, i - 1) \o SubSeq(s, i + 1, Len(s))
    BY <1>1 DEF Without, RemoveAt
  <2> HIDE DEF i
  <2>3. SubSeq(s, 1, i - 1) \in Seq(Deploys) /\ SubSeq(s, i + 1, Len(s)) \in Seq(Deploys)
    BY <2>1
  <2>4. Len(SubSeq(s, 1, i - 1)) <= i - 1 /\ Len(SubSeq(s, i + 1, Len(s))) <= Len(s) - i
    BY <2>1
  <2>5. \A a, b \in Seq(Deploys) : a \o b \in Seq(Deploys) /\ Len(a \o b) = Len(a) + Len(b)
    OBVIOUS
  <2>6. Without(s, d) \in Seq(Deploys)
    BY <2>2, <2>3, <2>5
  <2>7. Len(Without(s, d)) = Len(SubSeq(s, 1, i - 1)) + Len(SubSeq(s, i + 1, Len(s)))
    BY <2>2, <2>3, <2>5
  <2>8. /\ Len(s) \in Nat /\ i \in Nat
        /\ Len(SubSeq(s, 1, i - 1)) \in Nat
        /\ Len(SubSeq(s, i + 1, Len(s))) \in Nat
    BY <2>1, <2>3
  <2> DEFINE a == Len(SubSeq(s, 1, i - 1))
             b == Len(SubSeq(s, i + 1, Len(s)))
             n == Len(s)
  <2>9. Len(Without(s, d)) <= Len(s)
    <3>1. a \in Nat /\ b \in Nat /\ n \in Nat /\ i \in Nat
      BY <2>8
    <3>2. a <= i - 1 /\ b <= n - i /\ Len(Without(s, d)) = a + b
      BY <2>4, <2>7
    <3> HIDE DEF a, b, n
    <3>3. a + b <= n
      BY <3>1, <3>2
    <3> QED BY <3>2, <3>3 DEF n
  <2> QED BY <2>6, <2>9
<1>2. CASE ~\E i \in 1..Len(s) : s[i] = d
  BY <1>2 DEF Without
<1> QED BY <1>1, <1>2

-----------------------------------------------------------------------------
(* Type correctness.                                                       *)

\* Every variable keeps its type, and no process holds more prepared switches than
\* SwitchMember's bound.
LEMMA TypeInit == Init => TypeOK /\ StampsBounded
BY DeployTargets, SmallConstants
   DEF Init, StampsBounded, TypeOK, Coordinator, InTransaction, Recorded, Entry, Phases, Messages, Keys

\* The newest row of a set is an entry that `live` may hold, or None.
LEMMA NewestType ==
  ASSUME TypeOK, StampsBounded, NEW S \in SUBSET Deploys
  PROVE  Newest(S) \in Entry
BY NewestIsNewest DEF Newest, Entry

\* Publishing a PREPARE or a COMMIT appends a message to every subscriber's inbox.
LEMMA PublishType ==
  ASSUME TypeOK, NEW ph \in Phases, NEW d \in Deploys, Publish(ph, d)
  PROVE  inbox' \in [Processes -> Seq(Messages)]
<1>1. Message(ph, d) \in Messages
  BY DEF Message, Messages
<1>2. inbox \in [Processes -> Seq(Messages)]
  BY DEF TypeOK
<1>3. \A p \in Processes : Append(inbox[p], Message(ph, d)) \in Seq(Messages)
  BY <1>1, <1>2
<1> QED BY <1>2, <1>3 DEF Publish

\* No step of deploy_and_switch breaks a type.
LEMMA TypeCoordinator ==
  ASSUME TypeOK, StampsBounded, NEW d \in Deploys, CoordinatorStep(d)
  PROVE  TypeOK'
<1> USE DeployTargets, SmallConstants DEF TypeOK, vars, dbVars, coordVars, redisVars, passVars, memberVars
<1>1. CASE Open(d)
  BY <1>1 DEF Open, Coordinator, InTransaction
<1>2. CASE PublishPrepare(d)
  <2>1. RowsOf(Key(d)) \in SUBSET Deploys
    BY DEF RowsOf
  <2>2. Newest(RowsOf(Key(d))) \in Entry
    BY <2>1, NewestType
  <2>3. inbox' \in [Processes -> Seq(Messages)]
    BY <1>2, PublishType DEF PublishPrepare, Phases
  <2> HIDE DEF StampsBounded
  <2> QED BY <1>2, <2>2, <2>3 DEF PublishPrepare, Coordinator, InTransaction
<1>3. CASE FinishPrepare(d)
  BY <1>3 DEF FinishPrepare, Coordinator, InTransaction, Phases
<1>4. CASE Prune(d)
  BY <1>4 DEF Prune, Coordinator, InTransaction
<1>5. CASE ShortPrepare(d)
  BY <1>5 DEF ShortPrepare, Coordinator
<1>6. CASE CommitRow(d)
  BY <1>6 DEF CommitRow, Coordinator, Recorded
<1>7. CASE PublishCommit(d)
  <2>1. inbox' \in [Processes -> Seq(Messages)]
    BY <1>7, PublishType DEF PublishCommit, Phases
  <2> QED BY <1>7, <2>1 DEF PublishCommit, Coordinator, Recorded
<1>8. CASE FinishCommit(d)
  <2>1. committed' \in [Deploys -> SUBSET Processes]
    <3>1. acks[d]["commit"] \cap prepared[d] \in SUBSET Processes
      BY DEF Phases
    <3> QED BY <1>8, <3>1 DEF FinishCommit
  <2>2. pc' \in [Deploys -> Coordinator]
    BY <1>8 DEF FinishCommit, Coordinator, Recorded
  <2> QED BY <1>8, <2>1, <2>2 DEF FinishCommit
<1>9. CASE CoordinatorDies(d)
  BY <1>9 DEF CoordinatorDies, Coordinator, Recorded
<1> QED BY <1>1, <1>2, <1>3, <1>4, <1>5, <1>6, <1>7, <1>8, <1>9 DEF CoordinatorStep

\* The end of a reconcile pass leaves the pass variables at their rest values.
LEMMA PassEndsType ==
  ASSUME TypeOK, NEW p \in Processes, PassEnds(p)
  PROVE  /\ passPhase' \in [Processes -> {"idle", "begun", "read", "joining", "ensured"}]
         /\ passEnvs' \in [Processes -> SUBSET Environments]
         /\ passRow' \in [Processes -> [Environments -> Entry]]
         /\ touched' \in [Processes -> SUBSET Keys]
BY DEF TypeOK, PassEnds, Entry

\* A process that is gone has nothing subscribed, prepared or in flight.
LEMMA GoneType ==
  ASSUME TypeOK, NEW p \in Processes, Gone(p)
  PROVE  /\ status' \in [Processes -> {"new", "subscribed", "joined", "up", "gone"}]
         /\ listener' \in [Processes -> {"off", "on", "down", "dead"}]
         /\ serves' \in [Processes -> SUBSET Environments]
         /\ inbox' \in [Processes -> Seq(Messages)]
         /\ pending' \in [Processes -> Seq(Deploys)]
         /\ \A q \in Processes : Len(pending'[q]) <= PendingBound
         /\ live' \in [Processes -> [Keys -> Entry]]
BY SmallConstants DEF TypeOK, Gone, Entry

\* Keeping a prepared switch keeps their number within the bound.
LEMMA PrepareType ==
  ASSUME TypeOK, NEW p \in Processes, NEW d \in Deploys, Prepare(p, d)
  PROVE  /\ pending' \in [Processes -> Seq(Deploys)]
         /\ \A q \in Processes : Len(pending'[q]) <= PendingBound
         /\ answering' \in [Processes -> SUBSET Messages]
<1>1. /\ pending \in [Processes -> Seq(Deploys)]
      /\ \A q \in Processes : Len(pending[q]) <= PendingBound
      /\ answering \in [Processes -> SUBSET Messages]
      /\ PendingBound \in Nat
  BY SmallConstants DEF TypeOK
<1>2. /\ Append(pending[p], d) \in Seq(Deploys)
      /\ Len(Append(pending[p], d)) <= PendingBound + 1
      /\ Append(pending[p], d) # <<>>
  <2> DEFINE s == pending[p]
  <2>1. s \in Seq(Deploys) /\ Len(s) <= PendingBound
    BY <1>1
  <2> HIDE DEF s
  <2>2. Len(s) \in Nat /\ Append(s, d) \in Seq(Deploys) /\ Len(Append(s, d)) = Len(s) + 1
    BY <2>1
  <2> DEFINE longer == Append(s, d)
  <2>3. Len(longer) = Len(s) + 1 /\ longer \in Seq(Deploys)
    BY <2>2
  <2> HIDE DEF longer
  <2>4. Len(longer) <= PendingBound + 1 /\ longer # <<>>
    BY <1>1, <2>1, <2>2, <2>3
  <2> QED BY <2>2, <2>4 DEF s, longer
<1>3. /\ Bounded(Append(pending[p], d)) \in Seq(Deploys)
      /\ Len(Bounded(Append(pending[p], d))) <= PendingBound
  <2> DEFINE s == Append(pending[p], d)
  <2>1. s \in Seq(Deploys) /\ Len(s) <= PendingBound + 1 /\ s # <<>>
    BY <1>2
  <2> HIDE DEF s
  <2>2. Tail(s) \in Seq(Deploys) /\ Len(Tail(s)) = Len(s) - 1
    BY <2>1
  <2>3. Bounded(s) \in Seq(Deploys) /\ Len(Bounded(s)) <= PendingBound
    BY <1>1, <2>1, <2>2 DEF Bounded
  <2> QED BY <2>3 DEF s
<1>4. Message("prepare", d) \in Messages
  BY DEF Message, Messages, Phases
<1>5. answering' \in [Processes -> SUBSET Messages]
  <2> DEFINE m == Message("prepare", d)
  <2>1. m \in Messages /\ (answering' = answering \/ answering' = [answering EXCEPT ![p] = {m}])
    BY <1>4 DEF Prepare
  <2> HIDE DEF m
  <2> QED BY <1>1, <2>1
<1>6. /\ pending' \in [Processes -> Seq(Deploys)]
      /\ \A q \in Processes : Len(pending'[q]) <= PendingBound
  <2> DEFINE kept == Bounded(Append(pending[p], d))
  <2>1. /\ kept \in Seq(Deploys) /\ Len(kept) <= PendingBound
        /\ pending' = pending \/ pending' = [pending EXCEPT ![p] = kept]
    BY <1>3 DEF Prepare
  <2> HIDE DEF kept
  <2> QED BY <1>1, <2>1
<1> QED BY <1>5, <1>6

\* Swapping to a prepared switch only shortens what is prepared.
LEMMA SwapType ==
  ASSUME TypeOK, NEW p \in Processes, NEW d \in Deploys, Swap(p, d)
  PROVE  /\ pending' \in [Processes -> Seq(Deploys)]
         /\ \A q \in Processes : Len(pending'[q]) <= PendingBound
         /\ answering' \in [Processes -> SUBSET Messages]
         /\ live' \in [Processes -> [Keys -> Entry]]
         /\ touched' \in [Processes -> SUBSET Keys]
<1>1. /\ pending \in [Processes -> Seq(Deploys)]
      /\ \A q \in Processes : Len(pending[q]) <= PendingBound
      /\ answering \in [Processes -> SUBSET Messages]
      /\ live \in [Processes -> [Keys -> Entry]]
      /\ touched \in [Processes -> SUBSET Keys]
      /\ PendingBound \in Nat
  BY SmallConstants DEF TypeOK
<1>2. Without(pending[p], d) \in Seq(Deploys) /\ Len(Without(pending[p], d)) <= Len(pending[p])
  BY <1>1, WithoutType
<1>3. Len(Without(pending[p], d)) <= PendingBound
  <2> DEFINE n == Len(Without(pending[p], d))
             m == Len(pending[p])
  <2>1. n \in Nat /\ m \in Nat /\ n <= m /\ m <= PendingBound
    BY <1>1, <1>2
  <2> HIDE DEF n, m
  <2>2. n <= PendingBound
    BY <1>1, <2>1
  <2> QED BY <2>2 DEF n
<1>4. Key(d) \in Keys
  BY DeployTargets DEF Key, Keys
<1>5. answering' \in [Processes -> SUBSET Messages]
  <2> DEFINE m == Message("commit", d)
  <2>1. m \in Messages /\ (answering' = answering \/ answering' = [answering EXCEPT ![p] = {m}])
    BY DEF Swap, Message, Messages, Phases
  <2> HIDE DEF m
  <2> QED BY <1>1, <2>1
<1>6. live' \in [Processes -> [Keys -> Entry]]
  <2>1. d \in Entry
    BY DEF Entry
  <2>2. [live EXCEPT ![p][Key(d)] = d] \in [Processes -> [Keys -> Entry]]
    BY <1>1, <1>4, <2>1, TableUpdate
  <2> QED BY <1>1, <2>2 DEF Swap
<1>7. touched' \in [Processes -> SUBSET Keys]
  BY <1>1, <1>4 DEF Swap
<1>8. /\ pending' \in [Processes -> Seq(Deploys)]
      /\ \A q \in Processes : Len(pending'[q]) <= PendingBound
  BY <1>1, <1>2, <1>3 DEF Swap
<1> QED BY <1>5, <1>6, <1>7, <1>8

\* An acknowledgement adds one process to one set of acknowledgements.
LEMMA AcknowledgeType ==
  ASSUME TypeOK, NEW p \in Processes, Acknowledge(p)
  PROVE  TypeOK'
<1>1. /\ acks \in [Deploys -> [Phases -> SUBSET Processes]]
      /\ answering \in [Processes -> SUBSET Messages]
  BY DEF TypeOK
<1>2. PICK m \in answering[p] :
        acks' = [acks EXCEPT ![m.deploy][m.phase] = @ \cup {p}] \/ UNCHANGED acks
  BY DEF Acknowledge
<1>3. m.deploy \in Deploys /\ m.phase \in Phases
  BY <1>1 DEF Messages
<1>4. [acks EXCEPT ![m.deploy][m.phase] = acks[m.deploy][m.phase] \cup {p}]
        \in [Deploys -> [Phases -> SUBSET Processes]]
  BY <1>1, <1>3, TableUpdate
<1>5. acks' \in [Deploys -> [Phases -> SUBSET Processes]]
  BY <1>1, <1>2, <1>4
<1>6. answering' \in [Processes -> SUBSET Messages]
  BY <1>1 DEF Acknowledge
<1> QED BY <1>5, <1>6 DEF Acknowledge, TypeOK, dbVars, coordVars, passVars

\* No step of the listener breaks a type.
LEMMA TypeListener ==
  ASSUME TypeOK, NEW p \in Processes, ListenerStep(p)
  PROVE  TypeOK'
<1> DEFINE d == Head(inbox[p]).deploy
<1>1. ASSUME NEW ph, Takes(p, ph)
      PROVE  /\ d \in Deploys
             /\ inbox' \in [Processes -> Seq(Messages)]
  <2>1. inbox \in [Processes -> Seq(Messages)] /\ inbox[p] # <<>>
    BY <1>1 DEF Takes, TypeOK
  <2>2. Head(inbox[p]) \in Messages /\ Tail(inbox[p]) \in Seq(Messages)
    BY <2>1
  <2>3. \A x \in Messages : x.deploy \in Deploys
    BY DEF Messages
  <2> QED BY <1>1, <2>1, <2>2, <2>3 DEF Takes
<1>2. CASE HandlePrepare(p)
  <2>1. Prepare(p, d) /\ Takes(p, "prepare")
    BY <1>2 DEF HandlePrepare
  <2> HIDE DEF d
  <2> QED
    BY <1>1, <1>2, <2>1, PrepareType
       DEF HandlePrepare, TypeOK, dbVars, coordVars, passVars
<1>3. CASE HandleCommit(p)
  <2>1. Swap(p, d) /\ Takes(p, "commit")
    BY <1>3 DEF HandleCommit
  <2> HIDE DEF d
  <2> QED
    BY <1>1, <1>3, <2>1, SwapType DEF HandleCommit, TypeOK, dbVars, coordVars
<1> QED BY <1>2, <1>3, AcknowledgeType DEF ListenerStep

\* No step of a reconcile pass breaks a type.
LEMMA TypePass ==
  ASSUME TypeOK, StampsBounded, NEW p \in Processes, PassStep(p) \/ SubscribeFails(p) \/ PassFail(p)
  PROVE  TypeOK'
<1> USE DEF TypeOK, dbVars, coordVars, redisVars, passVars, memberVars
<1>1. CASE PassBegin(p)
  BY <1>1 DEF PassBegin
<1>2. CASE PassRead(p)
  <2>1. \A e \in Environments : RowsIn(e) \in SUBSET Deploys
    BY DEF RowsIn
  <2>2. LatestDeployments \in [Environments -> Entry]
    BY <2>1, NewestType DEF LatestDeployments
  <2> QED BY <1>2, <2>2 DEF PassRead
<1>3. CASE EnsureSubscribe(p)
  BY <1>3 DEF EnsureSubscribe, Wanted
<1>4. CASE EnsureJoin(p)
  BY <1>4 DEF EnsureJoin, JoinRosters
<1>5. CASE PassApply(p)
  <2>1. \A k \in Keys : Reconciled(p, k) \in Entry
    BY DEF Reconciled, Keys
  <2>2. live' \in [Processes -> [Keys -> Entry]]
    BY <1>5, <2>1 DEF PassApply
  <2> QED BY <1>5, <2>2, PassEndsType DEF PassApply
<1>6. CASE PassFail(p)
  BY <1>6, PassEndsType DEF PassFail
<1>7. CASE SubscribeFails(p)
  BY <1>7, PassEndsType DEF SubscribeFails
<1> QED BY <1>1, <1>2, <1>3, <1>4, <1>5, <1>6, <1>7 DEF PassStep

\* No step of a process breaks a type.
LEMMA TypeProcess ==
  ASSUME TypeOK, StampsBounded, NEW p \in Processes, ProcessStep(p)
  PROVE  TypeOK'
<1> USE DEF TypeOK, dbVars, coordVars, redisVars, passVars, memberVars
<1>1. CASE Subscribe(p)
  BY <1>1 DEF Subscribe
<1>2. CASE Join(p)
  BY <1>2 DEF Join, JoinRosters
<1>3. CASE Disconnect(p)
  BY <1>3 DEF Disconnect
<1>4. CASE Reconnect(p)
  BY <1>4 DEF Reconnect
<1>5. CASE ListenerDies(p)
  BY <1>5 DEF ListenerDies
<1>6. CASE Crash(p)
  BY <1>6, GoneType, PassEndsType DEF Crash, Gone
<1>7. CASE Stop(p)
  BY <1>7, GoneType, PassEndsType DEF Stop, Gone
<1>8. CASE RedisDrops(p)
  BY <1>8 DEF RedisDrops
<1> QED
  BY <1>1, <1>2, <1>3, <1>4, <1>5, <1>6, <1>7, <1>8, TypeListener, TypePass
     DEF ProcessStep

\* No Deployment is stamped later than the clock, after any step.
LEMMA StampsStep ==
  ASSUME TypeOK, StampsBounded, [Next]_vars
  PROVE  StampsBounded'
<1> USE DEF TypeOK, StampsBounded
<1>1. CASE \E d \in Deploys : Open(d)
  BY <1>1 DEF Open
<1>2. CASE UNCHANGED <<stamp, clock>>
  BY <1>2
<1>3. (\E d \in Deploys : Open(d)) \/ UNCHANGED <<stamp, clock>>
  BY DEF Next, vars, dbVars, CoordinatorStep, ProcessStep, ListenerStep, PassStep,
         CreateEnvironment, PublishPrepare, FinishPrepare, Prune, ShortPrepare, CommitRow,
         PublishCommit, FinishCommit, CoordinatorDies, Subscribe, Join, HandlePrepare,
         HandleCommit, Disconnect, Reconnect, ListenerDies, Crash, Stop, Gone, RedisDrops,
         PassBegin, PassRead, EnsureSubscribe, EnsureJoin, PassApply, PassFail, Takes,
         Acknowledge, SubscribeFails
<1> QED BY <1>1, <1>2, <1>3

\* Type correctness is inductive.
LEMMA TypeStep ==
  ASSUME TypeOK, StampsBounded, [Next]_vars
  PROVE  TypeOK'
<1>1. CASE \E e \in Environments : CreateEnvironment(e)
  BY <1>1 DEF CreateEnvironment, TypeOK, coordVars, redisVars, passVars, memberVars
<1>2. CASE UNCHANGED vars
  BY <1>2 DEF TypeOK, vars, dbVars, coordVars, redisVars, passVars, memberVars
<1> QED BY <1>1, <1>2, TypeCoordinator, TypeProcess DEF Next

\* Every variable keeps its type in every reachable state, and no process holds more
\* prepared switches than SwitchMember's bound.
THEOREM TypeCorrect == Spec => [](TypeOK /\ StampsBounded)
<1>1. TypeOK /\ StampsBounded /\ [Next]_vars => (TypeOK /\ StampsBounded)'
  BY TypeStep, StampsStep
<1> QED BY <1>1, TypeInit, PTL DEF Spec

-----------------------------------------------------------------------------
(* The record is ahead of every process.                                   *)

\* Before anything is deployed no process refers to a Deployment.
LEMMA RecordInit == Init => RecordInv
BY SmallConstants
   DEF Init, RecordInv, RowsAreRecorded, Recorded, RecordFirst, PassHoldsRows, PassIsFresh, Keys

\* Steps of a coordinator: only CommitRow adds a row, only Open moves a stamp, and only
\* PublishCommit, after CommitRow, sends a COMMIT.
LEMMA RecordCoordinator ==
  ASSUME TypeOK, RecordInv, NEW d \in Deploys, CoordinatorStep(d)
  PROVE  RecordInv'
<1> USE DEF RecordInv, Recorded
<1> DEFINE Same == UNCHANGED <<live, passRow, passPhase, touched>>
<1>1. Same
  BY DEF CoordinatorStep, Open, PublishPrepare, FinishPrepare, Prune, ShortPrepare, CommitRow,
         PublishCommit, FinishCommit, CoordinatorDies, passVars, memberVars
<1>2. rows \subseteq rows'
  BY DEF CoordinatorStep, Open, PublishPrepare, FinishPrepare, Prune, ShortPrepare, CommitRow,
         PublishCommit, FinishCommit, CoordinatorDies, dbVars
<1>3. \A other \in rows : stamp'[other] = stamp[other]
  BY DEF CoordinatorStep, Open, PublishPrepare, FinishPrepare, Prune, ShortPrepare, CommitRow,
         PublishCommit, FinishCommit, CoordinatorDies, dbVars, RowsAreRecorded, TypeOK
<1>4. RowsAreRecorded'
  <2> USE DEF RowsAreRecorded, TypeOK, InTransaction, dbVars
  <2>1. CASE CommitRow(d)
    BY <2>1 DEF CommitRow
  <2>2. CASE Open(d) \/ PublishPrepare(d) \/ FinishPrepare(d) \/ Prune(d) \/ ShortPrepare(d)
    <3>1. CASE Open(d)
      BY <3>1 DEF Open
    <3>2. CASE Prune(d)
      BY <3>2 DEF Prune
    <3>3. CASE PublishPrepare(d)
      BY <3>3 DEF PublishPrepare
    <3>4. CASE FinishPrepare(d)
      BY <3>4 DEF FinishPrepare
    <3>5. CASE ShortPrepare(d)
      BY <3>5 DEF ShortPrepare
    <3> QED BY <2>2, <3>1, <3>2, <3>3, <3>4, <3>5
  <2>3. CASE PublishCommit(d) \/ FinishCommit(d) \/ CoordinatorDies(d)
    <3>1. CASE PublishCommit(d)
      BY <3>1 DEF PublishCommit
    <3>2. CASE FinishCommit(d)
      BY <3>2 DEF FinishCommit
    <3>3. CASE CoordinatorDies(d)
      BY <3>3 DEF CoordinatorDies
    <3> QED BY <2>3, <3>1, <3>2, <3>3
  <2> QED BY <2>1, <2>2, <2>3 DEF CoordinatorStep
<1>5. RecordFirst'
  <2>1. ASSUME NEW p \in Processes, NEW k \in Keys, live'[p][k] # None
        PROVE  live'[p][k] \in rows' /\ Key(live'[p][k]) = k
    BY <1>1, <1>2, <2>1 DEF RecordFirst
  <2>2. ASSUME NEW p \in Processes, NEW i \in 1..Len(inbox'[p]),
               inbox'[p][i].phase = "commit"
        PROVE  inbox'[p][i].deploy \in rows'
    <3>1. CASE UNCHANGED inbox
      BY <1>2, <2>2, <3>1 DEF RecordFirst
    <3>2. CASE PublishPrepare(d)
      <4>1. inbox'[p] = inbox[p] \/ inbox'[p] = Append(inbox[p], Message("prepare", d))
        BY <3>2 DEF PublishPrepare, Publish
      <4>2. inbox[p] \in Seq(Messages) /\ Message("prepare", d).phase = "prepare"
        BY DEF TypeOK, Message
      <4> QED BY <1>2, <2>2, <4>1, <4>2 DEF RecordFirst
    <3>3. CASE PublishCommit(d)
      <4>1. inbox'[p] = inbox[p] \/ inbox'[p] = Append(inbox[p], Message("commit", d))
        BY <3>3 DEF PublishCommit, Publish
      <4>2. inbox[p] \in Seq(Messages) /\ Message("commit", d).deploy = d
        BY DEF TypeOK, Message
      <4>3. d \in rows
        BY <3>3 DEF PublishCommit, RowsAreRecorded
      <4> QED BY <1>2, <2>2, <4>1, <4>2, <4>3 DEF RecordFirst
    <3> QED
      BY <3>1, <3>2, <3>3
         DEF CoordinatorStep, Open, FinishPrepare, Prune, ShortPrepare, CommitRow,
             FinishCommit, CoordinatorDies, redisVars
  <2> QED BY <2>1, <2>2 DEF RecordFirst
<1>6. PassHoldsRows'
  BY <1>1, <1>2 DEF PassHoldsRows
<1>7. PassIsFresh'
  <2>1. \A p \in Processes : \A k \in Keys :
          /\ live[p][k] # None => live[p][k] \in rows
          /\ passRow[p][k[2]] # None => passRow[p][k[2]] \in rows
    BY DEF RecordFirst, PassHoldsRows, Keys
  <2> QED BY <1>1, <1>3, <2>1 DEF PassIsFresh, PassHasRead
<1> QED BY <1>4, <1>5, <1>6, <1>7

\* A process that swaps is told to by a COMMIT, whose row is committed.
LEMMA RecordSwap ==
  ASSUME TypeOK, RecordInv, NEW p \in Processes, HandleCommit(p)
  PROVE  RecordInv'
<1> DEFINE d == Head(inbox[p]).deploy
<1>1. /\ inbox \in [Processes -> Seq(Messages)] /\ inbox[p] # <<>>
      /\ inbox[p][1].phase = "commit" /\ d = inbox[p][1].deploy
      /\ Len(inbox[p]) \in Nat /\ 1 <= Len(inbox[p])
  BY DEF HandleCommit, TypeOK, Takes
<1>2. d \in rows
  BY <1>1 DEF RecordInv, RecordFirst
<1>3. d \in Deploys /\ Key(d) \in Keys
  BY <1>2, DeployTargets DEF TypeOK, Key, Keys
<1>4. Swap(p, d) /\ inbox' = [inbox EXCEPT ![p] = Tail(@)]
  BY DEF HandleCommit, Takes
<1> HIDE DEF d
<1>5. UNCHANGED <<rows, stamp, pc, passRow, passPhase>>
  BY DEF HandleCommit, dbVars, coordVars, Takes
<1>6. /\ live \in [Processes -> [Keys -> Entry]]
      /\ touched \in [Processes -> SUBSET Keys]
  BY DEF TypeOK
<1>7. \/ UNCHANGED <<live, touched>>
      \/ /\ live' = [live EXCEPT ![p][Key(d)] = d]
         /\ touched' = [touched EXCEPT ![p] =
                          IF passPhase[p] = "idle" THEN @ ELSE @ \cup {Key(d)}]
  BY <1>4 DEF Swap
<1>8. RecordFirst'
  <2>1. ASSUME NEW q \in Processes, NEW k \in Keys, live'[q][k] # None
        PROVE  live'[q][k] \in rows' /\ Key(live'[q][k]) = k
    <3>1. live'[q][k] = live[q][k] \/ (live'[q][k] = d /\ k = Key(d))
      BY <1>3, <1>6, <1>7
    <3> QED BY <1>2, <1>5, <2>1, <3>1 DEF RecordInv, RecordFirst
  <2>2. ASSUME NEW q \in Processes, NEW i \in 1..Len(inbox'[q]),
               inbox'[q][i].phase = "commit"
        PROVE  inbox'[q][i].deploy \in rows'
    <3>1. CASE q = p
      <4>1. inbox'[q] = Tail(inbox[p])
        BY <1>1, <1>4, <3>1
      <4>2. i + 1 \in 1..Len(inbox[p]) /\ inbox'[q][i] = inbox[p][i + 1]
        BY <1>1, <2>2, <4>1
      <4> QED BY <1>5, <2>2, <4>2 DEF RecordInv, RecordFirst
    <3>2. CASE q # p
      BY <1>1, <1>4, <1>5, <2>2, <3>2 DEF RecordInv, RecordFirst
    <3> QED BY <3>1, <3>2
  <2> QED BY <2>1, <2>2 DEF RecordFirst
<1>9. PassIsFresh'
  <2> SUFFICES ASSUME NEW q \in Processes, NEW k \in Keys,
                      PassHasRead(q)', k \notin touched'[q], live'[q][k] # None,
                      passRow'[q][k[2]] # None
               PROVE  stamp'[live'[q][k]] <= stamp'[passRow'[q][k[2]]]
    BY DEF PassIsFresh
  <2>1. PassHasRead(q)
    BY <1>5 DEF PassHasRead
  <2>2. k \notin touched[q] /\ live'[q][k] = live[q][k]
    BY <1>3, <1>6, <1>7, <2>1 DEF PassHasRead
  <2> QED BY <1>5, <2>1, <2>2 DEF RecordInv, PassIsFresh
<1> QED
  BY <1>5, <1>8, <1>9 DEF RecordInv, RowsAreRecorded, PassHoldsRows


\* A pass that reads the rows reads, for every entry that is still the one it found, a
\* Deployment at least as new; so applying it keeps every entry recorded and keyed.
LEMMA RecordPass ==
  ASSUME TypeOK, StampsBounded, RecordInv, NEW p \in Processes,
         PassStep(p) \/ SubscribeFails(p) \/ PassFail(p)
  PROVE  RecordInv'
<1> USE DEF RecordInv
<1>1. UNCHANGED <<rows, stamp, pc, inbox>>
  BY DEF PassStep, PassBegin, PassRead, EnsureSubscribe, EnsureJoin, PassApply, PassFail,
         dbVars, coordVars, redisVars, SubscribeFails
<1>2. RowsAreRecorded'
  BY <1>1 DEF RowsAreRecorded
<1>3. /\ live \in [Processes -> [Keys -> Entry]]
      /\ passRow \in [Processes -> [Environments -> Entry]]
      /\ passPhase \in [Processes -> {"idle", "begun", "read", "joining", "ensured"}]
      /\ touched \in [Processes -> SUBSET Keys]
  BY DEF TypeOK
<1>4. CASE PassBegin(p) \/ EnsureSubscribe(p) \/ EnsureJoin(p)
  <2>1. UNCHANGED <<live, passRow, touched>>
    BY <1>4 DEF PassBegin, EnsureSubscribe, EnsureJoin, memberVars
  <2>2. \A q \in Processes : PassHasRead(q)' => PassHasRead(q)
    BY <1>3, <1>4 DEF PassHasRead, PassBegin, EnsureSubscribe, EnsureJoin
  <2>3. RecordFirst' /\ PassHoldsRows'
    BY <1>1, <2>1 DEF RecordFirst, PassHoldsRows
  <2>4. PassIsFresh'
    BY <1>1, <2>1, <2>2 DEF PassIsFresh
  <2> QED BY <1>2, <2>3, <2>4
<1>5. CASE PassRead(p)
  <2>1. UNCHANGED <<live, touched>> /\ passRow' = [passRow EXCEPT ![p] = LatestDeployments]
    BY <1>5 DEF PassRead, memberVars
  <2>2. ASSUME NEW e \in Environments, RowsIn(e) # {}
        PROVE  /\ LatestDeployments[e] \in RowsIn(e)
               /\ \A d \in RowsIn(e) : stamp[d] <= stamp[LatestDeployments[e]]
    <3>1. RowsIn(e) \in SUBSET Deploys
      BY DEF RowsIn, TypeOK
    <3> QED BY <2>2, <3>1, NewestIsNewest DEF LatestDeployments
  <2>3. ASSUME NEW e \in Environments, RowsIn(e) = {}
        PROVE  LatestDeployments[e] = None
    BY <2>3 DEF LatestDeployments, Newest
  <2>4. PassHoldsRows'
    BY <1>1, <1>3, <2>1, <2>2, <2>3 DEF PassHoldsRows, RowsIn
  <2>5. PassIsFresh'
    <3> SUFFICES ASSUME NEW q \in Processes, NEW k \in Keys,
                        PassHasRead(q)', k \notin touched'[q], live'[q][k] # None,
                        passRow'[q][k[2]] # None
                 PROVE  stamp'[live'[q][k]] <= stamp'[passRow'[q][k[2]]]
      BY DEF PassIsFresh
    <3>1. CASE q = p
      <4>1. live[q][k] \in rows /\ Key(live[q][k]) = k /\ k[2] \in Environments
        BY <2>1 DEF RecordFirst, Keys
      <4>2. live[q][k] \in RowsIn(k[2])
        BY <4>1 DEF RowsIn, Key
      <4>3. passRow'[q][k[2]] = LatestDeployments[k[2]]
        BY <1>3, <2>1, <3>1
      <4> QED BY <1>1, <2>1, <2>2, <4>1, <4>2, <4>3
    <3>2. CASE q # p
      BY <1>1, <1>3, <1>5, <2>1, <3>2 DEF PassIsFresh, PassHasRead, PassRead
    <3> QED BY <3>1, <3>2
  <2> QED BY <1>1, <1>2, <2>1, <2>4, <2>5 DEF RecordFirst
<1>6. CASE PassApply(p)
  <2>1. /\ live' = [live EXCEPT ![p] = [k \in Keys |-> Reconciled(p, k)]]
        /\ PassEnds(p)
    BY <1>6 DEF PassApply
  <2>2. \A k \in Keys : Reconciled(p, k) # None =>
           Reconciled(p, k) \in rows /\ Key(Reconciled(p, k)) = k
    BY DEF Reconciled, PassHoldsRows, RecordFirst, Keys
  <2>3. RecordFirst'
    BY <1>1, <1>3, <2>1, <2>2 DEF RecordFirst
  <2>4. PassHoldsRows'
    BY <1>1, <1>3, <2>1 DEF PassHoldsRows, PassEnds
  <2>5. PassIsFresh'
    BY <1>1, <1>3, <2>1 DEF PassIsFresh, PassHasRead, PassEnds
  <2> QED BY <1>2, <2>3, <2>4, <2>5
<1>7. CASE SubscribeFails(p) \/ PassFail(p)
  <2>1. UNCHANGED live /\ PassEnds(p)
    BY <1>7 DEF PassFail, memberVars, SubscribeFails
  <2>2. RecordFirst'
    BY <1>1, <2>1 DEF RecordFirst
  <2>3. PassHoldsRows'
    BY <1>1, <1>3, <2>1 DEF PassHoldsRows, PassEnds
  <2>4. PassIsFresh'
    BY <1>1, <1>3, <2>1 DEF PassIsFresh, PassHasRead, PassEnds
  <2> QED BY <1>2, <2>2, <2>3, <2>4
<1> QED BY <1>4, <1>5, <1>6, <1>7 DEF PassStep

\* The other steps of a process send nothing and set no reference but to nothing.
LEMMA RecordOther ==
  ASSUME TypeOK, RecordInv, NEW p \in Processes,
         \/ Subscribe(p) \/ Join(p) \/ HandlePrepare(p) \/ Acknowledge(p) \/ Disconnect(p)
         \/ Reconnect(p) \/ ListenerDies(p) \/ Crash(p) \/ Stop(p) \/ RedisDrops(p)
  PROVE  RecordInv'
<1> USE DEF RecordInv
<1>1. UNCHANGED <<rows, stamp, pc>>
  BY DEF Subscribe, Join, HandlePrepare, Acknowledge, Disconnect, Reconnect, ListenerDies, Crash, Stop,
         Gone, RedisDrops, dbVars, coordVars, Takes
<1>2. /\ live \in [Processes -> [Keys -> Entry]]
      /\ passRow \in [Processes -> [Environments -> Entry]]
      /\ passPhase \in [Processes -> {"idle", "begun", "read", "joining", "ensured"}]
      /\ touched \in [Processes -> SUBSET Keys]
      /\ inbox \in [Processes -> Seq(Messages)]
  BY DEF TypeOK
<1>3. \/ UNCHANGED <<live, passRow, passPhase, touched>>
      \/ /\ live' = [live EXCEPT ![p] = [k \in Keys |-> None]]
         /\ PassEnds(p)
  BY DEF Subscribe, Join, HandlePrepare, Acknowledge, Disconnect, Reconnect, ListenerDies, Crash, Stop,
         Gone, RedisDrops, passVars, memberVars, Takes
<1>4. \/ UNCHANGED inbox
      \/ inbox' = [inbox EXCEPT ![p] = <<>>]
      \/ inbox[p] # <<>> /\ inbox' = [inbox EXCEPT ![p] = Tail(@)]
  BY DEF Subscribe, Join, HandlePrepare, Acknowledge, Disconnect, Reconnect, ListenerDies, Crash, Stop,
         Gone, RedisDrops, redisVars, Takes
<1>5. ASSUME NEW q \in Processes, NEW i \in 1..Len(inbox'[q]),
             inbox'[q][i].phase = "commit"
      PROVE  inbox'[q][i].deploy \in rows'
  <2>1. \E j \in 1..Len(inbox[q]) : inbox[q][j] = inbox'[q][i]
    <3>1. CASE UNCHANGED inbox
      BY <1>5, <3>1
    <3>2. CASE inbox' = [inbox EXCEPT ![p] = <<>>]
      BY <1>2, <1>5, <3>2
    <3>3. CASE inbox[p] # <<>> /\ inbox' = [inbox EXCEPT ![p] = Tail(@)]
      <4>1. CASE q = p
        <5>1. inbox'[q] = Tail(inbox[p]) /\ inbox[p] \in Seq(Messages)
          BY <1>2, <3>3, <4>1
        <5>2. i + 1 \in 1..Len(inbox[p]) /\ inbox'[q][i] = inbox[p][i + 1]
          BY <3>3, <5>1, TailElement
        <5> QED BY <4>1, <5>2
      <4>2. CASE q # p
        BY <1>2, <1>5, <3>3, <4>2
      <4> QED BY <4>1, <4>2
    <3> QED BY <1>4, <3>1, <3>2, <3>3
  <2> QED BY <1>1, <1>5, <2>1 DEF RecordFirst
<1>6. RecordFirst'
  <2>1. ASSUME NEW q \in Processes, NEW k \in Keys, live'[q][k] # None
        PROVE  live'[q][k] \in rows' /\ Key(live'[q][k]) = k
    <3>1. CASE UNCHANGED live
      BY <1>1, <2>1, <3>1 DEF RecordFirst
    <3>2. CASE live' = [live EXCEPT ![p] = [l \in Keys |-> None]]
      <4>1. live'[q] = IF q = p THEN [l \in Keys |-> None] ELSE live[q]
        BY <1>2, <3>2
      <4>2. live'[q][k] = live[q][k]
        BY <2>1, <4>1
      <4> QED BY <1>1, <2>1, <4>2 DEF RecordFirst
    <3> QED BY <1>3, <3>1, <3>2
  <2> QED BY <1>5, <2>1 DEF RecordFirst
<1>7. PassHoldsRows'
  <2> SUFFICES ASSUME NEW q \in Processes, NEW e \in Environments, passRow'[q][e] # None
               PROVE  passRow'[q][e] \in rows' /\ EnvironmentOf[passRow'[q][e]] = e
    BY DEF PassHoldsRows
  <2>1. passRow'[q][e] = passRow[q][e]
    <3>1. CASE UNCHANGED passRow
      BY <3>1
    <3>2. CASE passRow' = [passRow EXCEPT ![p] = [f \in Environments |-> None]]
      BY <1>2, <3>2
    <3> QED BY <1>3, <3>1, <3>2 DEF PassEnds
  <2> QED BY <1>1, <2>1 DEF PassHoldsRows
<1>8. PassIsFresh'
  <2>1. CASE UNCHANGED <<live, passRow, passPhase, touched>>
    BY <1>1, <2>1 DEF PassIsFresh, PassHasRead
  <2>2. CASE /\ live' = [live EXCEPT ![p] = [k \in Keys |-> None]]
             /\ PassEnds(p)
    <3>1. passPhase'[p] = "idle"
      BY <1>2, <2>2 DEF PassEnds
    <3>2. \A q \in Processes : q # p =>
            /\ live'[q] = live[q] /\ passRow'[q] = passRow[q]
            /\ passPhase'[q] = passPhase[q] /\ touched'[q] = touched[q]
      BY <1>2, <2>2 DEF PassEnds
    <3> QED BY <1>1, <3>1, <3>2 DEF PassIsFresh, PassHasRead
  <2> QED BY <1>3, <2>1, <2>2
<1> QED BY <1>1, <1>6, <1>7, <1>8 DEF RowsAreRecorded

\* Every step keeps the references of every process recorded.
LEMMA RecordStep ==
  ASSUME TypeOK, StampsBounded, RecordInv, [Next]_vars
  PROVE  RecordInv'
<1>1. CASE \E e \in Environments : CreateEnvironment(e)
  BY <1>1 DEF CreateEnvironment, RecordInv, RowsAreRecorded, RecordFirst, PassHoldsRows,
              PassIsFresh, PassHasRead, coordVars, redisVars, passVars, memberVars
<1>2. CASE UNCHANGED vars
  BY <1>2 DEF vars, dbVars, RecordInv, RowsAreRecorded, RecordFirst, PassHoldsRows,
              PassIsFresh, PassHasRead, coordVars, redisVars, passVars, memberVars
<1>3. CASE \E d \in Deploys : CoordinatorStep(d)
  BY <1>3, RecordCoordinator
<1>4. CASE \E p \in Processes : ProcessStep(p)
  BY <1>4, RecordSwap, RecordPass, RecordOther DEF ProcessStep, ListenerStep
<1> QED BY <1>1, <1>2, <1>3, <1>4 DEF Next

\* "The record is never behind what a process serves", in every reachable state.
THEOREM RecordAhead == Spec => []RecordFirst
<1> DEFINE IInv == TypeOK /\ StampsBounded /\ RecordInv
<1>1. Init => IInv
  BY TypeInit, RecordInit
<1>2. IInv /\ [Next]_vars => IInv'
  BY TypeStep, StampsStep, RecordStep
<1>3. IInv => RecordFirst
  BY DEF RecordInv
<1> QED BY <1>1, <1>2, <1>3, PTL DEF Spec

\* "Never backwards": a reconcile pass moves no reference to an older Deployment.
THEOREM PassNeverMovesBackwards == Spec => NoBackwardPass
<1> DEFINE IInv == TypeOK /\ StampsBounded /\ RecordInv
           Forward == \A p \in Processes : \A k \in Keys :
                        PassApply(p) /\ live'[p][k] # live[p][k] /\ live[p][k] # None =>
                          stamp[live[p][k]] <= stamp[live'[p][k]]
<1>1. Init => IInv
  BY TypeInit, RecordInit
<1>2. IInv /\ [Next]_vars => IInv'
  BY TypeStep, StampsStep, RecordStep
<1>3. IInv => Forward
  <2> SUFFICES ASSUME IInv, NEW p \in Processes, NEW k \in Keys,
                      PassApply(p), live'[p][k] # live[p][k], live[p][k] # None
               PROVE  stamp[live[p][k]] <= stamp[live'[p][k]]
    OBVIOUS
  <2>1. live' = [live EXCEPT ![p] = [j \in Keys |-> Reconciled(p, j)]]
    BY DEF PassApply
  <2>2. live \in [Processes -> [Keys -> Entry]]
    BY DEF TypeOK
  <2>3. live'[p][k] = Reconciled(p, k)
    BY <2>1, <2>2
  <2>4. /\ live'[p][k] = passRow[p][k[2]] /\ passRow[p][k[2]] # None
        /\ k \notin touched[p]
    BY <2>3 DEF Reconciled
  <2>5. PassHasRead(p)
    BY DEF PassApply, PassHasRead
  <2> QED BY <2>4, <2>5 DEF RecordInv, PassIsFresh
<1>4. IInv /\ [Next]_vars => [Forward]_vars
  BY <1>3
<1> QED BY <1>1, <1>2, <1>4, PTL DEF Spec, NoBackwardPass

-----------------------------------------------------------------------------
(* The switch implements ServedDeployments.                                *)

KeyTable == [d \in Deploys |-> Key(d)]
Switches(s) == {d \in Deploys : \E i \in 1..Len(s) : s[i] = d}
HeldTable == [p \in Processes |-> HeldBy(p)]
AbstractVars == <<rows, stamp, clock, live, HeldTable>>

\* What a process holds is a function of its pending switches.
LEMMA HeldSame ==
  ASSUME UNCHANGED pending
  PROVE  UNCHANGED HeldTable
BY DEF HeldTable, HeldBy, Holds

\* A change of one process's pending switches changes what it holds, and nobody else does.
LEMMA HeldUpdate ==
  ASSUME TypeOK, NEW p \in Processes, NEW s, pending' = [pending EXCEPT ![p] = s]
  PROVE  HeldTable' = [HeldTable EXCEPT ![p] = Switches(s)]
<1>1. pending'[p] = s /\ \A q \in Processes \ {p} : pending'[q] = pending[q]
  BY DEF TypeOK
<1>2. HeldBy(p)' = Switches(s)
  BY <1>1 DEF HeldBy, Holds, Switches
<1>3. \A q \in Processes \ {p} : HeldBy(q)' = HeldBy(q)
  BY <1>1 DEF HeldBy, Holds
<1> QED BY <1>2, <1>3 DEF HeldTable

\* Preparing a switch adds it to what was held, at the cost of the oldest at most.
LEMMA BoundedElement ==
  ASSUME NEW s \in Seq(Deploys), NEW d \in Deploys, NEW i \in 1..Len(Bounded(Append(s, d)))
  PROVE  Bounded(Append(s, d))[i] = d \/ \E j \in 1..Len(s) : s[j] = Bounded(Append(s, d))[i]
<1>1. \A j \in 1..Len(Append(s, d)) :
         Append(s, d)[j] = d \/ \E l \in 1..Len(s) : s[l] = Append(s, d)[j]
  OBVIOUS
<1>2. Append(s, d) \in Seq(Deploys) /\ Append(s, d) # <<>>
  OBVIOUS
<1>3. CASE Bounded(Append(s, d)) = Append(s, d)
  BY <1>1, <1>3
<1>4. CASE Bounded(Append(s, d)) = Tail(Append(s, d))
  <2>1. i + 1 \in 1..Len(Append(s, d)) /\ Tail(Append(s, d))[i] = Append(s, d)[i + 1]
    BY <1>2, <1>4, TailElement
  <2> QED BY <1>1, <1>4, <2>1
<1> QED BY <1>3, <1>4 DEF Bounded

\* Removing a prepared switch adds none.
LEMMA WithoutElement ==
  ASSUME NEW s \in Seq(Deploys), NEW d \in Deploys, NEW i \in 1..Len(Without(s, d))
  PROVE  \E j \in 1..Len(s) : s[j] = Without(s, d)[i]
<1>1. CASE \E j \in 1..Len(s) : s[j] = d
  <2> DEFINE j == CHOOSE j \in 1..Len(s) : s[j] = d
             a == SubSeq(s, 1, j - 1)
             b == SubSeq(s, j + 1, Len(s))
  <2>1. j \in 1..Len(s)
    BY <1>1
  <2>2. Without(s, d) = a \o b
    BY <1>1 DEF Without, RemoveAt
  <2> HIDE DEF j
  <2>3. a \in Seq(Deploys) /\ Len(a) = j - 1 /\ \A l \in 1..(j - 1) : a[l] = s[l]
    BY <2>1
  <2>4. b \in Seq(Deploys) /\ Len(b) = Len(s) - j /\ \A l \in 1..(Len(s) - j) : b[l] = s[j + l]
    BY <2>1
  <2> HIDE DEF a, b
  <2>5. i \in 1..(Len(a) + Len(b)) /\ (a \o b)[i] = IF i <= Len(a) THEN a[i] ELSE b[i - Len(a)]
    BY <2>2, <2>3, <2>4
  <2>6. CASE i <= Len(a)
    <3>1. i \in 1..(j - 1) /\ i \in 1..Len(s)
      BY <2>1, <2>3, <2>5, <2>6
    <3>2. Without(s, d)[i] = a[i] /\ a[i] = s[i]
      BY <2>2, <2>3, <2>5, <2>6, <3>1
    <3> QED BY <3>1, <3>2
  <2>7. CASE i > Len(a)
    <3>1. i - Len(a) \in 1..(Len(s) - j) /\ j + (i - Len(a)) \in 1..Len(s)
      BY <2>1, <2>3, <2>4, <2>5, <2>7
    <3>2. Without(s, d)[i] = b[i - Len(a)]
      BY <2>2, <2>3, <2>5, <2>7
    <3>3. b[i - Len(a)] = s[j + (i - Len(a))]
      BY <2>4, <3>1
    <3> QED BY <3>1, <3>2, <3>3
  <2> QED BY <2>3, <2>5, <2>6, <2>7
<1>2. CASE ~\E j \in 1..Len(s) : s[j] = d
  BY <1>2 DEF Without
<1> QED BY <1>1, <1>2

\* A step of deploy_and_switch is a Begin or a Record of ServedDeployments, or none.
LEMMA AbstractCoordinator ==
  ASSUME TypeOK, RecordInv, NEW d \in Deploys, CoordinatorStep(d)
  PROVE  Abstract!Next \/ UNCHANGED AbstractVars
<1> USE DEF AbstractVars
<1>0. UNCHANGED HeldTable
  BY HeldSame DEF CoordinatorStep, Open, PublishPrepare, FinishPrepare, Prune, ShortPrepare,
         CommitRow, PublishCommit, FinishCommit, CoordinatorDies, memberVars
<1>1. CASE Open(d)
  <2>1. d \notin rows
    BY <1>1 DEF Open, RecordInv, RowsAreRecorded, Recorded
  <2>2. Abstract!Begin(d)
    BY <1>0, <1>1, <2>1 DEF HeldTable, Abstract!Begin, Open, memberVars
  <2> QED BY <2>2 DEF Abstract!Next
<1>2. CASE CommitRow(d)
  <2>1. d \notin rows
    BY <1>2 DEF CommitRow, RecordInv, RowsAreRecorded, Recorded
  <2>2. Abstract!Record(d)
    BY <1>0, <1>2, <2>1 DEF HeldTable, Abstract!Record, CommitRow, memberVars
  <2> QED BY <2>2 DEF Abstract!Next
<1>3. CASE ~Open(d) /\ ~CommitRow(d)
  BY <1>0, <1>3 DEF CoordinatorStep, PublishPrepare, FinishPrepare, Prune, ShortPrepare,
              PublishCommit, FinishCommit, CoordinatorDies, dbVars, memberVars
<1> QED BY <1>1, <1>2, <1>3

\* A step of a process is a Hydrate, a Swap, a Reload or a Forget of ServedDeployments, or none.
LEMMA AbstractProcess ==
  ASSUME TypeOK, RecordInv, NEW p \in Processes, ProcessStep(p)
  PROVE  Abstract!Next \/ UNCHANGED AbstractVars
<1> USE DEF AbstractVars
<1>1. UNCHANGED <<rows, stamp, clock>>
  BY DEF ProcessStep, ListenerStep, PassStep, Subscribe, Join, HandlePrepare, HandleCommit,
         Disconnect, Reconnect, ListenerDies, Crash, Stop, Gone, RedisDrops, PassBegin,
         PassRead, EnsureSubscribe, EnsureJoin, PassApply, PassFail, dbVars, Takes,
         Acknowledge, SubscribeFails
<1>2. CASE HandleCommit(p)
  <2> DEFINE d == Head(inbox[p]).deploy
  <2>1. /\ inbox \in [Processes -> Seq(Messages)] /\ inbox[p] # <<>>
        /\ inbox[p][1].phase = "commit" /\ d = inbox[p][1].deploy
        /\ Len(inbox[p]) \in Nat /\ 1 <= Len(inbox[p])
    BY <1>2 DEF HandleCommit, TypeOK, Takes
  <2>2. d \in rows /\ d \in Deploys
    BY <2>1 DEF RecordInv, RecordFirst, TypeOK
  <2>3. Swap(p, d)
    BY <1>2 DEF HandleCommit, Takes
  <2> HIDE DEF d
  <2>4. CASE /\ Holds(p, d)
             /\ pending' = [pending EXCEPT ![p] = Without(pending[p], d)]
             /\ live' = [live EXCEPT ![p][Key(d)] = d]
    <3> DEFINE rest == Without(pending[p], d)
    <3>1. KeyTable[d] = Key(d) /\ HeldTable[p] = HeldBy(p) /\ d \in HeldBy(p)
      BY <2>2, <2>4 DEF KeyTable, HeldTable, HeldBy
    <3>2. HeldTable' = [HeldTable EXCEPT ![p] = Switches(rest)]
      <4> HIDE DEF rest
      <4>1. pending' = [pending EXCEPT ![p] = rest]
        BY <2>4 DEF rest
      <4> QED BY <4>1, HeldUpdate
    <3>3. Switches(rest) \subseteq HeldBy(p)
      <4>1. pending[p] \in Seq(Deploys)
        BY DEF TypeOK
      <4> QED BY <2>2, <4>1, WithoutElement DEF HeldBy, Holds, Switches
    <3> HIDE DEF rest
    <3>4. Abstract!Swap(p, d)
      BY <1>1, <2>2, <2>4, <3>1, <3>2, <3>3 DEF Abstract!Swap, KeyTable, HeldTable
    <3> QED BY <2>2, <3>4 DEF Abstract!Next
  <2>5. CASE UNCHANGED <<live, pending>>
    BY <1>1, <2>5, HeldSame
  <2> QED BY <2>3, <2>4, <2>5 DEF Swap
<1>3. CASE PassApply(p)
  <2> DEFINE new == [k \in Keys |-> Reconciled(p, k)]
  <2>0. UNCHANGED HeldTable
    BY <1>3, HeldSame DEF PassApply
  <2>1. live' = [live EXCEPT ![p] = new]
    BY <1>3 DEF PassApply
  <2>2. new \in [Keys -> Deploys \cup {None}]
    BY DEF Reconciled, Keys, TypeOK, Entry
  <2>3. ASSUME NEW k \in Keys, new[k] # live[p][k]
        PROVE  /\ new[k] \in rows /\ KeyTable[new[k]] = k
               /\ live[p][k] # None => stamp[live[p][k]] <= stamp[new[k]]
    <3>1. /\ new[k] = passRow[p][k[2]] /\ passRow[p][k[2]] # None
          /\ Key(passRow[p][k[2]]) = k /\ k \notin touched[p] /\ k[2] \in Environments
      BY <2>3 DEF Reconciled, Keys
    <3>2. new[k] \in rows /\ KeyTable[new[k]] = k
      BY <3>1 DEF RecordInv, PassHoldsRows, TypeOK, KeyTable
    <3>3. PassHasRead(p)
      BY <1>3 DEF PassApply, PassHasRead
    <3> QED BY <3>1, <3>2, <3>3 DEF RecordInv, PassIsFresh
  <2> HIDE DEF new
  <2>4. Abstract!Repairs(live[p], new)
    BY <2>3 DEF Abstract!Repairs, KeyTable
  <2>5. Abstract!Reload(p)
    BY <1>1, <2>0, <2>1, <2>2, <2>4 DEF Abstract!Reload, HeldTable
  <2> QED BY <2>5 DEF Abstract!Next
<1>4. CASE Crash(p) \/ Stop(p)
  <2>1. pending' = [pending EXCEPT ![p] = <<>>]
    BY <1>4 DEF Crash, Stop, Gone
  <2>2. HeldTable' = [HeldTable EXCEPT ![p] = {}]
    <3>1. Switches(<<>>) = {}
      BY DEF Switches
    <3> QED BY <2>1, <3>1, HeldUpdate
  <2>3. Abstract!Forget(p)
    BY <1>1, <1>4, <2>2 DEF Abstract!Forget, Crash, Stop, Gone, HeldTable
  <2> QED BY <2>3 DEF Abstract!Next
<1>5. CASE HandlePrepare(p)
  <2> DEFINE d == Head(inbox[p]).deploy
  <2>1. d \in Deploys /\ Prepare(p, d)
    <3>1. inbox[p] \in Seq(Messages) /\ inbox[p] # <<>>
      BY <1>5 DEF HandlePrepare, TypeOK, Takes
    <3>2. Head(inbox[p]) \in Messages
      BY <3>1
    <3> QED BY <1>5, <3>2 DEF HandlePrepare, Messages, Takes
  <2>2. UNCHANGED live
    BY <1>5 DEF HandlePrepare, Takes
  <2> HIDE DEF d
  <2>3. CASE pending' = [pending EXCEPT ![p] = Bounded(Append(pending[p], d))]
    <3> DEFINE kept == Bounded(Append(pending[p], d))
    <3>1. HeldTable' = [HeldTable EXCEPT ![p] = Switches(kept)] /\ HeldTable[p] = HeldBy(p)
      <4> HIDE DEF kept
      <4>1. pending' = [pending EXCEPT ![p] = kept]
        BY <2>3 DEF kept
      <4> QED BY <4>1, HeldUpdate DEF HeldTable
    <3>2. Switches(kept) \subseteq HeldBy(p) \cup {d}
      <4>1. pending[p] \in Seq(Deploys)
        BY DEF TypeOK
      <4> QED BY <2>1, <4>1, BoundedElement DEF HeldBy, Holds, Switches
    <3> HIDE DEF kept
    <3>3. Abstract!Hydrate(p, d)
      BY <1>1, <2>2, <3>1, <3>2 DEF Abstract!Hydrate, HeldTable
    <3> QED BY <2>1, <3>3 DEF Abstract!Next
  <2>4. CASE UNCHANGED pending
    BY <1>1, <2>2, <2>4, HeldSame
  <2> QED BY <2>1, <2>3, <2>4 DEF Prepare
<1>6. CASE ~HandlePrepare(p) /\ ~HandleCommit(p) /\ ~PassApply(p) /\ ~Crash(p) /\ ~Stop(p)
  <2>1. UNCHANGED <<live, pending>>
    BY <1>6 DEF ProcessStep, ListenerStep, Acknowledge, PassStep, Subscribe, Join,
         Disconnect, Reconnect, ListenerDies, RedisDrops, PassBegin,
         PassRead, EnsureSubscribe, EnsureJoin, PassFail, memberVars, SubscribeFails
  <2> QED BY <1>1, <2>1, HeldSame
<1> QED BY <1>2, <1>3, <1>4, <1>5, <1>6

\* The two-phase switch, its rosters, lost messages, crashes and repairs implement
\* ServedDeployments: processes serve recorded Deployments, and repairs go forward.
THEOREM SwitchImplementsServedDeployments == Spec => ImplementsServedDeployments
<1> DEFINE IInv == TypeOK /\ StampsBounded /\ RecordInv
<1>1. Init => IInv
  BY TypeInit, RecordInit
<1>2. IInv /\ [Next]_vars => IInv'
  BY TypeStep, StampsStep, RecordStep
<1>3. Init => Abstract!Init
  BY DEF Init, Abstract!Init, HeldBy, Holds
<1>4. ASSUME IInv, [Next]_vars
      PROVE  Abstract!Next \/ UNCHANGED AbstractVars
  <2>1. CASE \E e \in Environments : CreateEnvironment(e)
    BY <2>1, HeldSame DEF CreateEnvironment, AbstractVars, memberVars
  <2>2. CASE UNCHANGED vars
    BY <2>2, HeldSame DEF vars, dbVars, memberVars, AbstractVars
  <2>3. CASE \E d \in Deploys : CoordinatorStep(d)
    BY <1>4, <2>3, AbstractCoordinator
  <2>4. CASE \E p \in Processes : ProcessStep(p)
    BY <1>4, <2>4, AbstractProcess
  <2> QED BY <1>4, <2>1, <2>2, <2>3, <2>4 DEF Next
<1>5. UNCHANGED AbstractVars <=> UNCHANGED Abstract!vars
  BY DEF AbstractVars, Abstract!vars, HeldTable
<1>6. IInv /\ [Next]_vars => [Abstract!Next]_(Abstract!vars)
  <2> HIDE DEF IInv
  <2> QED BY <1>4, <1>5
<1> QED BY <1>1, <1>2, <1>3, <1>6, PTL DEF Spec, ImplementsServedDeployments, Abstract!Spec

-----------------------------------------------------------------------------
(* Acknowledgements are of receivers.                                      *)

\* Who reports a hydrated bundle was counted by PUBLISH, so as many acknowledgements as
\* receivers are an acknowledgement of each.
AckInv ==
  /\ \A d \in Deploys :
       /\ acks[d]["prepare"] \subseteq receivers[d]
       /\ pc[d] \in {"idle", "open"} => receivers[d] = {}
       /\ committed[d] \subseteq prepared[d]
       /\ pc[d] # "done" => committed[d] = {}
  /\ \A p \in Processes : \A i \in 1..Len(inbox[p]) :
       inbox[p][i].phase = "prepare" => p \in receivers[inbox[p][i].deploy]
  /\ \A p \in Processes : \A m \in answering[p] :
       m.phase = "prepare" => p \in receivers[m.deploy]
  /\ ReceiversAccountedFor

LEMMA AckInit == Init => AckInv
BY DEF Init, AckInv, ReceiversAccountedFor, Recorded, Phases

\* A set that holds as many as a finite set it is in is that set.
LEMMA AllAcknowledged ==
  ASSUME TypeOK, AckInv, NEW d \in Deploys, EnoughAcks(d)
  PROVE  acks[d]["prepare"] = receivers[d]
<1>1. /\ receivers[d] \subseteq Processes
      /\ acks[d]["prepare"] \subseteq receivers[d]
  BY DEF TypeOK, AckInv
<1>2. IsFiniteSet(receivers[d]) /\ IsFiniteSet(acks[d]["prepare"])
  BY <1>1, FiniteActors, FS_Subset
<1>3. Cardinality(acks[d]["prepare"]) >= Cardinality(receivers[d])
  BY DEF EnoughAcks
<1>4. /\ Cardinality(receivers[d]) \in Nat /\ Cardinality(acks[d]["prepare"]) \in Nat
      /\ acks[d]["prepare"] # receivers[d] =>
           Cardinality(acks[d]["prepare"]) < Cardinality(receivers[d])
  BY <1>1, <1>2, FS_Subset, FS_CardinalityType
<1> QED BY <1>3, <1>4

\* A step that keeps the rounds, sends no PREPARE, and acknowledges only one it was sent.
LEMMA AckKeep ==
  ASSUME TypeOK, AckInv, UNCHANGED <<pc, receivers, prepared, pruned, committed>>,
         \A d \in Deploys : acks'[d]["prepare"] \subseteq receivers[d],
         \A p \in Processes : \A i \in 1..Len(inbox'[p]) :
           inbox'[p][i].phase = "prepare" =>
             \E j \in 1..Len(inbox[p]) : inbox[p][j] = inbox'[p][i],
         \A p \in Processes : \A m \in answering'[p] :
           m.phase = "prepare" => m \in answering[p] \/ p \in receivers[m.deploy]
  PROVE  AckInv'
<1>1. ReceiversAccountedFor'
  BY DEF AckInv, ReceiversAccountedFor, PossiblyStale
<1>2. \A p \in Processes : \A i \in 1..Len(inbox'[p]) :
        inbox'[p][i].phase = "prepare" => p \in receivers'[inbox'[p][i].deploy]
  <2> TAKE p \in Processes
  <2> TAKE i \in 1..Len(inbox'[p])
  <2> HAVE inbox'[p][i].phase = "prepare"
  <2>1. PICK j \in 1..Len(inbox[p]) : inbox[p][j] = inbox'[p][i]
    OBVIOUS
  <2> QED BY <2>1 DEF AckInv
<1> QED BY <1>1, <1>2 DEF AckInv

\* A coordinator's step: PREPARE is counted once, and what it is short of is refused.
LEMMA AckCoordinator ==
  ASSUME TypeOK, AckInv, NEW d \in Deploys, CoordinatorStep(d)
  PROVE  AckInv'
<1> DEFINE Sent == \A p \in Processes : \A i \in 1..Len(inbox[p]) :
                     inbox[p][i].phase = "prepare" => p \in receivers[inbox[p][i].deploy]
<1>0. answering' = answering
  BY DEF CoordinatorStep, Open, PublishPrepare, FinishPrepare, Prune, ShortPrepare, CommitRow,
         PublishCommit, FinishCommit, CoordinatorDies, memberVars
<1>1. CASE Open(d)
  <2>1. UNCHANGED <<receivers, prepared, pruned, committed, inbox, acks>>
        /\ pc' = [pc EXCEPT ![d] = "open"] /\ pc[d] = "idle"
    BY <1>1 DEF Open, redisVars
  <2> QED BY <1>0, <2>1 DEF AckInv, ReceiversAccountedFor, Recorded, PossiblyStale, TypeOK
<1>2. CASE PublishPrepare(d)
  <2> DEFINE S == {p \in Processes : EnvironmentOf[d] \in subscribed[p]}
  <2>1. /\ pc[d] = "open" /\ pc' = [pc EXCEPT ![d] = "waiting"]
        /\ receivers' = [receivers EXCEPT ![d] = S]
        /\ UNCHANGED <<prepared, pruned, committed, acks>>
        /\ Publish("prepare", d)
    BY <1>2 DEF PublishPrepare
  <2>2. receivers[d] = {} /\ acks[d]["prepare"] = {}
    BY <2>1 DEF AckInv
  <2>3. /\ receivers'[d] = S /\ pc'[d] = "waiting"
        /\ \A e \in Deploys : e # d => receivers'[e] = receivers[e] /\ pc'[e] = pc[e]
    BY <2>1 DEF TypeOK
  <2>4. ASSUME NEW p \in Processes, NEW i \in 1..Len(inbox'[p]),
               inbox'[p][i].phase = "prepare"
        PROVE  p \in receivers'[inbox'[p][i].deploy]
    <3>1. inbox \in [Processes -> Seq(Messages)] /\ inbox[p] \in Seq(Messages)
      BY DEF TypeOK
    <3>2. CASE p \notin S
      <4>1. inbox'[p] = inbox[p]
        BY <2>1, <3>2 DEF Publish
      <4>2. inbox[p][i] \in Messages
        BY <3>1, <4>1, ElementOfSeq
      <4>3. p \in receivers[inbox[p][i].deploy] /\ inbox[p][i].deploy \in Deploys
        BY <2>4, <4>1, <4>2 DEF AckInv, Messages
      <4> QED BY <2>2, <2>3, <4>1, <4>3
    <3>3. CASE p \in S
      <4>1. inbox'[p] = Append(inbox[p], Message("prepare", d))
        BY <2>1, <3>3 DEF Publish
      <4>2. CASE i \in 1..Len(inbox[p])
        <5>1. inbox'[p][i] = inbox[p][i]
          BY <3>1, <4>1, <4>2
        <5>2. inbox[p][i] \in Messages
          BY <3>1, <4>2, ElementOfSeq
        <5>3. p \in receivers[inbox[p][i].deploy] /\ inbox[p][i].deploy \in Deploys
          BY <2>4, <4>2, <5>1, <5>2 DEF AckInv, Messages
        <5> QED BY <2>2, <2>3, <5>1, <5>3
      <4>3. CASE i \notin 1..Len(inbox[p])
        <5>1. inbox'[p][i] = Message("prepare", d)
          BY <3>1, <4>1, <4>3
        <5> QED BY <2>3, <3>3, <5>1 DEF Message
      <4> QED BY <4>2, <4>3
    <3> QED BY <3>2, <3>3
  <2>5. ReceiversAccountedFor'
    BY <2>1, <2>3 DEF AckInv, ReceiversAccountedFor, Recorded, PossiblyStale
  <2>6. \A p \in Processes : \A m \in answering[p] :
          m.phase = "prepare" => p \in receivers'[m.deploy]
    <3>1. \A p \in Processes : \A m \in answering[p] : m \in Messages /\ m.deploy \in Deploys
      BY DEF TypeOK, Messages
    <3> QED BY <2>2, <2>3, <3>1 DEF AckInv
  <2> QED BY <1>0, <2>1, <2>2, <2>3, <2>4, <2>5, <2>6 DEF AckInv
<1>3. CASE FinishPrepare(d)
  <2>1. /\ pc[d] = "waiting" /\ pc' = [pc EXCEPT ![d] = "pruning"]
        /\ prepared' = [prepared EXCEPT ![d] = acks[d]["prepare"]]
        /\ pruned' = [pruned EXCEPT ![d] = roster[EnvironmentOf[d]] \ acks[d]["prepare"]]
        /\ UNCHANGED <<receivers, committed, inbox, acks>>
    BY <1>3 DEF FinishPrepare, redisVars
  <2>2. acks[d]["prepare"] = receivers[d]
    BY <1>3, AllAcknowledged DEF FinishPrepare
  <2>3. /\ prepared'[d] = receivers[d] /\ pruned'[d] \cap receivers[d] = {}
        /\ pc'[d] = "pruning" /\ committed[d] = {}
        /\ \A e \in Deploys : e # d =>
             prepared'[e] = prepared[e] /\ pruned'[e] = pruned[e] /\ pc'[e] = pc[e]
    BY <2>1, <2>2 DEF TypeOK, AckInv
  <2> QED BY <1>0, <2>1, <2>3 DEF AckInv, ReceiversAccountedFor, Recorded, PossiblyStale
<1>4. CASE PublishCommit(d)
  <2>1. /\ pc[d] = "committed" /\ pc' = [pc EXCEPT ![d] = "swapping"]
        /\ UNCHANGED <<receivers, prepared, pruned, committed, acks>>
        /\ Publish("commit", d)
    BY <1>4 DEF PublishCommit
  <2>2. ASSUME NEW p \in Processes, NEW i \in 1..Len(inbox'[p]),
               inbox'[p][i].phase = "prepare"
        PROVE  p \in receivers'[inbox'[p][i].deploy]
    <3>1. inbox \in [Processes -> Seq(Messages)] /\ inbox[p] \in Seq(Messages)
      BY DEF TypeOK
    <3>2. CASE inbox'[p] = inbox[p]
      BY <2>1, <2>2, <3>2 DEF AckInv
    <3>3. CASE inbox'[p] = Append(inbox[p], Message("commit", d))
      <4>1. i \in 1..Len(inbox[p])
        <5>1. i \notin 1..Len(inbox[p]) => inbox'[p][i] = Message("commit", d)
          BY <3>1, <3>3
        <5> QED BY <2>2, <5>1 DEF Message
      <4>2. inbox'[p][i] = inbox[p][i]
        BY <3>1, <3>3, <4>1
      <4> QED BY <2>1, <2>2, <4>1, <4>2 DEF AckInv
    <3> QED BY <2>1, <3>2, <3>3 DEF Publish
  <2>3. ReceiversAccountedFor' /\ \A e \in Deploys : pc'[e] \in {"idle", "open"} => receivers[e] = {}
    BY <2>1 DEF AckInv, ReceiversAccountedFor, Recorded, PossiblyStale, TypeOK
  <2>4. \A e \in Deploys : pc'[e] # "done" => committed[e] = {}
    BY <2>1 DEF AckInv, TypeOK
  <2> QED BY <1>0, <2>1, <2>2, <2>3, <2>4 DEF AckInv
<1>5. CASE FinishCommit(d)
  <2>1. /\ pc[d] \in {"committed", "swapping"} /\ pc' = [pc EXCEPT ![d] = "done"]
        /\ UNCHANGED <<receivers, prepared, pruned, inbox, acks>>
        /\ \/ committed' = [committed EXCEPT ![d] = acks[d]["commit"] \cap prepared[d]]
           \/ committed' = committed
    BY <1>5 DEF FinishCommit, redisVars
  <2>2. /\ prepared[d] = receivers[d] /\ pruned[d] \cap receivers[d] = {}
        /\ pc'[d] = "done" /\ committed'[d] \subseteq prepared[d]
        /\ \A e \in Deploys : e # d => committed'[e] = committed[e] /\ pc'[e] = pc[e]
    BY <2>1 DEF TypeOK, AckInv, ReceiversAccountedFor, Recorded
  <2> QED BY <1>0, <2>1, <2>2 DEF AckInv, ReceiversAccountedFor, Recorded, PossiblyStale
<1>6. CASE Prune(d) \/ ShortPrepare(d) \/ CommitRow(d) \/ CoordinatorDies(d)
  <2>1. /\ UNCHANGED <<receivers, prepared, pruned, committed, inbox, acks>>
        /\ \E next \in {"prepared", "refused", "committed", "lost"} :
             /\ pc' = [pc EXCEPT ![d] = next]
             /\ pc[d] \notin {"idle", "done"} \/ next = "refused"
             /\ next # "refused" => pc[d] \in {"pruning", "prepared"} \cup Recorded
             /\ pc[d] # "done"
    BY <1>6 DEF Prune, ShortPrepare, CommitRow, CoordinatorDies, redisVars, InTransaction,
                Recorded
  <2> QED BY <1>0, <2>1 DEF AckInv, ReceiversAccountedFor, Recorded, PossiblyStale, TypeOK
<1> QED BY <1>1, <1>2, <1>3, <1>4, <1>5, <1>6 DEF CoordinatorStep

\* A process's step: it acknowledges a PREPARE that reached it.
LEMMA AckProcess ==
  ASSUME TypeOK, AckInv, NEW p \in Processes, ProcessStep(p)
  PROVE  AckInv'
<1>0. /\ answering \in [Processes -> SUBSET Messages]
      /\ acks \in [Deploys -> [Phases -> SUBSET Processes]]
      /\ \A m \in Messages : m.deploy \in Deploys /\ m.phase \in Phases
  BY DEF TypeOK, Messages
<1>1. inbox \in [Processes -> Seq(Messages)] /\ inbox[p] \in Seq(Messages)
  BY DEF TypeOK
<1>2. ASSUME inbox' = [inbox EXCEPT ![p] = Tail(@)], inbox[p] # <<>>
      PROVE  \A q \in Processes : \A i \in 1..Len(inbox'[q]) :
               \E j \in 1..Len(inbox[q]) : inbox[q][j] = inbox'[q][i]
  <2> TAKE q \in Processes
  <2>1. CASE q # p
    BY <1>1, <1>2, <2>1
  <2>2. CASE q = p
    <3> TAKE i \in 1..Len(inbox'[q])
    <3>1. inbox'[q] = Tail(inbox[q])
      BY <1>1, <1>2, <2>2
    <3>2. i + 1 \in 1..Len(inbox[q]) /\ Tail(inbox[q])[i] = inbox[q][i + 1]
      BY <1>1, <1>2, <2>2, <3>1, TailElement
    <3> QED BY <3>1, <3>2
  <2> QED BY <2>1, <2>2
<1>3. ASSUME inbox' = [inbox EXCEPT ![p] = <<>>]
      PROVE  \A q \in Processes : \A i \in 1..Len(inbox'[q]) :
               \E j \in 1..Len(inbox[q]) : inbox[q][j] = inbox'[q][i]
  BY <1>1, <1>3
<1>4. CASE HandlePrepare(p)
  <2> DEFINE d == Head(inbox[p]).deploy
  <2>1. /\ inbox[p] # <<>> /\ inbox[p][1].phase = "prepare" /\ d = inbox[p][1].deploy
        /\ 1 \in 1..Len(inbox[p]) /\ inbox[p][1] \in Messages
    BY <1>1, <1>4, ElementOfSeq DEF HandlePrepare, Takes
  <2>2. p \in receivers[d] /\ d \in Deploys
    BY <2>1 DEF AckInv, Messages
  <2>3. PICK sent \in {Message("prepare", d)} :
          answering' = answering \/ answering' = [answering EXCEPT ![p] = {sent}]
    BY <1>4 DEF HandlePrepare, Prepare
  <2>4. \A q \in Processes : \A m \in answering'[q] :
          m \in answering[q] \/ (q = p /\ m.deploy = d)
    <3>1. sent.deploy = d
      BY DEF Message
    <3> HIDE DEF d
    <3>2. ASSUME NEW q \in Processes, NEW m \in answering'[q], m \notin answering[q]
          PROVE  q = p /\ m = sent
      <4>1. answering' = [answering EXCEPT ![p] = {sent}]
        BY <2>3, <3>2
      <4> QED BY <1>0, <3>2, <4>1
    <3> QED BY <3>1, <3>2
  <2>5. UNCHANGED <<pc, receivers, prepared, pruned, committed, acks>>
        /\ inbox' = [inbox EXCEPT ![p] = Tail(@)]
    BY <1>4 DEF HandlePrepare, coordVars, Takes
  <2> HIDE DEF d
  <2>6. \A q \in Processes : \A m \in answering'[q] :
          m.phase = "prepare" => m \in answering[q] \/ q \in receivers[m.deploy]
    BY <2>2, <2>4
  <2>7. \A c \in Deploys : acks'[c]["prepare"] \subseteq receivers[c]
    BY <2>5 DEF AckInv
  <2> QED BY <1>2, <2>1, <2>5, <2>6, <2>7, AckKeep
<1>5. CASE HandleCommit(p)
  <2>1. /\ UNCHANGED <<pc, receivers, prepared, pruned, committed, acks>>
        /\ inbox' = [inbox EXCEPT ![p] = Tail(@)] /\ inbox[p] # <<>>
    BY <1>5 DEF HandleCommit, coordVars, Takes
  <2> DEFINE c == Head(inbox[p]).deploy
  <2>2. \/ answering' = answering
        \/ answering' = [answering EXCEPT ![p] = {Message("commit", c)}]
    BY <1>5 DEF HandleCommit, Swap
  <2> HIDE DEF c
  <2>3. \A q \in Processes : \A m \in answering'[q] :
          m.phase = "prepare" => m \in answering[q] \/ q \in receivers[m.deploy]
    BY <1>0, <2>2 DEF Message
  <2>4. \A e \in Deploys : acks'[e]["prepare"] \subseteq receivers[e]
    BY <2>1 DEF AckInv
  <2> QED BY <1>2, <2>1, <2>3, <2>4, AckKeep
<1>8. CASE Acknowledge(p)
  <2>1. /\ UNCHANGED <<pc, receivers, prepared, pruned, committed, inbox>>
        /\ answering' = [answering EXCEPT ![p] = {}]
    BY <1>8 DEF Acknowledge, coordVars
  <2>2. PICK m \in answering[p] :
          \/ acks' = [acks EXCEPT ![m.deploy][m.phase] = @ \cup {p}]
          \/ UNCHANGED acks
    BY <1>8 DEF Acknowledge
  <2>3. m \in Messages
    BY <1>0
  <2>4. ASSUME NEW e \in Deploys
        PROVE  acks'[e]["prepare"] \subseteq receivers[e]
    <3>1. CASE UNCHANGED acks
      BY <3>1 DEF AckInv
    <3>2. CASE acks' = [acks EXCEPT ![m.deploy][m.phase] = @ \cup {p}]
      <4>1. acks'[e] = IF e = m.deploy THEN [acks[e] EXCEPT ![m.phase] = @ \cup {p}] ELSE acks[e]
        BY <1>0, <2>3, <3>2
      <4>2. CASE e = m.deploy /\ m.phase = "prepare"
        <5>1. acks'[e]["prepare"] = acks[e]["prepare"] \cup {p}
          BY <1>0, <4>1, <4>2 DEF Phases
        <5>2. p \in receivers[e]
          BY <2>2, <4>2 DEF AckInv
        <5> QED BY <5>1, <5>2 DEF AckInv
      <4>3. CASE ~(e = m.deploy /\ m.phase = "prepare")
        <5>1. acks'[e]["prepare"] = acks[e]["prepare"]
          BY <1>0, <4>1, <4>3 DEF Phases
        <5> QED BY <5>1 DEF AckInv
      <4> QED BY <4>2, <4>3
    <3> QED BY <2>2, <3>1, <3>2
  <2>5. \A q \in Processes : \A n \in answering'[q] : n \in answering[q]
    BY <1>0, <2>1
  <2> QED BY <2>1, <2>4, <2>5, AckKeep
<1>6. CASE Disconnect(p) \/ Crash(p) \/ Stop(p) \/ RedisDrops(p)
  <2>1. /\ UNCHANGED <<pc, receivers, prepared, pruned, committed, acks>>
        /\ inbox' = [inbox EXCEPT ![p] = <<>>]
    BY <1>6 DEF Disconnect, Crash, Stop, RedisDrops, Gone, coordVars
  <2>2. answering' = answering \/ answering' = [answering EXCEPT ![p] = {}]
    BY <1>6 DEF Disconnect, Crash, Stop, RedisDrops, Gone, memberVars
  <2>3. \A q \in Processes : \A m \in answering'[q] : m \in answering[q]
    BY <1>0, <2>2
  <2> QED BY <1>3, <2>1, <2>3, AckKeep DEF AckInv
<1>7. CASE \/ Subscribe(p) \/ Join(p) \/ PassStep(p) \/ Reconnect(p) \/ ListenerDies(p)
           \/ SubscribeFails(p) \/ PassFail(p)
  <2>1. UNCHANGED <<pc, receivers, prepared, pruned, committed, acks, inbox, answering>>
    BY <1>7 DEF Subscribe, Join, PassStep, PassBegin, PassRead, EnsureSubscribe, EnsureJoin,
                PassApply, PassEnds, JoinRosters, Reconnect, ListenerDies, SubscribeFails,
                PassFail, coordVars, redisVars, memberVars
  <2> QED BY <2>1, AckKeep DEF AckInv
<1> QED BY <1>4, <1>5, <1>6, <1>7, <1>8 DEF ProcessStep, ListenerStep

LEMMA AckStep ==
  ASSUME TypeOK, AckInv, [Next]_vars
  PROVE  AckInv'
<1>1. CASE \E e \in Environments : CreateEnvironment(e)
  <2>1. UNCHANGED <<pc, receivers, prepared, pruned, committed, acks, inbox, answering>>
    BY <1>1 DEF CreateEnvironment, coordVars, redisVars, memberVars
  <2> QED BY <2>1, AckKeep DEF AckInv
<1>2. CASE UNCHANGED vars
  <2>1. UNCHANGED <<pc, receivers, prepared, pruned, committed, acks, inbox, answering>>
    BY <1>2 DEF vars, coordVars, redisVars, memberVars
  <2> QED BY <2>1, AckKeep DEF AckInv
<1> QED BY <1>1, <1>2, AckCoordinator, AckProcess DEF Next

\* The quorum of prepare_round (deployment_switch.py) is every receiver, and the report of
\* a switch accounts for each, for any number of processes.
THEOREM EveryReceiverCounts == Spec => []ReceiversAccountedFor
<1> DEFINE IInv == TypeOK /\ StampsBounded /\ AckInv
<1>1. Init => IInv
  BY TypeInit, AckInit
<1>2. IInv /\ [Next]_vars => IInv'
  BY TypeStep, StampsStep, AckStep
<1>3. IInv => ReceiversAccountedFor
  BY DEF AckInv
<1> QED BY <1>1, <1>2, <1>3, PTL DEF Spec

\* A process keeps prepared only what it was sent.
HeldInv ==
  \A p \in Processes : \A i \in 1..Len(pending[p]) : p \in receivers[pending[p][i]]

LEMMA HeldInit == Init => HeldInv
BY DEF Init, HeldInv

\* A step that prepares nothing and keeps the receivers keeps it.
LEMMA HeldKeep ==
  ASSUME TypeOK, HeldInv, UNCHANGED receivers,
         \A p \in Processes : \A i \in 1..Len(pending'[p]) :
           \E j \in 1..Len(pending[p]) : pending[p][j] = pending'[p][i]
  PROVE  HeldInv'
<1> SUFFICES ASSUME NEW p \in Processes, NEW i \in 1..Len(pending'[p])
             PROVE  p \in receivers'[pending'[p][i]]
  BY DEF HeldInv
<1>1. PICK j \in 1..Len(pending[p]) : pending[p][j] = pending'[p][i]
  OBVIOUS
<1> QED BY <1>1 DEF HeldInv

\* PREPARE is prepared by who was sent it; COMMIT and the bound only take away.
LEMMA HeldListener ==
  ASSUME TypeOK, AckInv, HeldInv, NEW p \in Processes,
         HandlePrepare(p) \/ HandleCommit(p)
  PROVE  HeldInv'
<1> DEFINE d == Head(inbox[p]).deploy
<1>1. /\ inbox[p] \in Seq(Messages) /\ pending \in [Processes -> Seq(Deploys)]
      /\ inbox[p] # <<>>
  BY DEF TypeOK, HandlePrepare, HandleCommit, Takes
<1>2. /\ 1 \in 1..Len(inbox[p]) /\ inbox[p][1] \in Messages /\ d = inbox[p][1].deploy
  BY <1>1, ElementOfSeq
<1>3. d \in Deploys /\ pending[p] \in Seq(Deploys)
  BY <1>1, <1>2 DEF Messages
<1>4. UNCHANGED receivers
  BY DEF HandlePrepare, HandleCommit, coordVars
<1>5. CASE pending' = pending
  BY <1>4, <1>5, HeldKeep
<1>6. CASE pending' = [pending EXCEPT ![p] = Without(@, d)]
  <2>1. \A q \in Processes : \A i \in 1..Len(pending'[q]) :
          \E j \in 1..Len(pending[q]) : pending[q][j] = pending'[q][i]
    <3> TAKE q \in Processes
    <3> TAKE i \in 1..Len(pending'[q])
    <3>1. CASE q # p
      BY <1>1, <1>6, <3>1
    <3>2. CASE q = p
      BY <1>1, <1>3, <1>6, <3>2, WithoutElement
    <3> QED BY <3>1, <3>2
  <2> QED BY <1>4, <2>1, HeldKeep
<1>7. CASE /\ HandlePrepare(p)
           /\ pending' = [pending EXCEPT ![p] = Bounded(Append(@, d))]
  <2>1. p \in receivers[d]
    BY <1>2, <1>7 DEF HandlePrepare, AckInv, Takes
  <2>2. ASSUME NEW q \in Processes, NEW i \in 1..Len(pending'[q])
        PROVE  q \in receivers[pending'[q][i]]
    <3>1. CASE q # p
      BY <1>1, <1>7, <3>1 DEF HeldInv
    <3>2. CASE q = p
      <4>1. pending'[p] = Bounded(Append(pending[p], d))
        BY <1>1, <1>7
      <4>2. \/ pending'[p][i] = d
            \/ \E j \in 1..Len(pending[p]) : pending[p][j] = pending'[p][i]
        BY <1>3, <3>2, <4>1, BoundedElement
      <4> QED BY <2>1, <3>2, <4>2 DEF HeldInv
    <3> QED BY <3>1, <3>2
  <2> QED BY <1>4, <2>2 DEF HeldInv
<1> QED BY <1>5, <1>6, <1>7 DEF HandlePrepare, HandleCommit, Prepare, Swap

LEMMA HeldStep ==
  ASSUME TypeOK, AckInv, HeldInv, [Next]_vars
  PROVE  HeldInv'
<1>1. ASSUME NEW p \in Processes, ProcessStep(p)
      PROVE  HeldInv'
  <2>1. CASE HandlePrepare(p) \/ HandleCommit(p)
    BY <2>1, HeldListener
  <2>2. CASE Crash(p) \/ Stop(p)
    <3>1. UNCHANGED receivers /\ pending' = [pending EXCEPT ![p] = <<>>]
      BY <2>2 DEF Crash, Stop, Gone, coordVars
    <3>2. \A q \in Processes : \A i \in 1..Len(pending'[q]) :
            \E j \in 1..Len(pending[q]) : pending[q][j] = pending'[q][i]
      BY <3>1 DEF TypeOK
    <3> QED BY <3>1, <3>2, HeldKeep
  <2>3. CASE ~HandlePrepare(p) /\ ~HandleCommit(p) /\ ~Crash(p) /\ ~Stop(p)
    <3>1. UNCHANGED <<receivers, pending>>
      BY <1>1, <2>3 DEF ProcessStep, ListenerStep, Acknowledge, Subscribe, Join, PassStep, PassBegin, PassRead,
           EnsureSubscribe, EnsureJoin, PassApply, Disconnect, Reconnect, ListenerDies,
           RedisDrops, PassFail, coordVars, memberVars, SubscribeFails
    <3> QED BY <3>1, HeldKeep
  <2> QED BY <2>1, <2>2, <2>3
<1>2. ASSUME NEW d \in Deploys, CoordinatorStep(d)
      PROVE  HeldInv'
  <2>1. UNCHANGED pending
    BY <1>2 DEF CoordinatorStep, Open, PublishPrepare, ShortPrepare, FinishPrepare, Prune,
                CommitRow, PublishCommit, FinishCommit, CoordinatorDies, memberVars
  <2>2. CASE UNCHANGED receivers
    BY <2>1, <2>2, HeldKeep
  <2>3. CASE PublishPrepare(d)
    <3>1. receivers[d] = {}
      BY <2>3 DEF PublishPrepare, AckInv
    <3>2. \A e \in Deploys : e # d => receivers'[e] = receivers[e]
      BY <2>3 DEF PublishPrepare, TypeOK
    <3>3. \A p \in Processes : \A i \in 1..Len(pending[p]) : pending[p][i] \in Deploys
      BY ElementOfSeq DEF TypeOK
    <3> QED BY <2>1, <3>1, <3>2, <3>3 DEF HeldInv
  <2> QED BY <1>2, <2>2, <2>3 DEF CoordinatorStep, Open, ShortPrepare, FinishPrepare, Prune,
                CommitRow, PublishCommit, FinishCommit, CoordinatorDies
<1>3. CASE \E e \in Environments : CreateEnvironment(e)
  <2>1. UNCHANGED <<receivers, pending>>
    BY <1>3 DEF CreateEnvironment, coordVars, memberVars
  <2> QED BY <2>1, HeldKeep
<1>4. CASE UNCHANGED vars
  <2>1. UNCHANGED <<receivers, pending>>
    BY <1>4 DEF vars, coordVars, memberVars
  <2> QED BY <2>1, HeldKeep
<1> QED BY <1>1, <1>2, <1>3, <1>4 DEF Next

\* A COMMIT that is being acknowledged was prepared by a process PREPARE was counted to, and the
\* process serves that Deployment or a newer one.
SwappedTo(p, d) ==
  /\ d \in rows /\ p \in receivers[d]
  /\ live[p][Key(d)] # None /\ stamp[d] <= stamp[live[p][Key(d)]]

AnswerInv ==
  \A p \in Processes : \A m \in answering[p] : m.phase = "commit" => SwappedTo(p, m.deploy)

\* A pass that comes between leaves the process on the same Deployment or a newer one.
LEMMA SwappedToPass ==
  ASSUME TypeOK, RecordInv, NEW p \in Processes, PassApply(p),
         NEW q \in Processes, NEW d \in Deploys, SwappedTo(q, d)
  PROVE  SwappedTo(q, d)'
<1>0. /\ live \in [Processes -> [Keys -> Entry]] /\ stamp \in [Deploys -> Nat]
      /\ rows \subseteq Deploys /\ Key(d) \in Keys
  BY DeployTargets DEF TypeOK, Key, Keys
<1>1. /\ UNCHANGED <<rows, receivers, stamp>> /\ PassHasRead(p)
      /\ live' = [live EXCEPT ![p] = [k \in Keys |-> Reconciled(p, k)]]
  BY DEF PassApply, PassHasRead, dbVars, coordVars
<1>k. Key(d)' = Key(d)
  BY DEF Key
<1>2. CASE live'[q][Key(d)] = live[q][Key(d)]
  BY <1>1, <1>2, <1>k DEF SwappedTo
<1>3. CASE live'[q][Key(d)] # live[q][Key(d)]
  <2> DEFINE k == Key(d)
             now == live[p][k]
             read == passRow[p][k[2]]
  <2>1. q = p
    BY <1>0, <1>1, <1>3
  <2>2. live'[p][k] = Reconciled(p, k)
    BY <1>0, <1>1
  <2>3. /\ read # None /\ k \notin touched[p] /\ live'[p][k] = read
    BY <1>3, <2>1, <2>2 DEF Reconciled
  <2>4. k \in Keys /\ k[2] \in Environments
    BY <1>0 DEF Keys
  <2>5. now # None /\ stamp[d] <= stamp[now]
    BY <2>1 DEF SwappedTo
  <2>6. stamp[now] <= stamp[read]
    BY <1>1, <2>3, <2>4, <2>5 DEF RecordInv, PassIsFresh
  <2>7. read \in rows /\ now \in rows
    BY <2>3, <2>4, <2>5 DEF RecordInv, PassHoldsRows, RecordFirst
  <2> HIDE DEF k, now, read
  <2>8. stamp[d] <= stamp[read]
    BY <1>0, <2>5, <2>6, <2>7
  <2> QED BY <1>1, <1>k, <2>1, <2>3, <2>8 DEF SwappedTo, k
<1> QED BY <1>2, <1>3

\* The swap itself.
LEMMA SwappedToSwap ==
  ASSUME TypeOK, RecordInv, HeldInv, NEW p \in Processes, NEW d \in Deploys, d \in rows,
         Holds(p, d), live' = [live EXCEPT ![p][Key(d)] = d],
         UNCHANGED <<rows, receivers, stamp>>
  PROVE  SwappedTo(p, d)'
<1>1. p \in receivers[d]
  BY DEF Holds, HeldInv
<1>2. live'[p][Key(d)] = d
  BY DeployTargets DEF TypeOK, Key, Keys
<1>3. stamp[d] <= stamp[d] /\ d # None
  BY SmallConstants DEF TypeOK
<1>k. Key(d)' = Key(d)
  BY DEF Key
<1> QED BY <1>1, <1>2, <1>3, <1>k DEF SwappedTo

\* A step of the same process's listener on another key keeps what an answer is about: there is
\* no other answer while one is awaited.
LEMMA AnswerProcess ==
  ASSUME TypeOK, RecordInv, HeldInv, AnswerInv, NEW p \in Processes, ProcessStep(p)
  PROVE  AnswerInv'
<1>0. /\ answering \in [Processes -> SUBSET Messages]
      /\ live \in [Processes -> [Keys -> Entry]]
      /\ \A m \in Messages : m.deploy \in Deploys
  BY DEF TypeOK, Messages
<1>1. UNCHANGED <<rows, receivers, stamp>>
  BY DEF ProcessStep, ListenerStep, PassStep, Subscribe, Join, HandlePrepare, HandleCommit,
         Acknowledge, Disconnect, Reconnect, ListenerDies, Crash, Stop, Gone, RedisDrops,
         PassBegin, PassRead, EnsureSubscribe, SubscribeFails, EnsureJoin, PassApply,
         PassFail, dbVars, coordVars
<1>k. \A d : Key(d)' = Key(d)
  BY DEF Key
<1>2. CASE UNCHANGED live /\ \A q \in Processes : \A m \in answering'[q] :
                                m.phase = "commit" => m \in answering[q]
  BY <1>1, <1>2, <1>k DEF AnswerInv, SwappedTo
<1>3. CASE HandlePrepare(p)
  <2> DEFINE d == Head(inbox[p]).deploy
             sent == Message("prepare", d)
  <2>1. UNCHANGED live /\ (answering' = answering \/ answering' = [answering EXCEPT ![p] = {sent}])
    BY <1>3 DEF HandlePrepare, Prepare
  <2>2. sent.phase = "prepare"
    BY DEF Message
  <2> HIDE DEF sent
  <2>3. \A q \in Processes : \A m \in answering'[q] : m.phase = "commit" => m \in answering[q]
    BY <1>0, <2>1, <2>2
  <2> QED BY <1>2, <2>1, <2>3
<1>4. CASE HandleCommit(p)
  <2>0. PICK d : d = Head(inbox[p]).deploy
    OBVIOUS
  <2>s. PICK sent : sent = Message("commit", d)
    OBVIOUS
  <2>1. /\ inbox[p] \in Seq(Messages) /\ inbox[p] # <<>> /\ answering[p] = {}
        /\ Head(inbox[p]).phase = "commit" /\ Swap(p, d)
    BY <1>4, <2>0 DEF TypeOK, HandleCommit, Takes
  <2>2. inbox[p][1] \in Messages /\ d = inbox[p][1].deploy /\ 1 \in 1..Len(inbox[p])
    BY <2>0, <2>1, ElementOfSeq
  <2>3. d \in Deploys /\ d \in rows
    BY <2>1, <2>2 DEF Messages, RecordInv, RecordFirst
  <2>5. CASE UNCHANGED <<live, answering>>
    BY <1>2, <2>5
  <2>6. CASE /\ Holds(p, d) /\ live' = [live EXCEPT ![p][Key(d)] = d]
             /\ answering' = [answering EXCEPT ![p] = {sent}]
    <3>1. SwappedTo(p, d)'
      BY <1>1, <2>3, <2>6, SwappedToSwap
    <3>2. answering'[p] = {sent}
      BY <1>0, <2>6
    <3>3. \A q \in Processes \ {p} : answering'[q] = answering[q] /\ live'[q] = live[q]
      BY <1>0, <2>6
    <3>4. ASSUME NEW q \in Processes \ {p}, NEW m \in answering'[q], m.phase = "commit"
          PROVE  SwappedTo(q, m.deploy)'
      BY <1>1, <1>k, <3>3, <3>4 DEF AnswerInv, SwappedTo
    <3>5. sent.deploy = d
      BY <2>s DEF Message
    <3> QED BY <3>1, <3>2, <3>4, <3>5 DEF AnswerInv
  <2> QED BY <2>1, <2>s, <2>5, <2>6 DEF Swap
<1>5. CASE PassApply(p)
  <2>1. answering' = answering
    BY <1>5 DEF PassApply
  <2>2. ASSUME NEW q \in Processes, NEW m \in answering[q], m.phase = "commit"
        PROVE  SwappedTo(q, m.deploy)'
    <3>1. m.deploy \in Deploys /\ SwappedTo(q, m.deploy)
      BY <1>0, <2>2 DEF AnswerInv
    <3> QED BY <1>5, <3>1, SwappedToPass
  <2> QED BY <2>1, <2>2 DEF AnswerInv
<1>6. CASE Crash(p) \/ Stop(p)
  <2>1. /\ answering' = [answering EXCEPT ![p] = {}]
        /\ live' = [live EXCEPT ![p] = [k \in Keys |-> None]]
    BY <1>6 DEF Crash, Stop, Gone
  <2>2. answering'[p] = {}
    BY <1>0, <2>1
  <2>3. \A q \in Processes \ {p} : answering'[q] = answering[q] /\ live'[q] = live[q]
    BY <1>0, <2>1
  <2> QED BY <1>1, <1>k, <2>2, <2>3 DEF AnswerInv, SwappedTo
<1>7. CASE Acknowledge(p)
  <2>1. UNCHANGED live /\ answering' = [answering EXCEPT ![p] = {}]
    BY <1>7 DEF Acknowledge
  <2>2. \A q \in Processes : \A m \in answering'[q] : m \in answering[q]
    BY <1>0, <2>1
  <2> QED BY <1>2, <2>1, <2>2
<1>8. CASE ~(ListenerStep(p) \/ PassApply(p) \/ Crash(p) \/ Stop(p))
  <2>1. UNCHANGED <<live, answering>>
    BY <1>8 DEF ProcessStep, PassStep, Subscribe, Join, Disconnect, Reconnect, ListenerDies,
                RedisDrops, PassBegin, PassRead, EnsureSubscribe, SubscribeFails, EnsureJoin,
                PassFail, memberVars
  <2> QED BY <1>2, <2>1
<1> QED BY <1>3, <1>4, <1>5, <1>6, <1>7, <1>8 DEF ListenerStep

\* Every step keeps it: a coordinator adds rows, counts receivers once, and stamps only what
\* has no row yet.
LEMMA AnswerStep ==
  ASSUME TypeOK, RecordInv, AckInv, HeldInv, AnswerInv, [Next]_vars
  PROVE  AnswerInv'
<1>k. \A d : Key(d)' = Key(d)
  BY DEF Key
<1>1. CASE \E p \in Processes : ProcessStep(p)
  BY <1>1, AnswerProcess
<1>2. CASE UNCHANGED <<live, answering, rows, receivers, stamp>>
  BY <1>2, <1>k DEF AnswerInv, SwappedTo
<1>3. ASSUME NEW d \in Deploys, CoordinatorStep(d)
      PROVE  AnswerInv'
  <2>0. /\ pc \in [Deploys -> Coordinator] /\ rows \subseteq Deploys
        /\ receivers \in [Deploys -> SUBSET Processes] /\ stamp \in [Deploys -> Nat]
    BY DEF TypeOK
  <2>1. UNCHANGED <<live, answering>> /\ rows \subseteq rows'
    BY <1>3 DEF CoordinatorStep, Open, PublishPrepare, ShortPrepare, FinishPrepare, Prune,
                CommitRow, PublishCommit, FinishCommit, CoordinatorDies, memberVars, dbVars
  <2>2. \A c \in rows : stamp'[c] = stamp[c]
    <3>1. CASE Open(d)
      BY <2>0, <3>1 DEF Open, RecordInv, RowsAreRecorded, Recorded
    <3>2. CASE ~Open(d)
      BY <1>3, <3>2 DEF CoordinatorStep, PublishPrepare, ShortPrepare, FinishPrepare, Prune,
                CommitRow, PublishCommit, FinishCommit, CoordinatorDies, dbVars
    <3> QED BY <3>1, <3>2
  <2>3. \A c \in rows : receivers'[c] = receivers[c]
    <3>1. CASE PublishPrepare(d)
      BY <2>0, <3>1 DEF PublishPrepare, RecordInv, RowsAreRecorded, Recorded
    <3>2. CASE ~PublishPrepare(d)
      BY <1>3, <3>2 DEF CoordinatorStep, Open, ShortPrepare, FinishPrepare, Prune,
                CommitRow, PublishCommit, FinishCommit, CoordinatorDies
    <3> QED BY <3>1, <3>2
  <2>4. ASSUME NEW p \in Processes, NEW c, SwappedTo(p, c)
        PROVE  SwappedTo(p, c)'
    <3>1. c \in rows /\ live[p][Key(c)] # None
      BY <2>4 DEF SwappedTo
    <3>2. Key(c) \in Keys
      BY <2>0, <3>1, DeployTargets DEF Key, Keys
    <3>3. live[p][Key(c)] \in rows
      BY <3>1, <3>2 DEF RecordInv, RecordFirst
    <3> QED BY <1>k, <2>1, <2>2, <2>3, <2>4, <3>1, <3>3 DEF SwappedTo
  <2> QED BY <2>1, <2>4 DEF AnswerInv
<1>4. CASE \E e \in Environments : CreateEnvironment(e)
  BY <1>2, <1>4 DEF CreateEnvironment, coordVars, memberVars
<1>5. CASE UNCHANGED vars
  BY <1>2, <1>5 DEF vars, dbVars, coordVars, memberVars
<1> QED BY <1>1, <1>3, <1>4, <1>5 DEF Next

\* A COMMIT is acknowledged only by a process PREPARE was counted to, and when it acknowledges,
\* it serves that Deployment or a newer one that a pass has put there since the swap
\* (SwitchMember, "acknowledge only what it did").
THEOREM EveryAcknowledgedSwapHappened == Spec => AcknowledgedSwapHappened
<1> DEFINE IInv == TypeOK /\ StampsBounded /\ RecordInv /\ AckInv /\ HeldInv /\ AnswerInv
<1> DEFINE Honest == \A d \in Deploys : \A p \in acks'[d]["commit"] \ acks[d]["commit"] :
                       /\ p \in receivers[d] /\ live[p][Key(d)] # None
                       /\ stamp[d] <= stamp[live[p][Key(d)]]
<1>1. Init => IInv
  BY TypeInit, RecordInit, AckInit, HeldInit DEF Init, AnswerInv
<1>2. IInv /\ [Next]_vars => IInv'
  BY TypeStep, StampsStep, RecordStep, AckStep, HeldStep, AnswerStep
<1>3. IInv /\ [Next]_vars => [Honest]_vars
  <2> SUFFICES ASSUME IInv, Next
               PROVE  Honest
    OBVIOUS
  <2>1. ASSUME NEW p \in Processes, Acknowledge(p)
        PROVE  Honest
    <3>1. PICK m \in answering[p] :
            \/ acks' = [acks EXCEPT ![m.deploy][m.phase] = @ \cup {p}]
            \/ UNCHANGED acks
      BY <2>1 DEF Acknowledge
    <3>2. /\ m.deploy \in Deploys /\ m.phase \in Phases
          /\ acks \in [Deploys -> [Phases -> SUBSET Processes]]
      BY DEF TypeOK, Messages
    <3>3. m.phase = "commit" => SwappedTo(p, m.deploy)
      BY DEF AnswerInv
    <3>4. ASSUME NEW d \in Deploys, NEW q \in acks'[d]["commit"] \ acks[d]["commit"]
          PROVE  q = p /\ d = m.deploy /\ m.phase = "commit"
      <4>1. acks' = [acks EXCEPT ![m.deploy][m.phase] = @ \cup {p}]
        BY <3>1, <3>4
      <4>2. acks'[d] = IF d = m.deploy THEN [acks[d] EXCEPT ![m.phase] = @ \cup {p}] ELSE acks[d]
        BY <3>2, <4>1
      <4>3. acks[d] \in [Phases -> SUBSET Processes] /\ "commit" \in Phases
        BY <3>2 DEF Phases
      <4> QED BY <3>2, <3>4, <4>2, <4>3
    <3> QED BY <3>3, <3>4 DEF SwappedTo
  <2>2. CASE \A p \in Processes : ~Acknowledge(p)
    <3>1. UNCHANGED acks
      BY <2>2 DEF Next, ProcessStep, ListenerStep, HandlePrepare, HandleCommit, CoordinatorStep,
           Subscribe, Join, PassStep, PassBegin, PassRead, EnsureSubscribe, SubscribeFails,
           EnsureJoin, PassApply, Disconnect, Reconnect, ListenerDies, Crash, Stop, Gone,
           RedisDrops, PassFail, CreateEnvironment, Open, PublishPrepare, ShortPrepare,
           FinishPrepare, Prune, CommitRow, PublishCommit, FinishCommit, CoordinatorDies,
           redisVars
    <3> QED BY <3>1
  <2> QED BY <2>1, <2>2
<1> QED BY <1>1, <1>2, <1>3, PTL DEF Spec, AcknowledgedSwapHappened

-----------------------------------------------------------------------------
(* The windows of two claims that the code breaks: outside them they hold. *)

\* No two deploys of one workspace into one Environment are in their transactions at once.
OneDeployAtATime ==
  \A c, d \in Deploys :
    pc[c] \in InTransaction /\ pc[d] \in InTransaction /\ Key(c) = Key(d) => c = d

\* Then what a transaction read as the live Deployment is so until it commits.
HasReadBefore(d) == pc[d] \in {"waiting", "pruning", "prepared"}
BeforeInv == \A d \in Deploys : HasReadBefore(d) => before[d] = Newest(RowsOf(Key(d)))

\* The newest of a set of rows depends on their own stamps only.
LEMMA SameStampsSameChoice ==
  ASSUME NEW S, NEW f, NEW g, \A d \in S : f[d] = g[d]
  PROVE  (CHOOSE d \in S : \A other \in S : f[other] <= f[d])
         = (CHOOSE d \in S : \A other \in S : g[other] <= g[d])
<1>1. \A d : (d \in S /\ \A other \in S : f[other] <= f[d])
             <=> (d \in S /\ \A other \in S : g[other] <= g[d])
  OBVIOUS
<1> QED BY <1>1, Zenon

\* So it stays the same when no row and no stamp of a row changes.
LEMMA NewestOfSame ==
  ASSUME NEW k, rows' = rows, \A c \in rows : stamp'[c] = stamp[c]
  PROVE  Newest(RowsOf(k))' = Newest(RowsOf(k))
<1>1. RowsOf(k)' = RowsOf(k) /\ \A c \in RowsOf(k) : stamp'[c] = stamp[c]
  BY DEF RowsOf, Key
<1>2. (CHOOSE d \in RowsOf(k) : \A other \in RowsOf(k) : stamp'[other] <= stamp'[d])
      = (CHOOSE d \in RowsOf(k) : \A other \in RowsOf(k) : stamp[other] <= stamp[d])
  BY <1>1, SameStampsSameChoice
<1> DEFINE after == RowsOf(k)'
<1>3. Newest(RowsOf(k))' = IF after = {} THEN None
                           ELSE CHOOSE d \in after : \A other \in after : stamp'[other] <= stamp'[d]
  BY DEF Newest
<1>4. after = RowsOf(k)
  BY <1>1
<1>5. Newest(RowsOf(k))' = IF RowsOf(k) = {} THEN None
                           ELSE CHOOSE d \in RowsOf(k) :
                                  \A other \in RowsOf(k) : stamp'[other] <= stamp'[d]
  <2> HIDE DEF after
  <2> QED BY <1>3, <1>4
<1>6. Newest(RowsOf(k)) = IF RowsOf(k) = {} THEN None
                          ELSE CHOOSE d \in RowsOf(k) :
                                 \A other \in RowsOf(k) : stamp[other] <= stamp[d]
  BY DEF Newest
<1> QED BY <1>2, <1>5, <1>6

\* Every step keeps what the transactions have read, while they are one at a time.
LEMMA BeforeStep ==
  ASSUME TypeOK, RecordInv, OneDeployAtATime, BeforeInv, [Next]_vars
  PROVE  BeforeInv'
<1> SUFFICES ASSUME NEW c \in Deploys, HasReadBefore(c)'
             PROVE  (before[c] = Newest(RowsOf(Key(c))))'
  BY DEF BeforeInv
<1>k. Key(c)' = Key(c)
  BY DEF Key
<1>1. ASSUME rows' = rows, stamp' = stamp, before'[c] = before[c], HasReadBefore(c)
      PROVE  (before[c] = Newest(RowsOf(Key(c))))'
  BY <1>1, <1>k, NewestOfSame DEF BeforeInv
<1>2. ASSUME NEW d \in Deploys, CoordinatorStep(d) PROVE (before[c] = Newest(RowsOf(Key(c))))'
  <2> USE DEF TypeOK, dbVars, HasReadBefore
  <2>1. CASE Open(d)
    <3>1. c # d /\ before'[c] = before[c] /\ HasReadBefore(c) /\ rows' = rows
      BY <2>1 DEF Open
    <3>2. \A r \in rows : stamp'[r] = stamp[r]
      BY <2>1 DEF Open, RecordInv, RowsAreRecorded, Recorded
    <3> QED BY <1>k, <3>1, <3>2, NewestOfSame DEF BeforeInv
  <2>2. CASE PublishPrepare(d)
    <3>1. rows' = rows /\ stamp' = stamp
      BY <2>2 DEF PublishPrepare
    <3>2. CASE c = d
      <4>1. before'[c] = Newest(RowsOf(Key(c)))
        BY <2>2, <3>2 DEF PublishPrepare
      <4> QED BY <1>k, <3>1, <4>1, NewestOfSame
    <3>3. CASE c # d
      BY <1>1, <2>2, <3>1, <3>3 DEF PublishPrepare
    <3> QED BY <3>2, <3>3
  <2>3. CASE CommitRow(d)
    <3>1. c # d /\ before'[c] = before[c] /\ HasReadBefore(c) /\ stamp' = stamp
      BY <2>3 DEF CommitRow
    <3>2. Key(c) # Key(d)
      BY <2>3, <3>1 DEF CommitRow, OneDeployAtATime, InTransaction
    <3>3. RowsOf(Key(c))' = RowsOf(Key(c))
      BY <2>3, <3>2 DEF CommitRow, RowsOf, Key
    <3> HIDE DEF HasReadBefore
    <3>4. Newest(RowsOf(Key(c)))' = Newest(RowsOf(Key(c)))
      BY <3>1, <3>3 DEF Newest
    <3> QED BY <3>1, <3>4 DEF BeforeInv
  <2>4. CASE FinishPrepare(d) \/ Prune(d) \/ ShortPrepare(d) \/ PublishCommit(d)
             \/ FinishCommit(d) \/ CoordinatorDies(d)
    <3>1. rows' = rows /\ stamp' = stamp /\ before'[c] = before[c] /\ HasReadBefore(c)
      BY <2>4 DEF FinishPrepare, Prune, ShortPrepare, PublishCommit, FinishCommit,
                  CoordinatorDies, InTransaction
    <3> QED BY <1>1, <3>1
  <2> QED BY <1>2, <2>1, <2>2, <2>3, <2>4 DEF CoordinatorStep
<1>3. CASE UNCHANGED <<rows, stamp, before, pc>>
  BY <1>1, <1>3 DEF HasReadBefore
<1>4. (\E d \in Deploys : CoordinatorStep(d)) \/ UNCHANGED <<rows, stamp, before, pc>>
  BY DEF Next, vars, dbVars, coordVars, ProcessStep, ListenerStep, PassStep,
         CreateEnvironment, Subscribe, Join, HandlePrepare,
         HandleCommit, Disconnect, Reconnect, ListenerDies, Crash, Stop, Gone, RedisDrops,
         PassBegin, PassRead, EnsureSubscribe, EnsureJoin, PassApply, PassFail, Takes,
         Acknowledge, SubscribeFails
<1> QED BY <1>2, <1>3, <1>4

\* deployment.created's `before` is the Deployment that this one replaced, as long as no two
\* deploys of one workspace into one Environment are in flight together: deployments.py locks
\* nothing between the read and the insert.
THEOREM SerialBeforeIsPrevious == Spec /\ []OneDeployAtATime => BeforeIsPrevious
<1> DEFINE IInv == TypeOK /\ StampsBounded /\ RecordInv
           Told == \A d \in Deploys : CommitRow(d) => before[d] = Newest(RowsOf(Key(d)))
<1>1. Init => IInv /\ BeforeInv
  BY TypeInit, RecordInit DEF Init, BeforeInv, HasReadBefore
<1>2. IInv /\ [Next]_vars => IInv'
  BY TypeStep, StampsStep, RecordStep
<1>3. IInv /\ OneDeployAtATime /\ BeforeInv /\ [Next]_vars => BeforeInv'
  BY BeforeStep
<1>4. BeforeInv => Told
  BY DEF BeforeInv, HasReadBefore, CommitRow
<1>5. BeforeInv => [Told]_vars
  BY <1>4
<1>6. BeforeIsPrevious <=> [][Told]_vars
  BY DEF BeforeIsPrevious
<1> HIDE DEF IInv, Told
<1> QED BY <1>1, <1>2, <1>3, <1>5, <1>6, PTL DEF Spec

\* PREPARE was counted to every running process that is on the roster: none joined, and none
\* had lost its connection, while the round waits.
RosterIsCounted ==
  \A d \in Deploys : \A p \in roster[EnvironmentOf[d]] :
    pc[d] = "waiting" /\ Alive(p) => p \in receivers[d]

\* What is on a roster has started, and what is pruned then is gone for good.
GhostInv ==
  /\ \A p \in Processes : passPhase[p] # "idle" => status[p] \in {"joined", "up"}
  /\ \A e \in Environments : \A p \in roster[e] : status[p] # "new"
  /\ \A d \in Deploys : \A p \in pruned[d] : pc[d] \in {"pruning", "prepared"} => status[p] = "gone"

\* A round that all its receivers acknowledged prunes only what is not running.
LEMMA GhostCoordinator ==
  ASSUME TypeOK, AckInv, RosterIsCounted, GhostInv, NEW d \in Deploys, CoordinatorStep(d)
  PROVE  GhostInv'
<1> USE DEF redisVars, passVars, memberVars
<1>0. /\ roster \in [Environments -> SUBSET Processes]
      /\ status \in [Processes -> {"new", "subscribed", "joined", "up", "gone"}]
      /\ passPhase \in [Processes -> {"idle", "begun", "read", "joining", "ensured"}]
      /\ pc \in [Deploys -> Coordinator] /\ pruned \in [Deploys -> SUBSET Processes]
  BY DEF TypeOK
<1>1. CASE FinishPrepare(d)
  <2>1. UNCHANGED <<roster, status, passPhase>>
    BY <1>1 DEF FinishPrepare
  <2>2. acks[d]["prepare"] = receivers[d]
    BY <1>1, AllAcknowledged DEF FinishPrepare
  <2>3. pc[d] = "waiting" /\ pruned'[d] = roster[EnvironmentOf[d]] \ receivers[d]
    BY <1>0, <1>1, <2>2 DEF FinishPrepare
  <2>4. EnvironmentOf[d] \in Environments
    BY DeployTargets
  <2>5. ASSUME NEW p \in pruned'[d] PROVE status[p] = "gone"
    <3>1. p \in Processes /\ p \in roster[EnvironmentOf[d]] /\ ~Alive(p)
      BY <1>0, <2>3, <2>4, <2>5 DEF RosterIsCounted
    <3> QED BY <1>0, <2>4, <3>1 DEF Alive, GhostInv
  <2>6. \A c \in Deploys \ {d} : pruned'[c] = pruned[c] /\ pc'[c] = pc[c]
    BY <1>0, <1>1 DEF FinishPrepare
  <2> QED BY <2>1, <2>5, <2>6 DEF GhostInv
<1>2. CASE Prune(d)
  <2>1. \A e \in Environments : roster'[e] \subseteq roster[e]
    BY <1>0, <1>2 DEF Prune
  <2>2. UNCHANGED <<status, passPhase, pruned>>
    BY <1>2 DEF Prune
  <2>3. \A c \in Deploys : pc'[c] \in {"pruning", "prepared"} => pc[c] \in {"pruning", "prepared"}
    BY <1>0, <1>2 DEF Prune
  <2> QED BY <2>1, <2>2, <2>3 DEF GhostInv
<1>3. CASE ~(FinishPrepare(d) \/ Prune(d))
  <2>1. UNCHANGED <<roster, status, passPhase, pruned>>
    BY <1>3 DEF CoordinatorStep, Open, PublishPrepare, ShortPrepare, CommitRow, PublishCommit,
                FinishCommit, CoordinatorDies
  <2>2. \A c \in Deploys : pc'[c] \in {"pruning", "prepared"} => pc[c] \in {"pruning", "prepared"}
    BY <1>0, <1>3 DEF CoordinatorStep, Open, PublishPrepare, ShortPrepare, CommitRow, PublishCommit,
                FinishCommit, CoordinatorDies
  <2> QED BY <2>1, <2>2 DEF GhostInv
<1> QED BY <1>1, <1>2, <1>3

\* No process starts twice, and only a started one joins a roster.
LEMMA GhostProcess ==
  ASSUME TypeOK, GhostInv, NEW p \in Processes, ProcessStep(p)
  PROVE  GhostInv'
<1> USE DEF coordVars, redisVars, passVars, memberVars
<1>0. /\ roster \in [Environments -> SUBSET Processes]
      /\ status \in [Processes -> {"new", "subscribed", "joined", "up", "gone"}]
      /\ passPhase \in [Processes -> {"idle", "begun", "read", "joining", "ensured"}]
      /\ pc \in [Deploys -> Coordinator] /\ pruned \in [Deploys -> SUBSET Processes]
  BY DEF TypeOK
<1>1. pc' = pc /\ pruned' = pruned
  BY DEF ProcessStep, ListenerStep, PassStep, Subscribe, Join, HandlePrepare,
         HandleCommit, Disconnect, Reconnect, ListenerDies, Crash, Stop, Gone, RedisDrops,
         PassBegin, PassRead, EnsureSubscribe, EnsureJoin, PassApply, PassFail, Takes,
         Acknowledge, SubscribeFails
<1>2. /\ status[p] = "gone" => status'[p] = "gone"
      /\ status[p] # "new" => status'[p] # "new"
      /\ passPhase'[p] # "idle" => status'[p] \in {"joined", "up"}
      /\ \A q \in Processes \ {p} : status'[q] = status[q]
      /\ \A q \in Processes \ {p} : passPhase'[q] = passPhase[q]
  <2>1. CASE Subscribe(p) \/ Join(p)
    BY <1>0, <2>1 DEF Subscribe, Join, GhostInv
  <2>2. CASE Crash(p) \/ Stop(p)
    BY <1>0, <2>2 DEF Crash, Stop, Gone, PassEnds
  <2>3. CASE PassStep(p) \/ SubscribeFails(p) \/ PassFail(p)
    BY <1>0, <2>3 DEF PassStep, PassBegin, PassRead, EnsureSubscribe, EnsureJoin, PassApply, PassFail,
       PassEnds, GhostInv, SubscribeFails
  <2>4. CASE UNCHANGED <<status, passPhase>>
    BY <1>0, <2>4 DEF GhostInv
  <2>5. \/ Subscribe(p) \/ Join(p) \/ Crash(p) \/ Stop(p) \/ PassStep(p) \/ SubscribeFails(p)
        \/ PassFail(p) \/ UNCHANGED <<status, passPhase>>
    BY DEF ProcessStep, ListenerStep, HandlePrepare, HandleCommit, Disconnect, Reconnect,
       ListenerDies, RedisDrops, Takes, Acknowledge
  <2> QED BY <2>1, <2>2, <2>3, <2>4, <2>5
<1>3. \A e \in Environments : \A q \in roster'[e] : q \in roster[e] \/ (q = p /\ status'[p] # "new")
  <2>1. CASE Join(p)
    <3>1. status'[p] # "new"
      BY <1>0, <2>1 DEF Join
    <3> QED BY <1>0, <2>1, <3>1 DEF Join, JoinRosters
  <2>2. CASE EnsureJoin(p)
    <3>1. status'[p] # "new"
      BY <1>0, <1>2, <2>2 DEF EnsureJoin
    <3> QED BY <1>0, <2>2, <3>1 DEF EnsureJoin, JoinRosters
  <2>3. CASE Stop(p)
    BY <1>0, <2>3 DEF Stop
  <2>4. CASE UNCHANGED roster
    BY <2>4
  <2>5. Join(p) \/ EnsureJoin(p) \/ Stop(p) \/ UNCHANGED roster
    BY DEF ProcessStep, ListenerStep, PassStep, Subscribe, HandlePrepare,
           HandleCommit, Disconnect, Reconnect, ListenerDies, Crash, RedisDrops,
           PassBegin, PassRead, EnsureSubscribe, PassApply, PassFail, Takes,
           Acknowledge, SubscribeFails
  <2> QED BY <2>1, <2>2, <2>3, <2>4, <2>5
<1>4. \A q \in Processes : passPhase'[q] # "idle" => status'[q] \in {"joined", "up"}
  <2> TAKE q \in Processes
  <2>1. CASE q = p
    BY <1>2, <2>1
  <2>2. CASE q # p
    <3>1. status'[q] = status[q] /\ passPhase'[q] = passPhase[q]
      BY <1>2, <2>2
    <3>2. passPhase[q] # "idle" => status[q] \in {"joined", "up"}
      BY DEF GhostInv
    <3> QED BY <3>1, <3>2
  <2> QED BY <2>1, <2>2
<1>5. \A e \in Environments : \A q \in roster'[e] : status'[q] # "new"
  BY <1>0, <1>2, <1>3 DEF GhostInv
<1>6. \A d \in Deploys : \A q \in pruned[d] : q \in Processes
  BY <1>0
<1> QED BY <1>1, <1>2, <1>4, <1>5, <1>6 DEF GhostInv

\* A pruned roster name is the ghost of a process that is gone, as long as PREPARE was counted
\* to every running process on the roster: prepare_round reads the roster after it published.
THEOREM CountedRosterPrunesGhosts == Spec /\ []RosterIsCounted => []PrunedOnlyGhosts
<1> DEFINE IInv == TypeOK /\ StampsBounded /\ AckInv
<1>1. Init => IInv /\ GhostInv
  BY TypeInit, AckInit DEF Init, GhostInv
<1>2. IInv /\ [Next]_vars => IInv'
  BY TypeStep, StampsStep, AckStep
<1>3. IInv /\ RosterIsCounted /\ GhostInv /\ [Next]_vars => GhostInv'
  <2> SUFFICES ASSUME IInv, RosterIsCounted, GhostInv, [Next]_vars PROVE GhostInv'
    OBVIOUS
  <2>1. CASE \E e \in Environments : CreateEnvironment(e)
    BY <2>1 DEF CreateEnvironment, coordVars, redisVars, passVars, memberVars, GhostInv
  <2>2. CASE UNCHANGED vars
    BY <2>2 DEF vars, coordVars, redisVars, passVars, memberVars, GhostInv
  <2> QED BY <2>1, <2>2, GhostCoordinator, GhostProcess DEF Next
<1>4. GhostInv => PrunedOnlyGhosts
  BY DEF GhostInv, PrunedOnlyGhosts, Alive
<1> HIDE DEF IInv
<1> QED BY <1>1, <1>2, <1>3, <1>4, PTL DEF Spec
=============================================================================
