-------------------------- MODULE DeploymentSwitch --------------------------
(***************************************************************************)
(* The two-phase deployment switch and the per-process `live` reference    *)
(* (backend/src/app/platform/deployment_switch.py, with the callers of     *)
(* platform/deployments.py and the start-up of main.py).                   *)
(*                                                                         *)
(* A deploy is a coordinator.  Inside one database transaction it runs     *)
(* PREPARE over Redis pub/sub; it commits the Deployment row; after the    *)
(* commit it runs COMMIT, and it records who swapped in                    *)
(* `deployment.switched`.  Every API process is a member: a listener that  *)
(* handles the messages in order, and a reconciler whose passes reload the *)
(* latest committed Deployment from the database.                          *)
(***************************************************************************)
EXTENDS Naturals, Sequences, SequencesExt, FiniteSets

CONSTANTS
  Processes,           \* process incarnations: a restarted process is a new name
  Deploys,             \* deploy and rollback operations, each one Deployment id
  Workspaces,
  Environments,        \* Environment slugs
  InitialEnvironments, \* the ones that exist before any process starts
  WorkspaceOf,         \* the workspace each operation runs in
  EnvironmentOf,       \* the Environment each operation targets
  PendingBound,        \* SwitchMember._PENDING_BOUND
  Faults,              \* which faults may happen: all of them, or a bound on a run
  None

ASSUME DeployTargets ==
  /\ WorkspaceOf \in [Deploys -> Workspaces]
  /\ EnvironmentOf \in [Deploys -> Environments]

ASSUME SmallConstants ==
  /\ InitialEnvironments \subseteq Environments
  /\ PendingBound \in Nat \ {0}
  /\ None \notin Deploys

ASSUME FiniteActors == IsFiniteSet(Processes) /\ IsFiniteSet(Deploys)

VARIABLES
  \* the database
  envs,       \* unretired Environments
  rows,       \* committed Deployment rows
  stamp,      \* deployed_at, PostgreSQL's now(): when the transaction began
  clock,
  \* the coordinators
  pc,
  receivers,  \* who was counted by PUBLISH of PREPARE
  prepared,   \* PrepareOutcome.prepared
  pruned,     \* PrepareOutcome.pruned_stale
  committed,  \* CommitOutcome.committed
  before,     \* the `before` of the deployment.created event
  \* Redis
  subscribed, \* the channels each process's connection is subscribed to
  inbox,      \* messages sent to a process and not yet handled
  roster,
  acks,
  \* the processes
  status,
  listener,
  serves,     \* SwitchSubscription._transports
  channels,   \* PubSub.channels, redis-py's own, which it subscribes to when it reconnects
  pending,    \* SwitchMember._pending, oldest first
  live,       \* LiveRefs._live
  answering,  \* the message that was handled and is yet to be acknowledged, or none
  passPhase,  \* where the process's reconcile pass is
  passEnvs,   \* LatestState.environments of that pass
  passRow,    \* LatestState.deployments of that pass
  touched     \* keys of `live` written since the pass took its snapshot of _writes

dbVars == <<envs, rows, stamp, clock>>
coordVars == <<pc, receivers, prepared, pruned, committed, before>>
redisVars == <<subscribed, inbox, roster, acks>>
passVars == <<passPhase, passEnvs, passRow, touched>>
memberVars == <<status, listener, serves, channels, pending, live, answering>>
vars == <<dbVars, coordVars, redisVars, passVars, memberVars>>

-----------------------------------------------------------------------------
Keys == Workspaces \X Environments
Key(d) == <<WorkspaceOf[d], EnvironmentOf[d]>>
Phases == {"prepare", "commit"}
Messages == [phase: Phases, deploy: Deploys]
Message(ph, d) == [phase |-> ph, deploy |-> d]
Entry == Deploys \cup {None}

\* Coordinator states.  Up to "prepared" the transaction is open.
InTransaction == {"open", "waiting", "pruning", "prepared"}
Recorded == {"committed", "swapping", "done", "lost"}
Coordinator == {"idle", "refused"} \cup InTransaction \cup Recorded

\* The newest of a set of rows: ORDER BY deployed_at DESC, id DESC LIMIT 1.
\* Two transactions never begin at the same instant here, so the id never decides.
Newest(S) ==
  IF S = {} THEN None
  ELSE CHOOSE d \in S : \A other \in S : stamp[other] <= stamp[d]

RowsOf(k) == {d \in rows : Key(d) = k}
RowsIn(e) == {d \in rows : EnvironmentOf[d] = e}

\* What _latest_deployments returns: DISTINCT ON (environment_id), so one row per
\* Environment whatever its workspace.
LatestDeployments_OldestFirst ==
  [e \in Environments |->
     IF RowsIn(e) = {} THEN None
     ELSE CHOOSE d \in RowsIn(e) : \A other \in RowsIn(e) : stamp[d] <= stamp[other]]

LatestDeployments == [e \in Environments |-> Newest(RowsIn(e))]

Alive(p) == status[p] \in {"subscribed", "joined", "up"}

TypeOK ==
  /\ envs \subseteq Environments
  /\ rows \subseteq Deploys
  /\ stamp \in [Deploys -> Nat]
  /\ clock \in Nat
  /\ pc \in [Deploys -> Coordinator]
  /\ receivers \in [Deploys -> SUBSET Processes]
  /\ prepared \in [Deploys -> SUBSET Processes]
  /\ pruned \in [Deploys -> SUBSET Processes]
  /\ committed \in [Deploys -> SUBSET Processes]
  /\ before \in [Deploys -> Entry]
  /\ subscribed \in [Processes -> SUBSET Environments]
  /\ inbox \in [Processes -> Seq(Messages)]
  /\ roster \in [Environments -> SUBSET Processes]
  /\ acks \in [Deploys -> [Phases -> SUBSET Processes]]
  /\ status \in [Processes -> {"new", "subscribed", "joined", "up", "gone"}]
  /\ listener \in [Processes -> {"off", "on", "down", "dead"}]
  /\ serves \in [Processes -> SUBSET Environments]
  /\ channels \in [Processes -> SUBSET Environments]
  /\ pending \in [Processes -> Seq(Deploys)]
  /\ \A p \in Processes : Len(pending[p]) <= PendingBound
  /\ live \in [Processes -> [Keys -> Entry]]
  /\ answering \in [Processes -> SUBSET Messages]
  /\ passPhase \in [Processes -> {"idle", "begun", "read", "joining", "ensured"}]
  /\ passEnvs \in [Processes -> SUBSET Environments]
  /\ passRow \in [Processes -> [Environments -> Entry]]
  /\ touched \in [Processes -> SUBSET Keys]

Init ==
  /\ envs = InitialEnvironments
  /\ rows = {}
  /\ stamp = [d \in Deploys |-> 0]
  /\ clock = 0
  /\ pc = [d \in Deploys |-> "idle"]
  /\ receivers = [d \in Deploys |-> {}]
  /\ prepared = [d \in Deploys |-> {}]
  /\ pruned = [d \in Deploys |-> {}]
  /\ committed = [d \in Deploys |-> {}]
  /\ before = [d \in Deploys |-> None]
  /\ subscribed = [p \in Processes |-> {}]
  /\ inbox = [p \in Processes |-> <<>>]
  /\ roster = [e \in Environments |-> {}]
  /\ acks = [d \in Deploys |-> [ph \in Phases |-> {}]]
  /\ status = [p \in Processes |-> "new"]
  /\ listener = [p \in Processes |-> "off"]
  /\ serves = [p \in Processes |-> {}]
  /\ channels = [p \in Processes |-> {}]
  /\ pending = [p \in Processes |-> <<>>]
  /\ live = [p \in Processes |-> [k \in Keys |-> None]]
  /\ answering = [p \in Processes |-> {}]
  /\ passPhase = [p \in Processes |-> "idle"]
  /\ passEnvs = [p \in Processes |-> {}]
  /\ passRow = [p \in Processes |-> [e \in Environments |-> None]]
  /\ touched = [p \in Processes |-> {}]

-----------------------------------------------------------------------------
(* The coordinator: deploy, rollback and complete_switch.                  *)

CreateEnvironment(e) ==
  /\ e \notin envs
  /\ envs' = envs \cup {e}
  /\ UNCHANGED <<rows, stamp, clock, coordVars, redisVars, passVars, memberVars>>

\* The first statement of the transaction: its start is the row's deployed_at.
Open(d) ==
  /\ pc[d] = "idle"
  /\ EnvironmentOf[d] \in envs
  /\ clock' = clock + 1
  /\ stamp' = [stamp EXCEPT ![d] = clock + 1]
  /\ pc' = [pc EXCEPT ![d] = "open"]
  /\ UNCHANGED <<envs, rows, receivers, prepared, pruned, committed, before,
                 redisVars, passVars, memberVars>>

Publish(ph, d) ==
  inbox' = [p \in Processes |->
              IF EnvironmentOf[d] \in subscribed[p]
                THEN Append(inbox[p], Message(ph, d)) ELSE inbox[p]]

\* The previous live Deployment is read, then PREPARE is published.
PublishPrepare(d) ==
  /\ pc[d] = "open"
  /\ before' = [before EXCEPT ![d] = Newest(RowsOf(Key(d)))]
  /\ Publish("prepare", d)
  /\ receivers' = [receivers EXCEPT
                     ![d] = {p \in Processes : EnvironmentOf[d] \in subscribed[p]}]
  /\ pc' = [pc EXCEPT ![d] = "waiting"]
  /\ UNCHANGED <<prepared, pruned, committed, dbVars, subscribed, roster, acks,
                 passVars, memberVars>>

EnoughAcks_OneShort(d) ==
  Cardinality(acks[d]["prepare"]) + 1 >= Cardinality(receivers[d])

EnoughAcks(d) == Cardinality(acks[d]["prepare"]) >= Cardinality(receivers[d])

\* prepare_round, every receiver acknowledged: the other roster names are ghosts ...
FinishPrepare(d) ==
  /\ pc[d] = "waiting"
  /\ EnoughAcks(d)
  /\ prepared' = [prepared EXCEPT ![d] = acks[d]["prepare"]]
  /\ pruned' = [pruned EXCEPT ![d] = roster[EnvironmentOf[d]] \ acks[d]["prepare"]]
  /\ pc' = [pc EXCEPT ![d] = "pruning"]
  /\ UNCHANGED <<receivers, committed, before, dbVars, redisVars, passVars, memberVars>>

\* ... and are dropped, by a second command.
Prune(d) ==
  /\ pc[d] = "pruning"
  /\ roster' = [roster EXCEPT ![EnvironmentOf[d]] = @ \ pruned[d]]
  /\ pc' = [pc EXCEPT ![d] = "prepared"]
  /\ UNCHANGED <<receivers, prepared, pruned, committed, before, dbVars, subscribed,
                 inbox, acks, passVars, memberVars>>

\* prepare_round, short at the timeout: the transaction rolls back.
ShortPrepare(d) ==
  /\ pc[d] = "waiting"
  /\ ~EnoughAcks(d)
  /\ pc' = [pc EXCEPT ![d] = "refused"]
  /\ UNCHANGED <<receivers, prepared, pruned, committed, before, dbVars,
                 redisVars, passVars, memberVars>>

\* The transaction commits: the row and its deployment.created event.
CommitRow(d) ==
  /\ pc[d] = "prepared"
  /\ rows' = rows \cup {d}
  /\ pc' = [pc EXCEPT ![d] = "committed"]
  /\ UNCHANGED <<envs, stamp, clock, receivers, prepared, pruned, committed, before,
                 redisVars, passVars, memberVars>>

PublishCommit_BeforeTheRow(d) ==
  /\ pc[d] \in {"prepared", "committed"}
  /\ Publish("commit", d)
  /\ pc' = [pc EXCEPT ![d] = IF @ = "committed" THEN "swapping" ELSE @]
  /\ UNCHANGED <<receivers, prepared, pruned, committed, before, dbVars,
                 subscribed, roster, acks, passVars, memberVars>>

PublishCommit(d) ==
  /\ pc[d] = "committed"
  /\ Publish("commit", d)
  /\ pc' = [pc EXCEPT ![d] = "swapping"]
  /\ UNCHANGED <<receivers, prepared, pruned, committed, before, dbVars,
                 subscribed, roster, acks, passVars, memberVars>>

\* commit_round returns (everybody acknowledged, or the timeout), or it raised: then
\* nobody is reported committed.  deployment.switched is written either way.
FinishCommit(d) ==
  /\ pc[d] \in {"committed", "swapping"}
  /\ \/ /\ pc[d] = "swapping"
        /\ committed' = [committed EXCEPT ![d] = acks[d]["commit"] \cap prepared[d]]
     \/ UNCHANGED committed
  /\ pc' = [pc EXCEPT ![d] = "done"]
  /\ UNCHANGED <<receivers, prepared, pruned, before, dbVars, redisVars, passVars,
                 memberVars>>

\* The process that runs the operation dies, or its database connection does.
CoordinatorDies(d) ==
  /\ "coordinator" \in Faults
  /\ \/ pc[d] \in InTransaction /\ pc' = [pc EXCEPT ![d] = "refused"]
     \/ pc[d] \in {"committed", "swapping"} /\ pc' = [pc EXCEPT ![d] = "lost"]
  /\ UNCHANGED <<receivers, prepared, pruned, committed, before, dbVars,
                 redisVars, passVars, memberVars>>

PossiblyStale(d) == prepared[d] \ committed[d]

-----------------------------------------------------------------------------
(* A process: start-up, listener, connection.                              *)

\* SwitchSubscription.start: the channels are subscribed, then the rosters joined.  (What
\* raises here ends the process.)
Subscribe(p) ==
  /\ status[p] = "new"
  /\ status' = [status EXCEPT ![p] = "subscribed"]
  /\ listener' = [listener EXCEPT ![p] = IF envs = {} THEN "off" ELSE "on"]
  /\ serves' = [serves EXCEPT ![p] = envs]
  /\ channels' = [channels EXCEPT ![p] = envs]
  /\ subscribed' = [subscribed EXCEPT ![p] = envs]
  /\ UNCHANGED <<dbVars, coordVars, inbox, roster, acks, passVars, pending, live, answering>>

JoinRosters(p, E) ==
  roster' = [e \in Environments |-> IF e \in E THEN roster[e] \cup {p} ELSE roster[e]]

Join(p) ==
  /\ status[p] = "subscribed"
  /\ status' = [status EXCEPT ![p] = "joined"]
  /\ JoinRosters(p, serves[p])
  /\ UNCHANGED <<dbVars, coordVars, subscribed, inbox, acks, passVars, listener,
                 serves, channels, pending, live, answering>>

\* _listen takes one message at a time: it handles it, awaits the acknowledgement, and only
\* then takes the next.
Takes(p, ph) ==
  /\ listener[p] = "on" /\ answering[p] = {}
  /\ inbox[p] # <<>> /\ Head(inbox[p]).phase = ph
  /\ inbox' = [inbox EXCEPT ![p] = Tail(@)]

\* SwitchMember.handle, PREPARE: hydration may fail, and then nothing is acknowledged.
Bounded_OneMore(s) == IF Len(s) > PendingBound + 1 THEN Tail(s) ELSE s

Bounded(s) == IF Len(s) > PendingBound THEN Tail(s) ELSE s

Prepare(p, d) ==
  \/ UNCHANGED <<pending, answering>>
  \/ /\ pending' = [pending EXCEPT ![p] = Bounded(Append(@, d))]
     /\ answering' = [answering EXCEPT ![p] = {Message("prepare", d)}]

HandlePrepare(p) ==
  /\ Takes(p, "prepare")
  /\ Prepare(p, Head(inbox[p]).deploy)
  /\ UNCHANGED <<dbVars, coordVars, subscribed, roster, acks, passVars, status, listener,
                 serves, channels, live>>

\* SwitchMember.handle, COMMIT: swap only what this process prepared.
Without(s, d) ==
  IF \E i \in 1..Len(s) : s[i] = d
    THEN RemoveAt(s, CHOOSE i \in 1..Len(s) : s[i] = d) ELSE s

Holds_Anything(p, d) == TRUE

Holds(p, d) == \E i \in 1..Len(pending[p]) : pending[p][i] = d

Swap(p, d) ==
  \/ /\ ~Holds(p, d)
     /\ UNCHANGED <<pending, live, touched, answering>>
  \/ /\ Holds(p, d)
     /\ pending' = [pending EXCEPT ![p] = Without(@, d)]
     /\ live' = [live EXCEPT ![p][Key(d)] = d]
     /\ touched' = [touched EXCEPT ![p] =
                      IF passPhase[p] = "idle" THEN @ ELSE @ \cup {Key(d)}]
     /\ answering' = [answering EXCEPT ![p] = {Message("commit", d)}]

HandleCommit(p) ==
  /\ Takes(p, "commit")
  /\ Swap(p, Head(inbox[p]).deploy)
  /\ UNCHANGED <<dbVars, coordVars, subscribed, roster, acks, passPhase, passEnvs, passRow,
                 status, listener, serves, channels>>

\* The SADD of an acknowledgement, over another connection than the listener's: it gets
\* through, or fails and is logged.
Acknowledge(p) ==
  /\ \E m \in answering[p] :
       \/ acks' = [acks EXCEPT ![m.deploy][m.phase] = @ \cup {p}]
       \/ UNCHANGED acks
  /\ answering' = [answering EXCEPT ![p] = {}]
  /\ UNCHANGED <<dbVars, coordVars, subscribed, inbox, roster, passVars, status, listener,
                 serves, channels, pending, live>>

\* The pub/sub connection drops: what was published meanwhile is lost.
Disconnect(p) ==
  /\ "connection" \in Faults
  /\ Alive(p) /\ listener[p] = "on"
  /\ listener' = [listener EXCEPT ![p] = "down"]
  /\ subscribed' = [subscribed EXCEPT ![p] = {}]
  /\ inbox' = [inbox EXCEPT ![p] = <<>>]
  /\ UNCHANGED <<dbVars, coordVars, roster, acks, passVars, status, serves, channels, pending,
                 live, answering>>

\* redis-py reconnects and subscribes to its own channels again by itself; the roster is not
\* joined again.
Reconnect(p) ==
  /\ listener[p] = "down"
  /\ listener' = [listener EXCEPT ![p] = "on"]
  /\ subscribed' = [subscribed EXCEPT ![p] = channels[p]]
  /\ UNCHANGED <<dbVars, coordVars, inbox, roster, acks, passVars, status, serves,
                 channels, pending, live, answering>>

\* The connection's retries run out where the listener reads, and the task ends.
ListenerDies(p) ==
  /\ listener[p] = "down" /\ answering[p] = {}
  /\ listener' = [listener EXCEPT ![p] = "dead"]
  /\ UNCHANGED <<dbVars, coordVars, redisVars, passVars, status, serves, channels, pending,
                 live, answering>>

\* A pass's local variables end with it.
PassEnds_KeepsTouched(p) ==
  /\ passPhase' = [passPhase EXCEPT ![p] = "idle"]
  /\ passEnvs' = [passEnvs EXCEPT ![p] = {}]
  /\ passRow' = [passRow EXCEPT ![p] = [e \in Environments |-> None]]
  /\ UNCHANGED touched

PassEnds(p) ==
  /\ passPhase' = [passPhase EXCEPT ![p] = "idle"]
  /\ passEnvs' = [passEnvs EXCEPT ![p] = {}]
  /\ passRow' = [passRow EXCEPT ![p] = [e \in Environments |-> None]]
  /\ touched' = [touched EXCEPT ![p] = {}]

Gone(p) ==
  /\ status' = [status EXCEPT ![p] = "gone"]
  /\ listener' = [listener EXCEPT ![p] = "off"]
  /\ serves' = [serves EXCEPT ![p] = {}]
  /\ channels' = [channels EXCEPT ![p] = {}]
  /\ inbox' = [inbox EXCEPT ![p] = <<>>]
  /\ pending' = [pending EXCEPT ![p] = <<>>]
  /\ live' = [live EXCEPT ![p] = [k \in Keys |-> None]]
  /\ answering' = [answering EXCEPT ![p] = {}]
  /\ PassEnds(p)
  /\ UNCHANGED <<subscribed, acks, dbVars, coordVars>>

\* A crash leaves the roster entry behind; Redis still counts the connection.
Crash(p) ==
  /\ "process" \in Faults
  /\ Alive(p)
  /\ Gone(p)
  /\ UNCHANGED roster

\* A clean shutdown leaves every roster before the connection closes.
Stop(p) ==
  /\ "process" \in Faults
  /\ status[p] = "up"
  /\ Gone(p)
  /\ roster' = [e \in Environments |->
                  IF e \in serves[p] THEN roster[e] \ {p} ELSE roster[e]]

\* Redis closes the connection of a process that is gone.
RedisDrops(p) ==
  /\ status[p] = "gone" /\ subscribed[p] # {}
  /\ subscribed' = [subscribed EXCEPT ![p] = {}]
  /\ inbox' = [inbox EXCEPT ![p] = <<>>]
  /\ UNCHANGED <<dbVars, coordVars, roster, acks, passVars, memberVars>>

-----------------------------------------------------------------------------
(* The reconcile pass; the start-up load is the first one.                 *)

\* `since` is taken, and read_latest's first SELECT runs.  The start-up load reads no
\* Environments.
PassBegin(p) ==
  /\ status[p] \in {"joined", "up"} /\ passPhase[p] = "idle"
  /\ passPhase' = [passPhase EXCEPT ![p] = "begun"]
  /\ passEnvs' = [passEnvs EXCEPT ![p] = IF status[p] = "up" THEN envs ELSE {}]
  /\ UNCHANGED <<passRow, touched, dbVars, coordVars, redisVars, memberVars>>

PassRead(p) ==
  /\ passPhase[p] = "begun"
  /\ passPhase' = [passPhase EXCEPT ![p] = "read"]
  /\ passRow' = [passRow EXCEPT ![p] = LatestDeployments]
  /\ UNCHANGED <<passEnvs, touched, dbVars, coordVars, redisVars, memberVars>>

\* What SwitchSubscription.ensure has to subscribe to.
Wanted_OnlyNew(p) == passEnvs[p] \ serves[p]

Wanted(p) ==
  IF listener[p] = "dead" THEN serves[p] \cup passEnvs[p]
                          ELSE passEnvs[p] \ serves[p]

EnsureSubscribe(p) ==
  /\ status[p] = "up" /\ passPhase[p] = "read"
  /\ listener[p] # "down" /\ Wanted(p) # {}
  /\ serves' = [serves EXCEPT ![p] = @ \cup passEnvs[p]]
  /\ channels' = [channels EXCEPT ![p] = @ \cup Wanted(p)]
  /\ subscribed' = [subscribed EXCEPT ![p] = @ \cup Wanted(p)]
  /\ listener' = [listener EXCEPT ![p] = "on"]
  /\ passPhase' = [passPhase EXCEPT ![p] = "joining"]
  /\ passEnvs' = [passEnvs EXCEPT ![p] = Wanted(p)]
  /\ UNCHANGED <<passRow, touched, dbVars, coordVars, inbox, roster, acks, status,
                 pending, live, answering>>

\* SUBSCRIBE raises: _transports has been updated by then, redis-py's channels only are when
\* the command was sent.  The pass ends.
SubscribeFails(p) ==
  /\ "connection" \in Faults
  /\ status[p] = "up" /\ passPhase[p] = "read" /\ Wanted(p) # {}
  /\ serves' = [serves EXCEPT ![p] = @ \cup passEnvs[p]]
  /\ PassEnds(p)
  /\ UNCHANGED <<dbVars, coordVars, redisVars, status, listener, channels, pending, live,
                 answering>>

EnsureJoin(p) ==
  /\ passPhase[p] = "joining"
  /\ passPhase' = [passPhase EXCEPT ![p] = "ensured"]
  /\ JoinRosters(p, passEnvs[p])
  /\ UNCHANGED <<passEnvs, passRow, touched, dbVars, coordVars, subscribed, inbox,
                 acks, memberVars>>

\* LiveRefs.reconcile after the read: an entry written meanwhile is left alone.
Reconciled_Always(p, k) ==
  LET d == passRow[p][k[2]] IN
  IF d # None /\ Key(d) = k THEN d ELSE live[p][k]

Reconciled(p, k) ==
  LET d == passRow[p][k[2]] IN
  IF d # None /\ Key(d) = k /\ k \notin touched[p] THEN d ELSE live[p][k]

PassApply(p) ==
  /\ \/ passPhase[p] = "ensured"
     \/ passPhase[p] = "read" /\ (status[p] = "joined" \/ Wanted(p) = {})
  /\ live' = [live EXCEPT ![p] = [k \in Keys |-> Reconciled(p, k)]]
  /\ PassEnds(p)
  /\ status' = [status EXCEPT ![p] = "up"]
  /\ UNCHANGED <<dbVars, coordVars, redisVars, listener, serves, channels, pending, answering>>

\* A read, a confirmation that never comes or a roster that is not joined: a pass that raises
\* is logged and the loop goes on; at start-up it ends the process.
PassFail(p) ==
  /\ "database" \in Faults
  /\ passPhase[p] \in {"begun", "joining"}
  /\ status[p] = "up"
  /\ PassEnds(p)
  /\ UNCHANGED <<dbVars, coordVars, redisVars, memberVars>>

-----------------------------------------------------------------------------
CoordinatorStep(d) ==
  \/ Open(d) \/ PublishPrepare(d) \/ FinishPrepare(d) \/ Prune(d) \/ ShortPrepare(d)
  \/ CommitRow(d) \/ PublishCommit(d) \/ FinishCommit(d) \/ CoordinatorDies(d)

PassStep(p) ==
  \/ PassBegin(p) \/ PassRead(p) \/ EnsureSubscribe(p) \/ EnsureJoin(p)
  \/ PassApply(p)

ListenerStep(p) == HandlePrepare(p) \/ HandleCommit(p) \/ Acknowledge(p)

ProcessStep(p) ==
  \/ Subscribe(p) \/ Join(p) \/ ListenerStep(p) \/ PassStep(p)
  \/ Disconnect(p) \/ Reconnect(p) \/ ListenerDies(p)
  \/ Crash(p) \/ Stop(p) \/ RedisDrops(p) \/ SubscribeFails(p) \/ PassFail(p)

Next ==
  \/ \E e \in Environments : CreateEnvironment(e)
  \/ \E d \in Deploys : CoordinatorStep(d)
  \/ \E p \in Processes : ProcessStep(p)

Spec == Init /\ [][Next]_vars

\* The event loop of a process keeps scheduling its listener and its reconciler, and
\* redis-py keeps trying to reconnect until its retries run out.  A pass may fail (the
\* database is away), but not for ever.
FairProcess(p) ==
  /\ WF_vars(ListenerStep(p))
  /\ WF_vars(Reconnect(p) \/ ListenerDies(p))
  /\ WF_vars(PassBegin(p))
  /\ SF_vars(PassRead(p))
  /\ SF_vars(EnsureSubscribe(p))
  /\ SF_vars(EnsureJoin(p))
  /\ SF_vars(PassApply(p))

FairSpec == Spec /\ \A p \in Processes : FairProcess(p)

\* The same processes, when nothing is promised of Redis: only the database answers.
DatabaseOnlySpec ==
  Spec /\ \A p \in Processes :
            WF_vars(PassBegin(p)) /\ SF_vars(PassRead(p)) /\ SF_vars(PassApply(p))

\* The states the steps of a pass can happen in, read off their guards.
CanBegin(p) == status[p] \in {"joined", "up"} /\ passPhase[p] = "idle"

CanSubscribe(p) ==
  status[p] = "up" /\ passPhase[p] = "read" /\ listener[p] # "down" /\ Wanted(p) # {}

CanApply(p) ==
  \/ passPhase[p] = "ensured"
  \/ passPhase[p] = "read" /\ (status[p] = "joined" \/ Wanted(p) = {})

\* They are the states the steps are enabled in: what relates the two forms of fairness.
GuardsTellEnabled ==
  \A p \in Processes :
    /\ CanBegin(p) <=> ENABLED <<PassBegin(p)>>_vars
    /\ passPhase[p] = "begun" <=> ENABLED <<PassRead(p)>>_vars
    /\ CanSubscribe(p) <=> ENABLED <<EnsureSubscribe(p)>>_vars
    /\ passPhase[p] = "joining" <=> ENABLED <<EnsureJoin(p)>>_vars
    /\ CanApply(p) <=> ENABLED <<PassApply(p)>>_vars

\* What FairProcess says of the reconciler, with the guards in the place of ENABLED.
GuardedPasses ==
  \A p \in Processes :
    /\ <>[]CanBegin(p) => []<><<PassBegin(p)>>_vars
    /\ []<>(passPhase[p] = "begun") => []<><<PassRead(p)>>_vars
    /\ []<>CanSubscribe(p) => []<><<EnsureSubscribe(p)>>_vars
    /\ []<>(passPhase[p] = "joining") => []<><<EnsureJoin(p)>>_vars
    /\ []<>CanApply(p) => []<><<PassApply(p)>>_vars

-----------------------------------------------------------------------------
(* Safety.                                                                 *)

\* "the record is never behind what a process serves" (deployment_switch.py, "The order,
\* DB first"): what a process serves under a key is a committed Deployment of that key,
\* and no COMMIT is on its way to a process before its row is committed.
RecordFirst ==
  /\ \A p \in Processes : \A k \in Keys :
       live[p][k] # None => live[p][k] \in rows /\ Key(live[p][k]) = k
  /\ \A p \in Processes : \A i \in 1..Len(inbox[p]) :
       inbox[p][i].phase = "commit" => inbox[p][i].deploy \in rows

\* Counting acknowledgements against PUBLISH's receiver count is enough to know that every
\* process PREPARE reached has hydrated the bundle, whichever acknowledgements are late or
\* lost; so deployment.switched reports each of them, as committed or as possibly stale,
\* and none of them as a ghost.
ReceiversAccountedFor ==
  \A d \in Deploys :
    /\ pc[d] \in {"pruning", "prepared"} \cup Recorded =>
         prepared[d] = receivers[d] /\ pruned[d] \cap receivers[d] = {}
    /\ pc[d] = "done" => committed[d] \cup PossiblyStale(d) = receivers[d]

\* LiveRefs.reconcile, "Never backwards": a pass never replaces an entry by an older
\* Deployment, whatever COMMITs were handled while its read was in flight.
NoBackwardPass ==
  [][\A p \in Processes : \A k \in Keys :
       PassApply(p) /\ live'[p][k] # live[p][k] /\ live[p][k] # None =>
         stamp[live[p][k]] <= stamp[live'[p][k]]]_vars

\* A process acknowledges COMMIT only for a bundle it hydrated in the same switch, and when it
\* does it serves that Deployment or, where a reconcile pass has come between the swap and
\* the acknowledgement, a newer one (SwitchMember, "acknowledge only what it did").
AcknowledgedSwapHappened ==
  [][\A d \in Deploys : \A p \in acks'[d]["commit"] \ acks[d]["commit"] :
       /\ p \in receivers[d] /\ live[p][Key(d)] # None
       /\ stamp[d] <= stamp[live[p][Key(d)]]]_vars

\* A transaction begins at or before the present.
StampsBounded == \A d \in Deploys : stamp[d] <= clock

\* The inductive invariant behind RecordFirst and NoBackwardPass: a row is committed when
\* its coordinator is past the commit, a pass holds rows of the Environments it holds them
\* for, and an entry not written since the pass began is no newer than what the pass read.
RowsAreRecorded == \A d \in Deploys : d \in rows <=> pc[d] \in Recorded

PassHoldsRows ==
  \A p \in Processes : \A e \in Environments :
    passRow[p][e] # None => passRow[p][e] \in rows /\ EnvironmentOf[passRow[p][e]] = e

PassHasRead(p) == passPhase[p] \in {"read", "joining", "ensured"}

PassIsFresh ==
  \A p \in Processes : \A k \in Keys :
    /\ PassHasRead(p) /\ k \notin touched[p] /\ live[p][k] # None
    /\ passRow[p][k[2]] # None
    => stamp[live[p][k]] <= stamp[passRow[p][k[2]]]

RecordInv == RowsAreRecorded /\ RecordFirst /\ PassHoldsRows /\ PassIsFresh

\* What this module implements: ServedDeployments.  A COMMIT moves a process only to a
\* recorded Deployment it prepared, whatever was lost or reordered; anything else that
\* changes a reference is a repair, and repairs go forward.
HeldBy(p) == {d \in Deploys : Holds(p, d)}

Abstract == INSTANCE ServedDeployments
              WITH KeyOf <- [d \in Deploys |-> Key(d)], held <- [p \in Processes |-> HeldBy(p)]
ImplementsServedDeployments == Abstract!Spec

-----------------------------------------------------------------------------
(* Liveness.                                                               *)

Converged(p, k) == status[p] = "up" => live[p][k] = Newest(RowsOf(k))

\* SwitchReconciler: whatever messages were lost and however many processes came and went,
\* every running process ends up serving the latest committed Deployment of every
\* Environment, once its Redis connection no longer drops.
Converges ==
  \A p \in Processes :
    <>[](listener[p] # "down") => \A k \in Keys : <>[]Converged(p, k)

\* What a SUBSCRIBE that raised has left in _transports and nowhere else.
Lost(p) == serves[p] \ channels[p]

\* SwitchReconciler: an Environment created after a process started, a listener that ended or
\* a pass that failed leaves no running process unsubscribed for ever, once its Redis
\* connection no longer drops; only a SUBSCRIBE that raised under a living listener does.
SubscribesUnlessLost ==
  \A p \in Processes :
    <>[](listener[p] # "down") =>
      \A e \in Environments :
        <>[](status[p] = "up" /\ e \in envs => e \in subscribed[p] \/ e \in Lost(p))

ServesLatest(p) ==
  \A k \in Keys : RowsOf(k) # {} => live[p][k] = Newest(RowsOf(k))

Settled == \A d \in Deploys : pc[d] \in {"refused", "done", "lost"}

\* main.py: "A fresh process therefore serves the latest committed Deployment of every
\* Environment": one that starts when no deploy is in flight does so from its start-up load on.
FreshProcessServesLatest ==
  \A p \in Processes :
    [](status[p] = "new" /\ Settled => [](status[p] = "up" => ServesLatest(p)))

-----------------------------------------------------------------------------
(* Claims of the comments and of the specification that the code breaks.   *)

\* docs/specs/03-rating-engine.md: a pruned roster name is "the ghost of a crashed
\* process".
PrunedOnlyGhosts ==
  \A d \in Deploys : \A p \in pruned[d] :
    pc[d] = "prepared" => ~Alive(p)

\* The deploy response and deployment.switched name every running process that is left
\* on an earlier Deployment (api/score.py, _serving_ref).
StaleProcessNamed ==
  \A d \in Deploys : \A p \in Processes :
    /\ pc[d] = "done" /\ status[p] = "up" /\ Newest(RowsOf(Key(d))) = d
    /\ live[p][Key(d)] # d
    => p \in PossiblyStale(d) \cup pruned[d]

\* SwitchReconciler: "the DB is the truth a missed message is repaired from", within an
\* interval, so it needs no message to get through.
RepairedFromDatabase == \A p \in Processes, k \in Keys : <>[]Converged(p, k)

\* LiveRefs.reconcile: an entry it leaves alone because it was written meanwhile is "at
\* least as new as anything the read can hold".
SkippedEntryIsAsNew ==
  [][\A p \in Processes : \A k \in touched[p] :
       PassApply(p) /\ passRow[p][k[2]] # None /\ Key(passRow[p][k[2]]) = k =>
         stamp[passRow[p][k[2]]] <= stamp[live'[p][k]]]_vars

\* SwitchSubscription.ensure, "subscribed and on the roster for every Environment named":
\* a pass that got through it leaves the process on every roster it was not pruned from.
EnsuredOnRoster ==
  [][\A p \in Processes : \A e \in passEnvs[p] :
       PassApply(p) /\ status[p] = "up" =>
         p \in roster[e] \/ \E d \in Deploys : p \in pruned[d]]_vars

\* The same sentence of ensure, in time: once its Redis connection no longer drops, a running
\* process ends up subscribed to every Environment.
SubscribesToEverything ==
  \A p \in Processes :
    <>[](listener[p] # "down") =>
      \A e \in Environments : <>[](status[p] = "up" /\ e \in envs => e \in subscribed[p])

\* deployment.created's `before` is the Deployment that was live when this one replaced it
\* (docs/specs/03-rating-engine.md).
BeforeIsPrevious ==
  [][\A d \in Deploys :
       CommitRow(d) => before[d] = Newest(RowsOf(Key(d)))]_vars
=============================================================================
