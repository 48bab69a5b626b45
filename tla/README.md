# GI Pricing Plan: a verification project

GI Pricing Plan is a platform on which an insurer's actuaries prepare data, fit models,
compose them into a Rating Version, have it approved, deploy it to an Environment and
score quotes with it. One tenant has one deployment: API processes (FastAPI), workers
(Celery), PostgreSQL, Redis and an S3 object store. This directory holds TLA+ modules for
the parts of it whose correctness depends on the order of events in several processes, the
TLC configurations that check them, and proofs for TLAPS.

Paths in this file are relative to `src/` of the repository snapshot;
`app/` is `backend/src/app/`.

## 1. Inventory

The platform keeps all that lasts in PostgreSQL. A handler does its work in one
`unit_of_work` (`app/db/session.py`), which commits once or rolls back, and writes its
audit event and its outbox row in the same transaction. What can go wrong is therefore
mostly where a second store or a second process takes part: Redis messages, a process's
memory, a worker's thread, an S3 object.

| Component | State it keeps | Operations | Interacts with | What is hard, and what makes it right |
|---|---|---|---|---|
| Deployment switch (`app/platform/deployment_switch.py`, `deployments.py`, `main.py`) | `deployments` rows; per process `LiveRefs`, prepared bundles, subscription, pass; Redis channels, rosters, acknowledgements | deploy, rollback, PREPARE, COMMIT, reconcile, start, stop | bundle slot, environments, audit | Pub/sub loses messages, processes start, crash and reconnect inside a round. No process may serve what is not recorded, go backwards by a repair, or stay behind for ever. |
| Jobs, outbox, worker (`app/platform/jobs.py`, `outbox.py`, `app/worker/`) | `jobs`, `outbox` rows; broker queues; a worker's task and its handler's thread | submit, relay, run, report, cancel | every handler, audit | At-least-once delivery, workers that die, two submissions with one key, a cancellation at any point. A Job runs once, ends, and is not lost. |
| Approvals (`app/platform/approvals.py`, `app/api/approvals.py`) | requests, decisions, the policy, the status of the governed artifact | submit on two routes, decide, withdraw, set the policy | rating versions, models, objectives, rules, deployments | A submission reads a status it does not lock, a withdrawal a liveness; a request outlives the review it was opened in. Nobody with an interest ever approves; a version and its request agree; nothing live loses its approval. |
| Promotion (`app/platform/deployments.py`, `environments.py`, `approvals.py` `set_policy`) | `deployment_requests`, `deployments`, `environments`, the policy's `deployment` entries | request, decide, deploy, rollback, retire, rename, set the policy | approvals, deployment switch, audit | A deploy reads the policy, the order and the request without a lock and writes up to ten seconds later. An approval is executed once; the order of promotion holds over races, rollbacks and changes of policy; no transaction waits for ever. |
| Settings, routing, shadow (`settings.py`, `routing.py`, `shadow.py`) | setting overrides, appended routing rules and shadow configurations | set, append | scoring | The latest of several appended rows counts, and a rule pins a Deployment while what is live moves. |
| Bundle slot and scoring (`bundle_slot.py`, `api/score.py`, `rate_limit.py`, `traces.py`, `worker/trace_handlers.py`) | compiled bundles in a process's memory, each reference's last resolution, counters in Redis, trace rows | score, compare, hydrate, evict, sample, reproduce | deployment switch, blob store, compile Jobs | Each fetch awaits metadata and then a blob, either of which may not answer, while versions are recompiled, switched and evicted. A quote is priced by the bundle its Deployment recorded; an outage answers only with a bundle its version had; a trace tells the price. |
| Audit chain (`audit.py`) | one hash chain per workspace | record, verify | every write | Two transactions append to one chain. The chain is one sequence, without forks or gaps, and its lock makes every write wait for every other. |
| Datasets and ingestion (`datasets.py`, `data/ingestion.py`, `validation.py`, `worker/data_handlers.py`, `validation_rules.py`, `reference.py`) | dataset versions, reports, acknowledgements, rule sets | ingest, split, correct the schema, validate, acknowledge, promote, archive | blob store, jobs, models | A validation reads and writes in two transactions; a validated version may be validated again under the Models that rest on it. A validated version has its report, and reserved data never changes. |
| Blob store (`blobs.py`) | objects in S3, `blobs` rows with a reference count | put, read, reference, release, collect | datasets, bundles, traces | An object is written before its row commits. |
| Rate tables (`rate_tables.py`, `diff_cache.py`) | immutable versions of cells, cached diffs | seed, bulk edit, import, diff | rating versions, blob store | Every edit inserts a version; the unique number refuses the second of two. |
| Rating versions (`rating_versions.py`, `rating_algorithms.py`, `sub_graphs.py`, `worker/rating_handlers.py`) | drafts and approved versions, compiled bundles, golden-quote evidence | draft, edit, compile, submit | approvals, blob store, deployments | A compile reads the version without its lock and waits for it while the version is submitted, decided and deployed. Evidence and Deployments stay about the bundle they name. |
| Modelling governance (`modelling.py`, `worker/model_handlers.py`, `objectives.py`, `metrics.py`, `perils.py`, `transformations.py`) | models, factors, certificates | reserve, fit, submit, decide, supersede, archive | jobs, approvals, datasets | Two fit Jobs of one Model; a decision that reads the data's status without its lock. Numbers are written once; a Model is approved only on data with standing. |
| Reports and runs (`backtests.py`, `comparison.py`, `dislocation_runs.py`, `regression_runs.py`, ...) | result rows | request, store, read | jobs | A result stored twice by a redelivered Job: excluded by what `Jobs` shows. |
| Authentication, permissions, tenancy (`app/auth/`, `rbac.py`, `tenancy.py`) | keys, roles, markers | resolve, refuse | every route | No interleavings of its own. |
| `pricing-core` | none | fit, score, diagnose, compile | handlers, scoring | Numerical; its discrete parts are algorithms to compare with a definition. |
| `model-schema`, frontend, docs, scripts, deploy | none that decides anything | | | |

`PROJECT.json` lists each of them with its status, and under `hazards` the places where
this code is hard to test, with the properties aimed at each.

## 2. Modules

| Module | Role |
|---|---|
| `ServedDeployments` | abstract: recorded Deployments, what each process holds and what it serves |
| `DeploymentSwitch` | the two-phase switch in detail |
| `DeploymentSwitchProofs` | its theorems |
| `DeploymentSwitchLiveness` | what its reconciler repairs in the end: theorems under fairness |
| `MCDeploymentSwitch` | its instances for TLC |
| `JobLifecycle` | abstract: the life of a Job, one run, one Job per key |
| `Jobs` | submission, outbox, relays, broker, workers, cancellation in detail |
| `JobsProofs` | its theorems, those under fairness last |
| `MCJobs` | its instances for TLC |
| `ReviewedVersions` | abstract: who has approved a Rating Version, and when that is enough |
| `Approvals` | requests, both routes, decisions, withdrawals and policies in detail |
| `ApprovalsProofs` | its theorems |
| `MCApprovals` | its instance for TLC |
| `PromotionLadder` | abstract: requests, and what is placed in which Environment in which order |
| `Promotions` | Deployment Requests, deploys and rollbacks, Environments, the policy, and the locks they meet on |
| `PromotionsProofs` | its theorems |
| `PromotionsLiveness` | that every transaction ends: theorems under fairness |
| `MCPromotions` | its instances for TLC |
| `DatasetVersions` | Dataset Versions: tables, validation Jobs, reports, acknowledgements, promotion, corrections |
| `ModelStanding` | abstract: the Models of a family, and the standing of their data |
| `ModelFits` | `DatasetVersions` composed with reservations, fit Jobs, reviews and decisions of Models |
| `ModelFitsProofs` | its theorems |
| `MCModelFits` | its instance for TLC |
| `BundleSlot` | the slot of one API process, a value with its operations |
| `PricedQuotes` | abstract: what is compiled, deployed and answered |
| `QuoteScoring` | compiles, reviews, Deployments, the routing rule, and the tasks of a process that fetch bundles |
| `QuoteScoringProofs` | its theorems, and the lemmas about the slot |
| `MCQuoteScoring` | its instance for TLC |

The detailed modules instantiate the abstract ones (`Abstract`, `Lifecycle`, `Ladder`, `Priced`) and state that
they implement them. A definition whose name is that of an action with a suffix
(`Claimable_Uncommitted`, `EnoughAcks_OneShort`) is a plausible bug in that action: the
project's mutants put it in place of the action to see that a property notices. Nothing
else uses them.

Two compositions share variables: `ModelFits` extends `DatasetVersions`, and `QuoteScoring`
extends `BundleSlot`. The others meet in rows: a Deployment enters `Approvals` and
`QuoteScoring` as the action `Deploy`, an approved version enters `DeploymentSwitch` as an
operation, a decision enters `Promotions` as a transaction with an outcome, and the Jobs that validate, fit and
compile are run as `Jobs` shows, at most once, without their queues.

### DeploymentSwitch

A deploy is a coordinator with a `pc`: `Open` starts the transaction, whose start is the
row's `deployed_at` (`stamp`); `PublishPrepare` reads the previous live Deployment and
sends PREPARE; `FinishPrepare` and `Prune` are the two halves of `prepare_round` once every
receiver acknowledged, `ShortPrepare` the refusal; `CommitRow` commits; `PublishCommit` and
`FinishCommit` are `complete_switch` after the commit. `CoordinatorDies` ends it anywhere.

A process subscribes (`Subscribe`), joins the rosters (`Join`) and loads (`PassBegin`,
`PassRead`, `PassApply`, the same steps as a later reconcile pass). Its listener takes one
message at a time (`Takes`): `HandlePrepare` hydrates and keeps the switch in a bounded list,
`HandleCommit` swaps only what it prepared. Either leaves the message in `answering`, and
`Acknowledge` is the awaited SADD that follows, which may fail; a pass, a drop or a crash can
come between. A pass takes its snapshot of
write counts first, reads, lets `ensure` subscribe and join what is new (`EnsureSubscribe`,
`EnsureJoin`), and then replaces only the entries not written meanwhile. The list `touched`
is what `LiveRefs` decides by comparing its write counters. The connection may drop
(`Disconnect`), come back (`Reconnect`) or give up (`ListenerDies`).

What a process believes that it listens to and what it does listen to are three variables:
`serves` is `_transports`, which `ensure` updates before its SUBSCRIBE and by which it
decides what is wanted; `channels` is redis-py's own set, which it subscribes to again when it
reconnects; `subscribed` is what Redis knows. A SUBSCRIBE that raises (`SubscribeFails`)
leaves an Environment in the first only.

What the module simplifies: the retirement of an Environment is not an action, as it only
keeps processes that start later from subscribing; at start-up the read of the Environments
and their subscription are one step; acknowledgement keys outlast their round (their TTL is
longer than the timeout); `deployed_at` of two transactions are never equal; a failed pass
at start-up ends the process, which is `Crash`. Bundles are their Deployment's identity.

### Jobs

A submission is one transaction in three steps, since other transactions come in between:
`Lookup` of the key, `Insert` (the flush, where the unique index waits for another open
transaction with the key and refuses after its commit) and `Commit` of Job and outbox row
together; `RollBack` undoes it all. A relay's `Claim` locks the oldest pending rows that are
not locked (`FOR UPDATE SKIP LOCKED`, at most `BatchSize`); `Publish` or `PublishFails`
tries each row; `CommitBatch` marks what was sent. `RelayDies` leaves what was sent.

The broker is a number of waiting copies of each Job's message. A worker takes one
(`Receive`), reads the Job without a lock (`Load`), moves it to running under the row's lock
(`Start`), runs the handler, whose progress writes it waits for (`Report`,
`WriteProgress`), records the end (`End`) and acknowledges (`Acknowledge`). The handler
returns or raises (`Finish`), sees a cancellation (`ObserveCancel`), or gives up on a
progress write (`GiveUpWriting`), which goes on. A task may raise (`TaskRaises`), its
process may be killed (`WorkerDies`), its message may be delivered again while it still runs
(`Redeliver`), and Redis may restart without its queues (`BrokerRestarts`). `Cancel` is
`request_cancellation`.

What the module simplifies: the order of messages in a queue and the four queues are left
out, as any waiting message may be taken next, which includes every order; the value of
progress is a bit that each write flips; the handler's own work, log capture, metrics, the
event stream and the audit events are not there. The relay is a process of its own,
although the code runs it as a task on the `default` queue, behind its Jobs: that nothing is
published while every worker of that queue is busy is not in the model. FR-414, which would free the key of a failed Job,
is documented as not built, and so a key names one Job for ever here.

`Faults` names the faults a run allows. The theorems hold for every value of it, or name
the faults they exclude.

### Approvals

A Rating Version has a status, the authors of the evidence its last submission pinned
(`evidence`) and the request of that submission (`pinned`); a request has a status, a
subject, a submitter, the number of approvers its submission fixed and the principals who
approved. A submission is two steps. `AskOwn` is `submit_for_review` up to its insert: it
holds the version's row (`Locked`) and has read the policy; `InsertOwn` inserts the request,
pins the evidence and moves the version to review. `AskGeneric` is `POST /approval-requests`
up to its insert: it has seen the version in review and holds nothing; `InsertGeneric`
inserts. Both inserts meet the unique index on open requests (`NoneOpen`); `Abandon` is every
way in which a submission ends without one. `Decide` is the whole transaction of the decide
route: the separation of duties (`Interested`), the permission and the role (`MayDecide`),
the unique decision (`DecidedBefore`), the count (`Outcome`) and the hook that moves the
version or refuses and so undoes it all (`Carry`, `Target`). It is one step, as it holds the
request from its first statement and the version before it reads it. A withdrawal reads the
version's Deployments first (`CheckNotLive`) and is a step of its own later (`Withdraw`).
Both are possible of a request that is withdrawn already (`Withdrawable`): a transition to the
status that a request has passes without a word. Its hook then finds the version in whatever
status that has by now, and takes it back to draft even if it is in review under a later
request, which stays open and may collect approvals on the draft. So what a version promises
in `ReviewedVersions` is what its pinned request holds until the version returns to draft, and
nothing after that.
`ChangePolicy` stands for a new policy and for roles granted and revoked; `Deploy` for a
recorded Deployment of an approved version.

What the module simplifies: the gates of a submission are what they pin or their refusal
(`Abandon`); a policy entry is the number of approvers and the principals whose roles it
names; a request is of a Rating Version, whose hook stands for those of the other types,
which differ; comments, reasons and audit events are left out. A withdrawal that was refused
is not told from one still in flight, which allows more interleavings than there are.

### Promotions

A deploy is a transaction of three steps: a check (`CheckUngated`, `CheckGated`,
`CheckRollback`), which reads the policy, the order and the request without locks;
`Claim`, the conditional UPDATE that finds an approved request and has its row from then on
(`RowHeld`), and `Execute`, which appends the event once the chain is free; and the commit with
the Deployment's row, after the PREPARE of `DeploymentSwitch`. A deploy without a request has
the check and the commit only. A decision or a withdrawal appends first (`StartDecide`) and
then takes the request's row and writes the outcome, or finds the request out of review and
undoes it all (`FinishDecide`, `RefuseDecide`). A withdrawal may begin on an approved, an
executed or a withdrawn request as well, as `Approvals` says, and is refused there.
A submission of a request, a rename and a retirement each hold the Environment's row from
their first statement (`Lock`) to their end (`Unlock`), and `set_policy` reads the
Environments before it writes (`StartSavePolicy`, `FinishSavePolicy`). Three locks matter: the
Environment's row, for which the insert of a Deployment waits through its foreign key, the
request's row, and the advisory lock of the audit chain, which a gated deploy and a decision
hold while they wait (`Appending`). Each of the rows is locked in both orders with the chain, so
transactions deadlock in two ways: a deploy that has the chain waits for its Environment's row,
whose holder waits for the chain (`EnvironmentDeadlock`); a decision that has the chain waits for
its request's row, which a deploy holds that waits for the chain (`RequestDeadlock`).
`BreakDeadlock` is PostgreSQL's detector, which rolls either party back. `overtaken` remembers an
uncommitted event that has lost the head of the chain. `Abort` and the `Abandon...` actions are every failure.

What the module simplifies: the versions are approved and compiled already; an entry of the
policy is whether it exists and whether it allows the predecessor to be skipped; a request's
evidence is whether it pins a Deployment or a skip; who may decide, and how often, is left to
`Approvals`, so that a decision is its outcome (`Outcomes`); names, the keys that block a retirement,
and the contents of audit events are left out.

### DatasetVersions and ModelFits

A Dataset Version has a status, its tables (the set of schema corrections they went
through), the mark `data_frozen_at`, and the report it was promoted by. A validation Job is
`LoadRun`, then one of `StorePassed`, `StoreBlocked` and `StoreDryRun`, or `FailRun`: the
tables are read in one transaction and the report stored in a later one. `Acknowledge` and
`Promote` are the actuary's acts, `Transition` and `ArchiveVersion` the routes. A schema
correction reads the tables (`ReadSchema`) and writes them under the lock
(`CorrectSchema`). `Move` and `Correctable` join the Python checks with the database trigger
`dataset_versions_snapshot_guard`.

A Model is reserved on a validated version in one step, since `Reserve` holds that row
from its read to its commit. A fit Job is `LoadFit` and `StoreFit` or `FailFit`; its numbers
are the tables it has read. A decision is not one step: `Vote` appends its event, `ReadFlags`
reads the data's status without a lock, `Approve` writes. What keeps a validation Job from
concluding between the two is the audit chain: every transaction that writes needs its lock,
and the vote holds it (`ChainFree`). So the steps are divided into those that append
(`DataWrite`, `ModelWrite`) and those that do not.

What the modules simplify: the rules and the fit are computations, whose outcome is any; one
family of Models; an ingestion is one step; an approval request is its last vote and its
return, as `Approvals` has the machine; the columns of a schema are one set.

### BundleSlot and QuoteScoring

A bundle is its content hash, which is also its key in the blob store. `BundleSlot` gives
the two indices of `bundle_slot.py` as one record, with `Get`, `Put` (which evicts the least
recently used and forgets the references to it) and their coherence. There is no sharing of
loads in that code: two tasks that miss the same bundle both fetch it, as here.

A compile Job is `ReadVersion` (the route's check and the handler's first read, neither
under the lock), `Compile` (the row's lock, `require_compilable`, the resolution of pins),
`Upload` (the object) and `CommitCompile` (metadata and blob row). `SubmitForReview` and
`CommitSubmit` are the ends of a submission with a golden-quote gate, which holds the
version's row while it scores in another session; `SubmitUnchecked` is one without a suite.
`BeginDeploy` is a deploy's read of the version, which goes into `planned`, and `Deploy` appends
the row with what was read, or never comes; a PREPARE (`Prepare`) names a planned version and
hash, recorded or not. `WriteRule` appends its row; `GoLive` is what `DeploymentSwitch` does to
`LiveRefs`, reduced to that any recorded Deployment may become the one served.

A task of the process is a quote (`AskFor`, `AskLive`, `AskRouted`), a PREPARE, one side of
a comparison or a gate. `_fetch_bundle` is a step per await: `ReadHeld` or `ReadUnheld` when
the row is read, then `ReadBlob`. `Degrade` is `_compiled_for`'s answer to a read that
raises; a decided refusal is `Refuse`. An error that the store answers is one (`BlobStore.open`
makes it BLOB_NOT_FOUND), so a quote may be refused although the slot could have priced it; a
store that does not answer is not. `Faults` names what may fail to answer. An answered
quote may be sampled (`Sample`), and the Job of the trace reproduces it later (`Produce`), with
two ways to a mismatch: another bundle is pinned by then, and no body is kept; or the pinned
bundle is the one that answered and its summary is another, and the body is kept.
`Restart` empties the slot and drops the tasks.

What the module simplifies: one Environment and one workspace; a rule's dates are whether
its range holds the quote's; scoring itself, rate limits and timing are left out; a shadow
scoring is there only as the fetch of a version by reference (`Compare`), without its stored
configuration and results; a fetch for a batch is the same as for a quote; an abandoned
compile leaves its object in the store, and the collection of blobs is left out, as nothing
in the program calls it.

## 3. Runs

| Run | Question | Instance | Result |
|---|---|---|---|
| `switch_one_process` | Types; is the record ahead of every process; does a pass go backwards; does whoever acknowledges a COMMIT serve it, or a newer one; is it `ServedDeployments`? | 1 process, 2 operations, all faults | holds |
| `switch_two_processes` | Does counting acknowledgements against receivers account for each process? | 2 processes, 1 operation, all faults | holds |
| `switch_converges` | Does a process end up with the latest Deployment, and a fresh one have it at once? | 1 process, 2 concurrent operations, drops | holds under `FairSpec` |
| `switch_new_environment` | Does every process come to subscribe to an Environment created later, but for one whose SUBSCRIBE raised? | 1 process, 2 Environments, drops, SUBSCRIBEs and passes that fail | holds under `FairSpec` |
| `jobs_delivery` | Types; is a queued Job always carried; is it `JobLifecycle`? | 2 Jobs (one unhandled), 2 workers, 2 relays; relays and workers die, redeliveries | holds |
| `jobs_submission` | Does a key name one Job, and fit what was asked? Is anything delivered before its commit? Is it still `JobLifecycle` under every fault? | 3 concurrent submissions, 1 key, 1 of other parameters, 1 unhandled; 1 worker, 1 relay, 2 copies, all faults | holds |
| `jobs_end` | Does every accepted Job end, beside a message that can never be sent? Does a finished Job change? | 2 Jobs (one unroutable), batches of 2; relays die, redeliveries | holds under `FairSpec` |
| `approvals_reviewed` | Types; has an approved request its distinct, disinterested approvers; does a version in review have its own open request; does a live version keep its approval; is it `ReviewedVersions`? | 1 version, 3 requests, 4 principals of whom 2 submit on both routes, evidence by nobody or by one of them, a policy entry for two approvers that comes and goes | holds |
| `models` | Types; has a validated version a report that passed with every warning acknowledged; is a Model approved only on data with standing; does reserved data stay; is it `ModelStanding`? | 1 Dataset Version and 1 part split from it, a validation Job on the first and a dry run on the part, 1 rule, 1 actor, 1 correction; 2 Models on the part, 3 fit Jobs of which 2 fit one Model | holds |
| `promotions` | Types; is a request executed once; does promotion keep its order; does what is read under a lock stay true; are requests numbered without gaps; is it `PromotionLadder`? | 1 version, uat before prod, prod ungated or gated with a skip, 2 requests that are approved or withdrawn, 3 deploys or rollbacks | holds |
| `promotions_end` | Does every deploy and every decision end and every Environment become free, although two kinds of rows are each locked in both orders with the chain? | the same with 1 request and 2 deploys | holds under `FairSpec` |
| `quotes` | Types; is the slot coherent; is a quote priced as its Deployment recorded; is evidence about the bundle under review; does a trace tell the price; is it `PricedQuotes`? | a draft and a version deployed earlier, 2 bundles, a slot for one, 1 compile Job, 1 quote, 1 other task, 2 Deployments, metadata and store may fail | holds |

### Claims the code does not keep

All of these runs hold. The modules state other sentences too, each from a doc, a comment or a
docstring, that the code does not keep. They have no run of their own: each is refuted by
the instance named when it takes the place of that instance's properties.

| Property | Instance | What happens |
|---|---|---|
| `PrunedOnlyGhosts` (invariant) | `switch_one_process` | A process that subscribes after PREPARE and joins before the roster is read is pruned, alive. |
| `SkippedEntryIsAsNew` | `switch_one_process` | An entry that a pass skips, as a COMMIT wrote it meanwhile, may be older than what the pass has read. |
| `BeforeIsPrevious` | `switch_one_process` | Two deploys in flight record the same `before`. |
| `EnsuredOnRoster` | `switch_new_environment` | A pass that fails between subscribing and joining leaves the process off the roster for good. |
| `SubscribesToEverything` | `switch_new_environment` | `ensure` promises to be "subscribed and on the roster for every Environment named"; after a SUBSCRIBE that raised it takes the Environment for served, and while the listener lives no pass wants it again. |
| `MovesWithItsRequest` | `approvals_reviewed` | FR-351 moves a version "only once the request is decided"; an earlier request, withdrawn a second time, takes it back to draft while its own is in review. |
| `QueuedIsCarried` (invariant) | `jobs_submission` | A message that Redis loses after its row was marked is never sent again. |
| `FinishedIsHistory` | `jobs_submission` | A progress write that outlasted its wait changes a Job that has failed. |
| `QueuedIsCarried` (invariant) | `jobs_delivery`, with database faults | The database does not answer at pickup: the task fails, its message is acknowledged, the Job stays queued. |
| `RepairedFromDatabase` | `switch_converges`, under `DatabaseOnlySpec` | With the listener dead and Redis away no pass repairs `live`, although the database answers. |
| `WithdrawableBeforeDeployment` (invariant) | `approvals_reviewed` | FR-357 lets an approval be withdrawn until deployment; the hook refuses to take an approved version back, so the withdrawal is rolled back. |
| `FreshProcessServesLatest` | `switch_converges` with two workspaces (`main.py:133`) | The start-up query takes one row per Environment, while references are per workspace and Environment: of two workspaces that deployed to one Environment a fresh process serves one. |
| `StaleProcessNamed` (invariant) | `switch_one_process` | A process that starts between PREPARE and the commit serves the previous Deployment and no report names it. |
| `EveryJobEnds` | `jobs_end`, with workers that are killed | The redelivered message of a killed worker is ignored, and its Job stays running. |
| `OpenStaysClosable` (invariant) | `approvals_reviewed` | A generic submission sees a version in review; the version is approved before it inserts; its request stays open on an approved version, and every way to close it is refused. |
| `RetiredIdle` (invariant) | `promotions` | An Environment is not retired while a Deployment is live in it (`environments.py:359`); a deploy checked before the retirement commits after it. |
| `NoEntryOfRetired` (invariant) | `promotions` | `set_policy` reads the Environments without a lock, so its entry may name one that is retired meanwhile. |
| `GateHolds` | `promotions` | A gated target needs a request (`deployments.py:548`); a deploy checked while prod was ungated commits after the gate was set. |
| `ReportDescribesTables` (invariant) | `models` | The schema of a draft is corrected between a validation's load and its report. |
| `ValidatedByRuleSet` (invariant) | `models` | A version is promoted by the report of one rule's dry run. |
| `OneInForce` (invariant) | `models` | An earlier version of the family is approved after a later one. |
| `ArchivedIsFinal` | `models` | A fit Job stores its numbers, and the status with them, on a Model archived meanwhile. |
| `FittedOnStanding` | `models` | The data loses its standing between the load of a fit and its store. |
| `CorrectionsKept` | `models`, with two corrections | Two corrections read the same tables, and the second to lock the row writes over the first. |
| `SplitIsOneArtifact` (invariant) | `models`, with the correction on the part | Of two Models on one split part one was fitted before a correction of it. |
| `DegradesWithoutMetadata` | `quotes` | A quote degrades when the object store fails after metadata has answered, too. |
| `EventTellsBefore` | `quotes`, with two compile Jobs | The hash an Audit Event gives as replaced was read before the lock; another compile has replaced it. |
| `PricedAsDeployed` (invariant) | `quotes` | Documented: what a degraded quote is priced by is the process's last resolution, which may be older than the Deployment. |

### Bounds

* Two operations on one process are enough for every interleaving of a COMMIT with a pass of
  the same process, since the processes of a run only meet in the rosters and the
  acknowledgements; `switch_two_processes` covers those with two processes and one
  operation. `PendingBound = 1` makes the eviction of a prepared switch happen with two.
* Two workers and two relays give the second delivery and the second claim of a row;
  `CopiesBound` 1 or 2 limits waiting copies only: a worker may hold one more. `BatchSize` 1
  makes two relays take different rows, 2 puts a good and a bad row in one batch.
* Three submissions with one key give a holder, one that waits for it and one that differs.
* Three requests are a review that is returned and another, beside a request of the generic
  route that outlives one of them. Versions meet in nothing but the policy, so one is enough;
  the theorems are about any number. The author, a submitter, an author of evidence and two
  approvers without an interest are four principals. Requests are interchangeable and taken
  as a symmetry set: the properties of that run are invariants and a safety refinement.
* Outcomes of a decision are approved and withdrawn: a rejected request is over as a withdrawn
  one is, and a decision after which the request stays in review only holds the chain for a
  while, as one that is abandoned does. prod's entry, when it has one, allows a skip: a stricter
  one refuses more, and which of the two a request met is in what it pins. The theorems are
  about any outcomes and policies.
* Two requests and three deploys are two executions of one request that race, and a rollback
  or a second promotion beside them. A predecessor and a gated Environment are the whole
  order; longer ladders repeat it, and the theorems are about any.
* One Dataset Version and one part separate the data a Model names from the data it is
  fitted on. Two Models give a supersession, and two Jobs of one Model the race to store.
* A slot for one bundle evicts on every other fetch, and two hashes make a bundle of before
  and one of after. A version deployed earlier means that something is live at once, and a
  draft beside it goes through the whole of compile, review, return, recompile and deploy.
  One quote and one other task are enough for each to evict what the other holds. `CONSTRAINT
  Unproduced` goes no further than the production of a trace: no step reads one, so that the
  state in which it is produced is checked and what follows is what follows without it.
* Every run is exhaustive within its bounds. A deadlock is not an error here: once every
  operation is over and no fault is left, the system has nothing to do.

### Fairness

`DeploymentSwitch!FairSpec`: a process's event loop goes on scheduling its listener and its
reconciler (weak fairness), redis-py keeps reconnecting until its retries run out, and a
pass may fail, its SUBSCRIBE too, but not always (strong fairness of its steps). Nothing is assumed of the
coordinators, which may stop anywhere. `DatabaseOnlySpec` promises only the database.

`Jobs!FairSpec`: beat starts a relay every second, so it claims and commits again and again,
although it may die each time for a while (strong); a row that some relay keeps having in
its batch is tried by one of them (strong, over all relays: `SomePublish`); the queues are
first in, first out, so a message that keeps waiting is taken by some worker (strong, over all
workers: `SomeReceive`); a worker goes on with what it took (weak), and a handler ends, as its
wall-clock budget sees to it. Nothing is assumed of cancellations, and workers are not killed in `jobs_end`: a
killed worker's Job does not end, as the table above says.

`Promotions!FairSpec`: PREPARE has a deadline and PostgreSQL grants a lock in the order it
was asked for, so a transaction whose next statement keeps becoming possible gets there
(strong fairness of the steps of a deploy after its check, of the end of a decision, of what
ends the hold on an Environment's row, `FinishOf`, and of the refusal of a submission); the
deadlock detector runs (weak). Nothing is assumed of the policy, or that anything starts. The
deadline of PREPARE bounds the wait for acknowledgements, not a call to Redis: the client has no
read timeout, so that PREPARE ends rests on Redis answering or closing the connection.

## 4. Proofs

All theorems hold for any numbers of processes, operations, Jobs, workers, relays,
principals, versions, requests, Deployments, Models, bundles and tasks.

`DeploymentSwitchProofs` assumes the constants' types (`DeployTargets`, `SmallConstants`)
and finitely many actors (`FiniteActors`).

* `TypeCorrect`: types, the bound of prepared switches, and no stamp in the future.
* `RecordAhead`: `RecordFirst`. It is not inductive: that a pass sets only recorded entries
  needs what it read to be recorded (`PassHoldsRows`), and that a COMMIT is only sent for
  a committed row needs rows and program counters to agree (`RowsAreRecorded`).
* `PassNeverMovesBackwards`: needs further that an entry not written since the pass began
  is no newer than what the pass has read (`PassIsFresh`), which is where the write counter
  of `LiveRefs` does its work.
* `EveryReceiverCounts`: `ReceiversAccountedFor`, from `AckInv`. The code compares two
  counts; they are of the same processes because a PREPARE is only in the inbox of who was
  counted, so that as many acknowledgements as receivers are one of each
  (`AllAcknowledged`, a lemma on cardinalities).
* `EveryAcknowledgedSwapHappened`: `AcknowledgedSwapHappened`, with `HeldInv`: what a
  process keeps prepared is what it was counted for, and COMMIT finds nothing else to swap. From
  the swap to the acknowledgement the process serves that Deployment or a newer one
  (`AnswerStep`), as a pass in between never moves it backwards: it rests on `RecordInv`, too.
* `SwitchImplementsServedDeployments`: the refinement, from the same invariant `RecordInv`.
  The abstract `held` is what a process has prepared and not swapped to (`HeldBy`), so a
  COMMIT may only move a process to a recorded Deployment it holds, and every other change
  of a reference has to be a repair that goes forward.

`JobsProofs` assumes `JobConstants`.

* `TypeCorrect`.
* `KeyNamesOneJob`: from `SubmissionInv`. The look-up alone gives nothing; the argument is
  that of two submissions with one key at most one is inserted or committed
  (`KeysHeldOnce`), which the unique index keeps, and that an answer points to the holder.
* `NothingBeforeCommit`: from `MessageInv`: claims, what was sent, what waits and what is
  held are of committed Jobs.
* `JobsImplementJobLifecycle`: from `RunInv`. Its centre is `OneRunner`: a worker starts a
  Job only if it is queued under the row's lock, and a Job that has been started is never
  queued again, so at most one worker has run it and not recorded its end. A worker that
  declines a Job does so for a kind that nobody runs (`DeclinesTheUnhandled`), and nothing
  is queued and asked to stop at once (`StoppedAfterQueued`).
* `FinishedJobsAreHistory`, without slow writes: a handler waits for its progress write
  (`WritesWhileRunning`), so a write falls into the run.
* `QueuedJobsAreCarried`, without database and broker faults: once sent or marked, a queued
  Job waits or is held by a worker that has not given it up (`CarriedInv`).

`ApprovalsProofs` assumes `ApprovalConstants`: finitely many principals, policies that ask
for at least one approver, and a creator of every version.

* `TypeCorrect`.
* `ReviewHasItsRequest` and `LiveVersionsAreApproved`: from `VersionInv`. That a version in
  review has its pinned request open, and an approved version its pinned request approved, is
  `PinnedAgrees`; the rest says why other requests cannot disturb it: a version's own
  submission holds a row in draft, alone (`OwnHoldsDraft`), a request open on a version in
  review is the pinned one (`OpenIsPinned`), so a request of the generic route that comes late
  finds its version in draft or approved, where the hook moves nothing or refuses.
* `FourEyesAlways`: needs further that an open request's approvals are disinterested
  (`ApprovalInv`), which a resubmission could undo by pinning evidence of other authors; it
  does not, as `VersionInv` leaves a version that is submitted without an open or an approved
  request.
* `ApprovalsImplementReviewedVersions`: the refinement, from both. What a version promises
  is what its pinned request holds until it is a draft again (`OfPinned`): then nothing, though
  the request may be open still and approved further.

`PromotionsProofs` assumes `PromotionConstants` and `FiniteRequests`.

* `TypeCorrect`, `ExecutedExactlyOnce`, `NumbersInOrder`, `AlwaysPromotedInOrder` and
  `LocksSuffice`: from `TypeOK`, `RecordInv` and `LockInv`. `RecordInv` adds to the
  properties of the record what a plan and a request say of each other (`PlansSound`,
  `RequestsSound`): the request of a deploy that executes is still approved in the record,
  which is where the conditional UPDATE does its work, and no two deploys hold the row of one
  request. `LockInv` adds who holds which row
  (`LocksSound`) and that what a draft has read is still so (`DraftsSound`); numbering
  without gaps needs both. That at most one transaction has the chain (`ChainSound`) is
  invariant by itself.
* `PromotionsImplementLadder`: the refinement, from the same invariant.

`ModelFitsProofs` assumes `DatasetConstants`, `FiniteWarnings` and `ModelConstants`.

* `TypeCorrect`, `PromotedByReport`, `ReservedDataNeverChanges`, `OnlyStandingIsApproved`:
  from `TypeOK`, `DataInv` and `ModelInv`. Promotion compares two counts; that the
  acknowledgements are of every warning follows from the unique constraint, by a lemma on
  cardinalities (`EveryWarningAcknowledged`). That reserved data stays needs the mark: a
  version on which something is reserved is frozen. That approval finds standing data needs
  that nobody writes while a vote holds the chain.
* `ModelsImplementStanding`: the refinement.

`QuoteScoringProofs` assumes `SlotConstants` and `ScoringConstants`.

* The lemmas `UsedKeeps`, `GetKeeps` and `PutKeeps` are about the slot as a value: a use
  loses no bundle, eviction takes the references with it.
* `SlotStaysCoherent`, `PricedByItsDeployment`, `EvidenceStands`, `TracesTell` and
  `TypeCorrect`: from `IInv`, which is types, the slot's coherence, and four parts that need
  each other. A bundle recorded by a Deployment stays the version's (`DeployInv`) because
  whoever may rewrite it holds the row and has found it in draft (`LockInv`), and a version
  that was deployed is approved for good; a gate's evidence is on the version's bundle
  (`VersionInv`) for the same reason; what a PREPARE names was read of an approved version and
  is what it fetches (`PrepareInv`); what a task has fetched is one of its version's bundles
  and, if it names a Deployment and did not degrade, the recorded one (`TaskInv`).
* `QuotesImplementPriced`: the refinement. Only a compile's commit, a Deployment and an
  answer are steps of `PricedQuotes`.

### What ends, and what is repaired

The provers cannot expand `WF_`, `SF_` and `ENABLED`. The liveness theorems therefore assume
fairness in its guarded form (`GuardedFairness`, `GuardedPasses`): in the place of ENABLED of
an action stands its guard, such as `CanEnd` or `CanBegin`, which the module reads off the action. That the
two are the same is the state formula `GuardsTellEnabled` of each module. TLC finds it true in
every reachable state of `promotions_end`, `switch_new_environment` and `jobs_end` when it
is added to their invariants; with it, guarded fairness is what `FairSpec` says of these actions.

* `PromotionsLiveness!TransactionsEnd`: `EveryTransactionEnds`. A deploy that holds the audit
  chain can end unless it waits for its Environment's row, and then the detector breaks the
  deadlock (`HolderEnds`); a decision that holds it can end unless a deploy has its request's
  row, and that deploy waits for the chain, so the detector breaks that one (`DecisionEnds`). So
  the chain becomes free again and again (`ChainIsFreeAgain`), and with it each row of an
  Environment and of a request (`RowIsFreeAgain`, `RequestIsFreeAgain`), and whoever waits for
  one gets to its end. `NobodyWaitsInVain` is the safety half: whenever a deploy that passed its
  checks, a decision or a transaction on an Environment is unfinished, one of them can go on or
  there is a deadlock to break, of one of the two shapes and no other.
* `DeploymentSwitchLiveness!ReconcilerSubscribes`: `SubscribesUnlessLost`, from `MemberInv`
  (a listener that listens does so to all of redis-py's channels). Passes go on for ever, and one
  that begins after the Environment exists subscribes to it, unless an earlier SUBSCRIBE of it
  raised while the listener lived: nothing else leaves an Environment out.
* `DeploymentSwitchLiveness!ReconcilerRepairs`: a process that stays connected serves the
  newest Deployment of a workspace and Environment for good, once the record rests on it
  and no COMMIT of that key waits at the process (`AtRest`), if the deploys into one
  Environment are of one workspace (`OneWorkspaceEach`: see `FreshProcessServesLatest` in the
  table of section 3). A pass that began since reads that row (`ReadsNewest`).
* `DeploymentSwitchLiveness!FreshServesLatest`: `FreshProcessServesLatest` under
  `OneWorkspaceEach`; it needs no fairness.
* `JobsProofs!AcceptedJobsEnd`: an accepted Job whose row is among the oldest `BatchSize`
  whenever it is pending and free (`InFront`) reaches an end. The constants must leave out
  killed workers, database and broker faults (`Calm`), each of which leaves a Job behind as
  the table of section 3 says, and there must be a relay and a worker. `RelaysComeRound` says
  that a relay gets to the end of its batch; TLC finds that `FairSpec` implies it on
  `jobs_end`, while its proof for batches of any size would be an induction over the rows.
* `JobsProofs!EveryJobOfABatchEnds`: `EveryJobEnds` for at most `BatchSize` Jobs, of which
  any may be unroutable: then every row is always in front.

### How far the broken claims hold

Some claims of the table of section 3 hold but for one or two races. These theorems say for
which: under a hypothesis that excludes the race the claim holds in every behaviour, so there is
no other way to break it.

| Theorem | Claim | Hypothesis |
|---|---|---|
| `SerialBeforeIsPrevious` | `BeforeIsPrevious` | `OneDeployAtATime`: no two deploys of one workspace and Environment are in their transactions together |
| `CountedRosterPrunesGhosts` | `PrunedOnlyGhosts` | `RosterIsCounted`: PREPARE was counted to every running process on the roster |
| `FreshServesLatest` | `FreshProcessServesLatest` | `OneWorkspaceEach` |
| `FinishedJobsAreHistory` | `FinishedIsHistory` | no write outlasts its wait |
| `QueuedJobsAreCarried` | `QueuedIsCarried` | neither the database nor the broker fails |
| `InsertedInTimeStaysClosable` | `OpenStaysClosable` | `InsertedInTime`: no generic submission inserts its request after the version was approved |
| `RetirementsAreClean` | `RetiredIdle`, `NoEntryOfRetired` | `RetiredAlone`: a retirement meets no deploy in flight into the Environment and no policy about to name it |
| `GatesHoldBetweenDeploys` | `GateHolds` | `GatesSetBetweenDeploys`: a gate is set while no deploy without a request is on its way |
| `FrozenSplitIsOneArtifact` | `SplitIsOneArtifact` | `PartsFrozen`: the part itself, not only the version it was split from, was validated or in validation before anything was reserved on it |
| `FittedArchiveIsFinal` | `ArchivedIsFinal` | `ArchivedFitted`: no Model is archived before it has its numbers |
| `ReportsDescribeTables` | `ReportDescribesTables` | `CheckedAlone`, `ValidatedByRuleSet`: no correction falls into a validation, and no dry run promotes |
| `SerialCorrectionsKept` | `CorrectionsKept` | `CorrectedOneByOne`: the corrections of one version follow one another |
| `SerialEventsTellBefore` | `EventTellsBefore` | `OneCompileEach`: the compiles of one version follow one another |

None of the hypotheses is vacuous: in the instances of section 3 TLC finds behaviours that
satisfy them and in which Environments are retired, gates are set, ghosts are pruned, Models
are fitted and archived, and schemas are corrected.

### Model-checked only

* `Converges` in full. That the record comes to rest at all, as every deploy adds one row and
  every COMMIT is handled once, is an induction over finitely many deploys and over a queue,
  which the provers cannot make; `ReconcilerRepairs` is what follows once it does.
* `EveryJobEnds` for more Jobs than a batch: that the older rows go away is an induction over
  the age of a row. It also needs fewer unroutable messages than `BatchSize`.
* That a guard is ENABLED of its action (`GuardsTellEnabled`).

## 5. Not modelled, and what could come next

The order in which the modules were written is that of section 2, and what follows is not in
any of them:

* The hooks of the artifacts that share the approval machine and are none of those above:
  objectives, metrics, peril structures, transformations, rules. They differ from a Model's
  in what they write, not in what they wait for.
* Rate tables and cached diffs: a version is never edited, so concurrent operations meet
  only in a unique number; a cached diff is keyed by the two contents.
* The settings resolver, shadow configurations and shadow results: appended rows of which
  the latest counts, read once per request.
* The collection of blobs, which has no caller, and the reference counts it would go by.
* The hashes of the audit chain and `verify_chain`; only who may append, and when, is there.
* Rate limits: one increment in Redis per request, in a window named by its second.
* Batches, backtests, comparisons, dislocation and regression runs: each is a Job, as in
  `Jobs`, that stores one result.
* Numerical code, Pydantic schemas, permissions, the frontend, logging and metrics, the
  scripts of the documentation: nothing in them depends on the order of events.

Worth adding: `QuoteScoring` over `DeploymentSwitch` itself instead of `GoLive`; and a
second process with a slot of its own in `QuoteScoring`, although the two would meet only in
rows that it has already.
