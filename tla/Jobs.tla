-------------------------------- MODULE Jobs --------------------------------
(***************************************************************************)
(* Jobs: submission with an idempotency key, the transactional outbox and  *)
(* its relay, the Celery broker, the worker that runs a Job, cancellation  *)
(* and progress (backend/src/app/platform/jobs.py, platform/outbox.py,     *)
(* worker/tasks.py, worker/progress.py).                                   *)
(*                                                                         *)
(* A submission is one transaction that writes the Job and its publish     *)
(* intent.  A relay claims pending intents in a transaction, publishes     *)
(* them, and marks them published when it commits.  A worker takes a       *)
(* message, reads the Job, moves it to running, runs the handler in a      *)
(* thread, moves the Job to its end, and only then acknowledges.           *)
(***************************************************************************)
EXTENDS Naturals, Sequences, FiniteSets

CONSTANTS
  Jobs,         \* submissions, each with the Job it would create
  Workers,
  Relays,
  KeyOf,        \* a submission's idempotency key within its workspace, or None
  SpecOf,       \* a submission's kind and parameters
  Unroutable,   \* Jobs whose message the broker client always refuses
  Unhandled,    \* Jobs whose kind has no registered handler
  BatchSize,    \* relay_once(batch_size)
  CopiesBound,  \* bound: waiting copies of one message
  Faults,       \* which faults may happen: all of them, or a bound on a run
  None

ASSUME JobConstants ==
  /\ Unroutable \subseteq Jobs /\ Unhandled \subseteq Jobs
  /\ BatchSize \in Nat \ {0} /\ CopiesBound \in Nat \ {0}
  /\ None \notin Jobs /\ None \notin {"succeeded", "failed", "cancelled"}

VARIABLES
  \* the submissions
  request,     \* where each one is
  answer,      \* the Job it was answered with
  \* the database
  status,      \* JobRow.status; "none" before the row is committed
  cancelling,  \* Jobs with a cancellation_requested_at
  progress,    \* JobRow.progress, as a value that changes at every write
  outbox,      \* OutboxRow.status of each Job
  created,     \* submissions in the order of their rows' created_at
  \* the relays: rows locked by a transaction, those tried, those sent
  batch, tried, sent,
  \* the broker
  ready,       \* waiting copies of each Job's message
  \* the workers
  task,        \* the Job whose message a worker holds unacknowledged
  phase,
  outcome,     \* what the worker is about to record
  writing      \* the handler's progress write: none, waited for, or given up on

requestVars == <<request, answer>>
dbVars == <<status, cancelling, progress, outbox, created>>
relayVars == <<batch, tried, sent>>
workerVars == <<task, phase, outcome, writing>>
vars == <<requestVars, dbVars, relayVars, ready, workerVars>>

-----------------------------------------------------------------------------
Terminal == {"succeeded", "failed", "cancelled"}
Statuses == {"queued", "running"} \cup Terminal

\* VALID_TRANSITIONS
CanMove(from, to) ==
  \/ from = "queued" /\ to \in {"running", "cancelled", "failed"}
  \/ from = "running" /\ to \in Terminal

Committed == {j \in Jobs : status[j] # "none"}
SameKey(i, j) == KeyOf[i] # None /\ KeyOf[i] = KeyOf[j]

TypeOK ==
  /\ request \in [Jobs -> {"new", "looked", "inserted", "answered", "conflict",
                           "mismatch", "lost"}]
  /\ answer \in [Jobs -> Jobs \cup {None}]
  /\ status \in [Jobs -> Statuses \cup {"none"}]
  /\ cancelling \subseteq Jobs
  /\ progress \in [Jobs -> BOOLEAN]
  /\ outbox \in [Jobs -> {"none", "pending", "published"}]
  /\ created \in Seq(Jobs)
  /\ batch \in [Relays -> SUBSET Jobs]
  /\ tried \in [Relays -> SUBSET Jobs]
  /\ sent \in [Relays -> SUBSET Jobs]
  /\ ready \in [Jobs -> 0..CopiesBound]
  /\ task \in [Workers -> Jobs \cup {None}]
  /\ phase \in [Workers -> {"idle", "received", "chosen", "running", "declining",
                            "ending", "returned"}]
  /\ outcome \in [Workers -> Terminal \cup {None}]
  /\ writing \in [Workers -> {"no", "waited", "late"}]
  /\ \A w \in Workers :
       /\ task[w] = None <=> phase[w] = "idle"
       /\ outcome[w] = None <=> phase[w] \notin {"declining", "ending"}

Init ==
  /\ request = [j \in Jobs |-> "new"]
  /\ answer = [j \in Jobs |-> None]
  /\ status = [j \in Jobs |-> "none"]
  /\ cancelling = {}
  /\ progress = [j \in Jobs |-> FALSE]
  /\ outbox = [j \in Jobs |-> "none"]
  /\ created = <<>>
  /\ batch = [r \in Relays |-> {}]
  /\ tried = [r \in Relays |-> {}]
  /\ sent = [r \in Relays |-> {}]
  /\ ready = [j \in Jobs |-> 0]
  /\ task = [w \in Workers |-> None]
  /\ phase = [w \in Workers |-> "idle"]
  /\ outcome = [w \in Workers |-> None]
  /\ writing = [w \in Workers |-> "no"]

-----------------------------------------------------------------------------
(* Submission: jobs.submit inside its caller's unit of work.               *)

\* _reject_if_parameters_differ
Answers_AnySpec(other, j) == SameKey(j, other)

Answers(other, j) == SameKey(j, other) /\ SpecOf[other] = SpecOf[j]

\* The look-up of the key, the first statement of the transaction.
Lookup(j) ==
  /\ request[j] = "new"
  /\ \/ /\ \A other \in Committed : ~SameKey(j, other)
        /\ request' = [request EXCEPT ![j] = "looked"]
        /\ created' = Append(created, j)
        /\ UNCHANGED answer
     \/ \E other \in Committed :
          /\ Answers(other, j)
          /\ request' = [request EXCEPT ![j] = "answered"]
          /\ answer' = [answer EXCEPT ![j] = other]
          /\ UNCHANGED created
     \/ \E other \in Committed :
          /\ SameKey(j, other) /\ ~Answers(other, j)
          /\ request' = [request EXCEPT ![j] = "mismatch"]
          /\ UNCHANGED <<answer, created>>
  /\ UNCHANGED <<status, cancelling, progress, outbox, relayVars, ready, workerVars>>

\* The flush: the unique index waits for another transaction that holds the key, and
\* refuses once that one has committed.
Insert_Unindexed(j) ==
  /\ request[j] = "looked"
  /\ request' = [request EXCEPT ![j] = "inserted"]
  /\ UNCHANGED <<answer, dbVars, relayVars, ready, workerVars>>

Insert(j) ==
  /\ request[j] = "looked"
  /\ \A other \in Jobs : request[other] = "inserted" => ~SameKey(j, other)
  /\ request' = [request EXCEPT ![j] =
                   IF \E other \in Committed : SameKey(j, other)
                     THEN "conflict" ELSE "inserted"]
  /\ UNCHANGED <<answer, dbVars, relayVars, ready, workerVars>>

\* The Job, its audit event and its publish intent commit together.
Commit(j) ==
  /\ request[j] = "inserted"
  /\ request' = [request EXCEPT ![j] = "answered"]
  /\ answer' = [answer EXCEPT ![j] = j]
  /\ status' = [status EXCEPT ![j] = "queued"]
  /\ outbox' = [outbox EXCEPT ![j] = "pending"]
  /\ UNCHANGED <<cancelling, progress, created, relayVars, ready, workerVars>>

\* The caller's unit of work raises, before or after the flush: all of it rolls back.
RollBack(j) ==
  /\ "database" \in Faults
  /\ request[j] \in {"looked", "inserted"}
  /\ request' = [request EXCEPT ![j] = "lost"]
  /\ UNCHANGED <<answer, dbVars, relayVars, ready, workerVars>>

-----------------------------------------------------------------------------
(* The relay: outbox.relay_once.                                           *)

Locked == UNION {batch[r] : r \in Relays}

Older(i, j) ==
  \E m, n \in DOMAIN created : m < n /\ created[m] = i /\ created[n] = j

Claimable_Uncommitted ==
  {j \in Jobs : request[j] = "inserted" \/ outbox[j] = "pending"} \ Locked

Claimable == {j \in Jobs : outbox[j] = "pending"} \ Locked

FirstOf(rows) == {j \in rows : Cardinality({i \in rows : Older(i, j)}) < BatchSize}

\* The oldest pending rows no other relay has locked, at most BatchSize of them.
Claim(r) ==
  /\ batch[r] = {} /\ Claimable # {}
  /\ batch' = [batch EXCEPT ![r] = FirstOf(Claimable)]
  /\ UNCHANGED <<requestVars, dbVars, tried, sent, ready, workerVars>>

Publish(r, j) ==
  /\ j \in batch[r] \ tried[r]
  /\ j \notin Unroutable /\ ready[j] < CopiesBound
  /\ ready' = [ready EXCEPT ![j] = @ + 1]
  /\ tried' = [tried EXCEPT ![r] = @ \cup {j}]
  /\ sent' = [sent EXCEPT ![r] = @ \cup {j}]
  /\ UNCHANGED <<requestVars, dbVars, batch, workerVars>>

\* The client raises; the broker may have taken the message all the same.
PublishFails(r, j) ==
  /\ j \in batch[r] \ tried[r]
  /\ \/ /\ j \in Unroutable \/ "relay" \in Faults
        /\ UNCHANGED ready
     \/ /\ j \notin Unroutable /\ "relay" \in Faults /\ ready[j] < CopiesBound
        /\ ready' = [ready EXCEPT ![j] = @ + 1]
  /\ tried' = [tried EXCEPT ![r] = @ \cup {j}]
  /\ UNCHANGED <<requestVars, dbVars, batch, sent, workerVars>>

Release(r) ==
  /\ batch' = [batch EXCEPT ![r] = {}]
  /\ tried' = [tried EXCEPT ![r] = {}]
  /\ sent' = [sent EXCEPT ![r] = {}]

Marked_All(r) == batch[r]

Marked(r) == sent[r]

CommitBatch(r) ==
  /\ batch[r] # {} /\ tried[r] = batch[r]
  /\ outbox' = [j \in Jobs |-> IF j \in Marked(r) THEN "published" ELSE outbox[j]]
  /\ Release(r)
  /\ UNCHANGED <<requestVars, status, cancelling, progress, created, ready, workerVars>>

\* The relay dies, or its commit fails: what it sent stays sent.
RelayDies(r) ==
  /\ "relay" \in Faults
  /\ batch[r] # {}
  /\ Release(r)
  /\ UNCHANGED <<requestVars, dbVars, ready, workerVars>>

-----------------------------------------------------------------------------
(* The worker: execute_job, and JobProgress for the handler it runs.       *)

Receive(w, j) ==
  /\ phase[w] = "idle" /\ ready[j] > 0
  /\ ready' = [ready EXCEPT ![j] = @ - 1]
  /\ task' = [task EXCEPT ![w] = j]
  /\ phase' = [phase EXCEPT ![w] = "received"]
  /\ UNCHANGED <<requestVars, dbVars, relayVars, outcome, writing>>

Load_NoOutcome(w) ==
  /\ phase[w] = "received"
  /\ phase' = [phase EXCEPT ![w] = IF status[task[w]] # "queued" THEN "returned"
                                   ELSE IF task[w] \in Unhandled THEN "declining"
                                   ELSE "chosen"]
  /\ UNCHANGED <<requestVars, dbVars, relayVars, ready, task, outcome, writing>>

\* The Job is read without a lock.  One that is not queued is a redelivery, ignored.  A
\* queued one is chosen, or declined: somebody asked to stop it, or no handler is
\* registered for its kind.
Load(w) ==
  LET j == task[w]
      declined == j \in cancelling \cup Unhandled IN
  /\ phase[w] = "received"
  /\ phase' = [phase EXCEPT ![w] = IF status[j] # "queued" THEN "returned"
                                   ELSE IF declined THEN "declining" ELSE "chosen"]
  /\ outcome' = [outcome EXCEPT ![w] =
                   IF status[j] # "queued" \/ ~declined THEN None
                   ELSE IF j \in cancelling THEN "cancelled" ELSE "failed"]
  /\ UNCHANGED <<requestVars, dbVars, relayVars, ready, task, writing>>

\* jobs.transition under the row's lock: refused, it raises and ends the task.
Start_Unlocked(w) ==
  /\ phase[w] = "chosen"
  /\ status' = [status EXCEPT ![task[w]] = "running"]
  /\ phase' = [phase EXCEPT ![w] = "running"]
  /\ UNCHANGED <<requestVars, cancelling, progress, outbox, created, relayVars, ready,
                 task, outcome, writing>>

Start(w) ==
  /\ phase[w] = "chosen"
  /\ IF CanMove(status[task[w]], "running")
       THEN /\ status' = [status EXCEPT ![task[w]] = "running"]
            /\ phase' = [phase EXCEPT ![w] = "running"]
       ELSE /\ phase' = [phase EXCEPT ![w] = "returned"]
            /\ UNCHANGED status
  /\ UNCHANGED <<requestVars, cancelling, progress, outbox, created, relayVars, ready,
                 task, outcome, writing>>

\* The handler reports progress, and waits for the write.
Report(w) ==
  /\ phase[w] = "running" /\ writing[w] = "no"
  /\ writing' = [writing EXCEPT ![w] = "waited"]
  /\ UNCHANGED <<requestVars, dbVars, relayVars, ready, task, phase, outcome>>

WriteProgress(w) ==
  /\ writing[w] # "no"
  /\ writing' = [writing EXCEPT ![w] = "no"]
  /\ progress' = [progress EXCEPT ![task[w]] = ~@]
  /\ UNCHANGED <<requestVars, status, cancelling, outbox, created, relayVars, ready,
                 task, phase, outcome>>

HandlerEnds(w, to) ==
  /\ phase' = [phase EXCEPT ![w] = "ending"]
  /\ outcome' = [outcome EXCEPT ![w] = to]

Finish_Unwaited(w) ==
  /\ phase[w] = "running"
  /\ \E to \in {"succeeded", "failed"} : HandlerEnds(w, to)
  /\ UNCHANGED <<requestVars, dbVars, relayVars, ready, task, writing>>

\* The handler returns, or raises: its own error, or a resource budget that is spent.
Finish(w) ==
  /\ phase[w] = "running" /\ writing[w] = "no"
  /\ \E to \in {"succeeded", "failed"} : HandlerEnds(w, to)
  /\ UNCHANGED <<requestVars, dbVars, relayVars, ready, task, writing>>

\* check_cancelled polls the row and raises JobCancelled.
ObserveCancel(w) ==
  /\ phase[w] = "running" /\ writing[w] = "no" /\ task[w] \in cancelling
  /\ HandlerEnds(w, "cancelled")
  /\ UNCHANGED <<requestVars, dbVars, relayVars, ready, task, writing>>

\* The wait for a progress write times out in the handler, which fails; the write goes on.
GiveUpWriting(w) ==
  /\ "slow_write" \in Faults
  /\ phase[w] = "running" /\ writing[w] = "waited"
  /\ HandlerEnds(w, "failed")
  /\ writing' = [writing EXCEPT ![w] = "late"]
  /\ UNCHANGED <<requestVars, dbVars, relayVars, ready, task>>

\* jobs.transition to the Job's end.
End(w) ==
  /\ phase[w] \in {"declining", "ending"}
  /\ status' = IF CanMove(status[task[w]], outcome[w])
                 THEN [status EXCEPT ![task[w]] = outcome[w]] ELSE status
  /\ phase' = [phase EXCEPT ![w] = "returned"]
  /\ outcome' = [outcome EXCEPT ![w] = None]
  /\ UNCHANGED <<requestVars, cancelling, progress, outbox, created, relayVars, ready,
                 task, writing>>

\* The task's event loop closes, and the message is acknowledged: the task is over,
\* whether it returned or raised.
Acknowledge(w) ==
  /\ phase[w] = "returned"
  /\ phase' = [phase EXCEPT ![w] = "idle"]
  /\ task' = [task EXCEPT ![w] = None]
  /\ writing' = [writing EXCEPT ![w] = "no"]
  /\ UNCHANGED <<requestVars, dbVars, relayVars, ready, outcome>>

\* The database does not answer a statement of execute_job itself: the task raises.
TaskRaises(w) ==
  /\ "database" \in Faults
  /\ phase[w] \in {"received", "chosen", "declining", "ending"}
  /\ phase' = [phase EXCEPT ![w] = "returned"]
  /\ outcome' = [outcome EXCEPT ![w] = None]
  /\ UNCHANGED <<requestVars, dbVars, relayVars, ready, task, writing>>

\* The worker process is killed: its message goes back to the queue.
WorkerDies(w) ==
  /\ "worker" \in Faults
  /\ phase[w] # "idle" /\ ready[task[w]] < CopiesBound
  /\ ready' = [ready EXCEPT ![task[w]] = @ + 1]
  /\ phase' = [phase EXCEPT ![w] = "idle"]
  /\ task' = [task EXCEPT ![w] = None]
  /\ outcome' = [outcome EXCEPT ![w] = None]
  /\ writing' = [writing EXCEPT ![w] = "no"]
  /\ UNCHANGED <<requestVars, dbVars, relayVars>>

\* The broker's visibility timeout: a message still unacknowledged is delivered again.
Redeliver(w) ==
  /\ "timeout" \in Faults
  /\ phase[w] # "idle" /\ ready[task[w]] < CopiesBound
  /\ ready' = [ready EXCEPT ![task[w]] = @ + 1]
  /\ UNCHANGED <<requestVars, dbVars, relayVars, workerVars>>

\* Redis restarts: it keeps nothing on disk.
BrokerRestarts ==
  /\ "broker" \in Faults
  /\ \E j \in Jobs : ready[j] > 0
  /\ ready' = [j \in Jobs |-> 0]
  /\ UNCHANGED <<requestVars, dbVars, relayVars, workerVars>>

-----------------------------------------------------------------------------
(* Cancellation: jobs.request_cancellation.                                *)

\* A queued Job is cancelled at once; a running one is marked.
Cancel(j) ==
  /\ status[j] \in {"queued", "running"}
  /\ cancelling' = cancelling \cup {j}
  /\ status' = [status EXCEPT ![j] = IF @ = "queued" THEN "cancelled" ELSE @]
  /\ UNCHANGED <<requestVars, progress, outbox, created, relayVars, ready, workerVars>>

-----------------------------------------------------------------------------
SubmitStep(j) == Lookup(j) \/ Insert(j) \/ Commit(j) \/ RollBack(j)

RelayStep(r) ==
  \/ Claim(r) \/ CommitBatch(r) \/ RelayDies(r)
  \/ \E j \in Jobs : Publish(r, j) \/ PublishFails(r, j)

WorkerStep(w) ==
  \/ \E j \in Jobs : Receive(w, j)
  \/ Load(w) \/ Start(w) \/ Report(w) \/ WriteProgress(w) \/ Finish(w)
  \/ ObserveCancel(w) \/ GiveUpWriting(w) \/ End(w) \/ Acknowledge(w)
  \/ TaskRaises(w) \/ WorkerDies(w) \/ Redeliver(w)

Next ==
  \/ \E j \in Jobs : SubmitStep(j) \/ Cancel(j)
  \/ \E r \in Relays : RelayStep(r)
  \/ \E w \in Workers : WorkerStep(w)
  \/ BrokerRestarts

Spec == Init /\ [][Next]_vars

SomePublish(j) == \E r \in Relays : Publish(r, j)
SomeReceive(j) == \E w \in Workers : Receive(w, j)

\* The relay runs every second; the broker's queues are first in, first out, so a waiting
\* message is not passed over for ever; a worker runs what it took; a handler ends, as its
\* budget sees to it.  A relay may die and a publish may fail, but not every time.
FairSpec ==
  /\ Spec
  /\ \A r \in Relays :
       /\ SF_vars(Claim(r)) /\ SF_vars(CommitBatch(r))
       /\ \A j \in Jobs : SF_vars(PublishFails(r, j))
  /\ \A j \in Jobs :
       /\ SF_vars(SomePublish(j))
       /\ SF_vars(SomeReceive(j))
  /\ \A w \in Workers :
       /\ WF_vars(Load(w)) /\ WF_vars(Start(w)) /\ WF_vars(WriteProgress(w))
       /\ SF_vars(Finish(w)) /\ WF_vars(End(w)) /\ WF_vars(Acknowledge(w))

\* The states these steps can happen in, read off their guards.
CanClaim(r) == batch[r] = {} /\ Claimable # {}

CanPublish(j) ==
  /\ j \notin Unroutable /\ ready[j] < CopiesBound
  /\ \E r \in Relays : j \in batch[r] \ tried[r]

CanReceive(j) == ready[j] > 0 /\ \E w \in Workers : phase[w] = "idle"

CanFinish(w) == phase[w] = "running" /\ writing[w] = "no"

CanEnd(w) == phase[w] \in {"declining", "ending"}

\* They are the states the steps are enabled in: what relates the two forms of fairness.
GuardsTellEnabled ==
  /\ \A r \in Relays : CanClaim(r) <=> ENABLED <<Claim(r)>>_vars
  /\ \A j \in Jobs :
       /\ CanPublish(j) <=> ENABLED <<SomePublish(j)>>_vars
       /\ CanReceive(j) <=> ENABLED <<SomeReceive(j)>>_vars
  /\ \A w \in Workers :
       /\ phase[w] = "received" <=> ENABLED <<Load(w)>>_vars
       /\ phase[w] = "chosen" <=> ENABLED <<Start(w)>>_vars
       /\ writing[w] # "no" <=> ENABLED <<WriteProgress(w)>>_vars
       /\ CanFinish(w) <=> ENABLED <<Finish(w)>>_vars
       /\ CanEnd(w) <=> ENABLED <<End(w)>>_vars
       /\ phase[w] = "returned" <=> ENABLED <<Acknowledge(w)>>_vars

\* What FairSpec says of claims, publishes and workers, with the guards in the place of ENABLED.
GuardedFairness ==
  /\ \A r \in Relays : []<>CanClaim(r) => []<><<Claim(r)>>_vars
  /\ \A j \in Jobs :
       /\ []<>CanPublish(j) => []<><<SomePublish(j)>>_vars
       /\ []<>CanReceive(j) => []<><<SomeReceive(j)>>_vars
  /\ \A w \in Workers :
       /\ <>[](phase[w] = "received") => []<><<Load(w)>>_vars
       /\ <>[](phase[w] = "chosen") => []<><<Start(w)>>_vars
       /\ <>[](writing[w] # "no") => []<><<WriteProgress(w)>>_vars
       /\ []<>CanFinish(w) => []<><<Finish(w)>>_vars
       /\ <>[]CanEnd(w) => []<><<End(w)>>_vars
       /\ <>[](phase[w] = "returned") => []<><<Acknowledge(w)>>_vars

\* What it says of the rest of the relay: each call of relay_once ends, as it tries the rows
\* of a finite batch one by one.
RelaysComeRound == \A r \in Relays : []<>(batch[r] = {})

-----------------------------------------------------------------------------
(* Safety.                                                                 *)

Runs(w, j) == phase[w] = "running" /\ task[w] = j

\* What this module implements: JobLifecycle.  In particular two deliveries of one message
\* never make two runs (worker/tasks.py, "a no-op, not a second run"), and a key names one
\* Job for ever.
Lifecycle == INSTANCE JobLifecycle
  WITH runners <- [j \in Jobs |-> {w \in Workers : Runs(w, j)}]
ImplementsJobLifecycle == Lifecycle!Spec

\* FR-404: submissions answered under one key were answered with one Job, the Job of that
\* key, whose kind and parameters are what each of them asked for.
OneAnswerPerKey ==
  \A i, j \in Jobs :
    request[i] = "answered" /\ request[j] = "answered" /\ (SameKey(i, j) \/ i = j) =>
      answer[i] = answer[j] /\ SpecOf[answer[i]] = SpecOf[i] /\ answer[i] \in Committed

\* FR-406: the broker and the workers only ever hold messages of committed Jobs.
CommittedBeforePublished ==
  \A j \in Jobs :
    ready[j] > 0 \/ (\E w \in Workers : task[w] = j) => status[j] # "none"

\* platform/outbox.py, at-least-once: a queued Job is never without a way to a worker: a
\* pending intent, a waiting message, or a worker that has it.
QueuedIsCarried ==
  \A j \in Jobs : status[j] = "queued" =>
    \/ outbox[j] = "pending" \/ ready[j] > 0
    \/ \E w \in Workers : task[w] = j /\ phase[w] # "returned"

\* model_schema/jobs.py: "A Job that has finished is a historical record ... and a record
\* that can still change is not provenance."
FinishedIsHistory ==
  [][\A j \in Jobs : status[j] \in Terminal =>
       status'[j] = status[j] /\ progress'[j] = progress[j]]_vars

-----------------------------------------------------------------------------
(* Liveness.                                                               *)

\* A Job that was accepted reaches an end, as long as fewer messages than a batch are
\* unroutable: redeliveries, relays that die and cancellations notwithstanding.
EveryJobEnds ==
  \A j \in Jobs \ Unroutable : status[j] = "queued" ~> status[j] \in Terminal
=============================================================================
