----------------------------- MODULE JobsProofs ----------------------------
(***************************************************************************)
(* What Jobs guarantees for any number of submissions, workers and relays, *)
(* and any faults.                                                         *)
(***************************************************************************)
EXTENDS Jobs, FiniteSetTheorems, TLAPS

-----------------------------------------------------------------------------
(* Type correctness.                                                       *)

\* The variables are typed before anything is submitted.
LEMMA TypeInit == Init => TypeOK
BY JobConstants DEF Init, TypeOK

\* No statement of a submission breaks a type.
LEMMA TypeSubmit ==
  ASSUME TypeOK, NEW j \in Jobs, SubmitStep(j) \/ Cancel(j)
  PROVE  TypeOK'
<1> USE DEF TypeOK, requestVars, dbVars, relayVars, workerVars
<1>1. CASE Lookup(j)
  <2>1. answer' \in [Jobs -> Jobs \cup {None}]
    BY <1>1 DEF Lookup, Committed
  <2>2. \E s \in {"looked", "answered", "mismatch"} : request' = [request EXCEPT ![j] = s]
    BY <1>1 DEF Lookup
  <2>3. created' = created \/ created' = Append(created, j)
    BY <1>1 DEF Lookup
  <2>4. Append(created, j) \in Seq(Jobs)
    OBVIOUS
  <2>5. request' \in [Jobs -> {"new", "looked", "inserted", "answered", "conflict",
                              "mismatch", "lost"}]
    BY <2>2
  <2>6. created' \in Seq(Jobs)
    BY <2>3, <2>4
  <2> QED BY <1>1, <2>1, <2>5, <2>6 DEF Lookup
<1>2. CASE Insert(j)
  BY <1>2 DEF Insert
<1>3. CASE Commit(j)
  BY <1>3 DEF Commit, Statuses
<1>4. CASE RollBack(j)
  BY <1>4 DEF RollBack
<1>5. CASE Cancel(j)
  BY <1>5 DEF Cancel, Statuses, Terminal
<1> QED BY <1>1, <1>2, <1>3, <1>4, <1>5 DEF SubmitStep

\* No step of a relay breaks a type.
LEMMA TypeRelay ==
  ASSUME TypeOK, NEW r \in Relays, RelayStep(r)
  PROVE  TypeOK'
<1> USE JobConstants DEF TypeOK, requestVars, dbVars, relayVars, workerVars
<1>1. CASE Claim(r)
  <2>1. FirstOf(Claimable) \in SUBSET Jobs
    BY DEF FirstOf, Claimable
  <2> QED BY <1>1, <2>1 DEF Claim
<1>2. CASE CommitBatch(r)
  BY <1>2 DEF CommitBatch, Release
<1>3. CASE RelayDies(r)
  BY <1>3 DEF RelayDies, Release
<1>4. ASSUME NEW j \in Jobs, Publish(r, j) PROVE TypeOK'
  <2>1. ready[j] + 1 \in 0..CopiesBound
    BY <1>4 DEF Publish
  <2> QED BY <1>4, <2>1 DEF Publish
<1>5. ASSUME NEW j \in Jobs, PublishFails(r, j) PROVE TypeOK'
  <2>1. ready[j] < CopiesBound => ready[j] + 1 \in 0..CopiesBound
    OBVIOUS
  <2>2. UNCHANGED ready \/ (ready[j] < CopiesBound /\ ready' = [ready EXCEPT ![j] = @ + 1])
    BY <1>5 DEF PublishFails
  <2>3. ready \in [Jobs -> 0..CopiesBound]
    OBVIOUS
  <2>4. ready' \in [Jobs -> 0..CopiesBound]
    <3> HIDE DEF TypeOK
    <3>1. CASE UNCHANGED ready
      BY <2>3, <3>1
    <3>2. CASE ready[j] < CopiesBound /\ ready' = [ready EXCEPT ![j] = @ + 1]
      BY <2>1, <2>3, <3>2
    <3> QED BY <2>2, <3>1, <3>2
  <2> QED BY <1>5, <2>4 DEF PublishFails
<1> QED BY <1>1, <1>2, <1>3, <1>4, <1>5 DEF RelayStep

\* A worker between messages holds none, and one that is about to record an outcome has one.
WorkerShape(v) ==
  /\ task[v] = None <=> phase[v] = "idle"
  /\ outcome[v] = None <=> phase[v] \notin {"declining", "ending"}

WorkerTypes ==
  /\ status \in [Jobs -> Statuses \cup {"none"}]
  /\ progress \in [Jobs -> BOOLEAN]
  /\ ready \in [Jobs -> 0..CopiesBound]
  /\ task \in [Workers -> Jobs \cup {None}]
  /\ phase \in [Workers -> {"idle", "received", "chosen", "running", "declining",
                            "ending", "returned"}]
  /\ outcome \in [Workers -> Terminal \cup {None}]
  /\ writing \in [Workers -> {"no", "waited", "late"}]

\* The variables a worker's step changes keep their types.
LEMMA WorkerKeepsTypes ==
  ASSUME TypeOK, NEW w \in Workers, WorkerStep(w)
  PROVE  WorkerTypes'
<1>0. WorkerTypes /\ WorkerShape(w)
  BY DEF TypeOK, WorkerTypes, WorkerShape
<1> USE <1>0, JobConstants DEF WorkerTypes, WorkerShape, dbVars, workerVars
<1>1. ASSUME NEW j \in Jobs, Receive(w, j) PROVE WorkerTypes'
  <2>1. ready[j] - 1 \in 0..CopiesBound
    BY <1>1 DEF Receive
  <2> QED BY <1>1, <2>1 DEF Receive
<1>2. CASE Load(w)
  BY <1>2 DEF Load, Terminal
<1>3. CASE Start(w)
  <2>1. status' \in [Jobs -> Statuses \cup {"none"}]
    BY <1>3 DEF Start, Statuses
  <2>2. phase' \in [Workers -> {"idle", "received", "chosen", "running", "declining",
                               "ending", "returned"}]
    BY <1>3 DEF Start
  <2> QED BY <1>3, <2>1, <2>2 DEF Start
<1>4. CASE Report(w)
  BY <1>4 DEF Report
<1>5. CASE WriteProgress(w)
  BY <1>5 DEF WriteProgress
<1>6. CASE Finish(w)
  BY <1>6 DEF Finish, HandlerEnds, Terminal
<1>7. CASE ObserveCancel(w)
  BY <1>7 DEF ObserveCancel, HandlerEnds, Terminal
<1>8. CASE GiveUpWriting(w)
  BY <1>8 DEF GiveUpWriting, HandlerEnds, Terminal
<1>9. CASE End(w)
  <2>1. outcome[w] \in Statuses
    BY <1>9 DEF End, Statuses
  <2>2. status' \in [Jobs -> Statuses \cup {"none"}]
    BY <1>9, <2>1 DEF End
  <2> QED BY <1>9, <2>2 DEF End
<1>10. CASE Acknowledge(w)
  BY <1>10 DEF Acknowledge
<1>11. CASE TaskRaises(w)
  BY <1>11 DEF TaskRaises
<1>12. CASE WorkerDies(w) \/ Redeliver(w)
  <2>1. task[w] \in Jobs
    BY <1>12 DEF WorkerDies, Redeliver
  <2>2. ready[task[w]] + 1 \in 0..CopiesBound
    BY <1>12, <2>1 DEF WorkerDies, Redeliver
  <2> QED BY <1>12, <2>1, <2>2 DEF WorkerDies, Redeliver
<1> QED BY <1>1, <1>2, <1>3, <1>4, <1>5, <1>6, <1>7, <1>8, <1>9, <1>10, <1>11, <1>12
        DEF WorkerStep

\* A worker's step leaves it, and every other worker, in one of execute_job's situations.
LEMMA WorkerKeepsShape ==
  ASSUME TypeOK, NEW w \in Workers, WorkerStep(w), NEW v \in Workers
  PROVE  WorkerShape(v)'
<1>0. WorkerTypes /\ WorkerShape(v) /\ WorkerShape(w) /\ None \notin Terminal /\ None \notin Jobs
  BY JobConstants DEF TypeOK, WorkerTypes, WorkerShape, Terminal
<1>1. CASE v # w
  <2>1. task'[v] = task[v] /\ phase'[v] = phase[v] /\ outcome'[v] = outcome[v]
    BY <1>0, <1>1
       DEF WorkerStep, Receive, Load, Start, Report, WriteProgress, Finish, ObserveCancel,
           GiveUpWriting, HandlerEnds, End, Acknowledge, TaskRaises, WorkerDies, Redeliver,
           WorkerTypes, workerVars
  <2> QED BY <1>0, <2>1 DEF WorkerShape
<1>2. CASE v = w
  <2>0. WorkerTypes /\ WorkerShape(w) /\ None \notin Terminal /\ None \notin Jobs
    BY <1>0
  <2> SUFFICES WorkerShape(w)'
    BY <1>2
  <2> HIDE <1>0
  <2> USE <2>0 DEF WorkerTypes, WorkerShape, workerVars
  <2>1. ASSUME NEW j \in Jobs, Receive(w, j) PROVE WorkerShape(w)'
    BY <2>1 DEF Receive
  <2>2. CASE Load(w)
    BY <2>2 DEF Load, Terminal
  <2>3. CASE Start(w)
    BY <2>3 DEF Start
  <2>4. CASE Report(w) \/ WriteProgress(w) \/ Redeliver(w)
    BY <2>4 DEF Report, WriteProgress, Redeliver
  <2>5. CASE Finish(w) \/ ObserveCancel(w) \/ GiveUpWriting(w)
    BY <2>5 DEF Finish, ObserveCancel, GiveUpWriting, HandlerEnds, Terminal
  <2>6. CASE End(w) \/ TaskRaises(w)
    BY <2>6 DEF End, TaskRaises
  <2>7. CASE Acknowledge(w) \/ WorkerDies(w)
    BY <2>7 DEF Acknowledge, WorkerDies
  <2> QED BY <2>1, <2>2, <2>3, <2>4, <2>5, <2>6, <2>7 DEF WorkerStep
<1> QED BY <1>1, <1>2

\* No step of a worker breaks a type.
LEMMA TypeWorker ==
  ASSUME TypeOK, NEW w \in Workers, WorkerStep(w)
  PROVE  TypeOK'
<1>1. WorkerTypes' /\ \A v \in Workers : WorkerShape(v)'
  BY WorkerKeepsTypes, WorkerKeepsShape
<1>2. UNCHANGED <<request, answer, cancelling, outbox, created, batch, tried, sent>>
  BY DEF WorkerStep, Receive, Load, Start, Report, WriteProgress, Finish, ObserveCancel,
         GiveUpWriting, HandlerEnds, End, Acknowledge, TaskRaises, WorkerDies, Redeliver,
         requestVars, dbVars, relayVars
<1> QED BY <1>1, <1>2 DEF TypeOK, WorkerTypes, WorkerShape

\* Type correctness is inductive.
LEMMA TypeStep == TypeOK /\ [Next]_vars => TypeOK'
<1> SUFFICES ASSUME TypeOK, [Next]_vars PROVE TypeOK'
  OBVIOUS
<1>1. CASE BrokerRestarts
  BY <1>1, JobConstants
     DEF BrokerRestarts, TypeOK, requestVars, dbVars, relayVars, workerVars
<1>2. CASE UNCHANGED vars
  BY <1>2 DEF vars, TypeOK, requestVars, dbVars, relayVars, workerVars
<1> QED BY <1>1, <1>2, TypeSubmit, TypeRelay, TypeWorker DEF Next

\* Every variable keeps its type in every reachable state; in particular a worker that is
\* about to record an outcome has one (worker/tasks.py, execute_job).
THEOREM TypeCorrect == Spec => []TypeOK
BY TypeInit, TypeStep, PTL DEF Spec

-----------------------------------------------------------------------------
(* One Job per idempotency key.                                            *)

\* A submission that the unique index sees: inserted, or committed.
Holding(j) == request[j] = "inserted" \/ status[j] # "none"

OwnJob ==
  \A j \in Jobs : status[j] # "none" <=> request[j] = "answered" /\ answer[j] = j

AnswersFit ==
  \A j \in Jobs : request[j] = "answered" =>
    /\ answer[j] \in Committed
    /\ answer[j] = j \/ (SameKey(j, answer[j]) /\ SpecOf[answer[j]] = SpecOf[j])

KeysHeldOnce ==
  \A i, j \in Jobs : SameKey(i, j) /\ Holding(i) /\ Holding(j) => i = j

SubmissionInv == OwnJob /\ AnswersFit /\ KeysHeldOnce

\* Before any submission no key is held.
LEMMA SubmissionInit == Init => SubmissionInv
BY DEF Init, SubmissionInv, OwnJob, AnswersFit, KeysHeldOnce, Holding

\* A Job only comes to exist by the commit of its submission, and never ceases to.
LEMMA CommittedStable ==
  ASSUME TypeOK, \/ \E w \in Workers : WorkerStep(w)
                 \/ \E j \in Jobs : Cancel(j)
                 \/ \E r \in Relays : RelayStep(r)
                 \/ BrokerRestarts \/ UNCHANGED vars
  PROVE  \A j \in Jobs : status'[j] = "none" <=> status[j] = "none"
<1> USE DEF dbVars
<1>1. status \in [Jobs -> Statuses \cup {"none"}]
  BY DEF TypeOK
<1>2. ASSUME NEW w \in Workers, WorkerStep(w)
      PROVE  \A j \in Jobs : status'[j] = "none" <=> status[j] = "none"
  <2>1. CASE Start(w)
    BY <1>1, <2>1 DEF Start, CanMove, Terminal
  <2>2. CASE End(w)
    BY <1>1, <2>2 DEF End, CanMove, Terminal
  <2>3. CASE ~Start(w) /\ ~End(w)
    BY <1>2, <2>3 DEF WorkerStep, Receive, Load, Report, WriteProgress, Finish, ObserveCancel,
       GiveUpWriting, Acknowledge, TaskRaises, WorkerDies, Redeliver
  <2> QED BY <2>1, <2>2, <2>3
<1>3. ASSUME NEW j \in Jobs, Cancel(j)
      PROVE  \A i \in Jobs : status'[i] = "none" <=> status[i] = "none"
  BY <1>1, <1>3 DEF Cancel
<1>4. ASSUME NEW r \in Relays, RelayStep(r) PROVE UNCHANGED status
  BY <1>4 DEF RelayStep, Claim, CommitBatch, RelayDies, Publish, PublishFails
<1>5. CASE BrokerRestarts \/ UNCHANGED vars
  BY <1>5 DEF BrokerRestarts, vars
<1> QED BY <1>2, <1>3, <1>4, <1>5

\* Nothing but the submissions themselves moves a submission.
LEMMA RequestsStable ==
  ASSUME \/ \E w \in Workers : WorkerStep(w)
         \/ \E j \in Jobs : Cancel(j)
         \/ \E r \in Relays : RelayStep(r)
         \/ BrokerRestarts \/ UNCHANGED vars
  PROVE  UNCHANGED <<request, answer>>
<1> USE DEF requestVars
<1>1. ASSUME NEW w \in Workers, WorkerStep(w) PROVE UNCHANGED <<request, answer>>
  BY <1>1 DEF WorkerStep, Receive, Load, Start, Report, WriteProgress, Finish, ObserveCancel,
     GiveUpWriting, End, Acknowledge, TaskRaises, WorkerDies, Redeliver
<1>2. ASSUME NEW r \in Relays, RelayStep(r) PROVE UNCHANGED <<request, answer>>
  BY <1>2 DEF RelayStep, Claim, CommitBatch, RelayDies, Publish, PublishFails
<1> QED BY <1>1, <1>2 DEF Cancel, BrokerRestarts, vars

\* Steps that neither commit a Job nor move a submission keep the keys as they are.
LEMMA SubmissionStable ==
  ASSUME SubmissionInv, UNCHANGED <<request, answer>>,
         TypeOK, \A j \in Jobs : status'[j] = "none" <=> status[j] = "none"
  PROVE  SubmissionInv'
<1>1. OwnJob'
  BY DEF SubmissionInv, OwnJob
<1>2. Committed' = Committed
  BY DEF Committed
<1>3. AnswersFit'
  BY <1>2 DEF SubmissionInv, AnswersFit, SameKey
<1>4. \A j \in Jobs : Holding(j)' <=> Holding(j)
  BY DEF Holding
<1>5. KeysHeldOnce'
  BY <1>4 DEF SubmissionInv, KeysHeldOnce, SameKey
<1> QED BY <1>1, <1>3, <1>5 DEF SubmissionInv

\* The look-up answers with the Job of the key only what asks for the same work; the unique
\* index lets one transaction at a time hold a key, and none once it is taken.
LEMMA SubmissionStep ==
  ASSUME TypeOK, SubmissionInv, NEW j \in Jobs, SubmitStep(j)
  PROVE  SubmissionInv'
<1>0. /\ request \in [Jobs -> {"new", "looked", "inserted", "answered", "conflict",
                              "mismatch", "lost"}]
      /\ answer \in [Jobs -> Jobs \cup {None}]
      /\ status \in [Jobs -> Statuses \cup {"none"}]
      /\ OwnJob /\ AnswersFit /\ KeysHeldOnce
  BY DEF TypeOK, SubmissionInv
<1>1. CASE Commit(j)
  <2>1. /\ request[j] = "inserted" /\ request' = [request EXCEPT ![j] = "answered"]
        /\ answer' = [answer EXCEPT ![j] = j] /\ status' = [status EXCEPT ![j] = "queued"]
    BY <1>1 DEF Commit
  <2>2. OwnJob'
    BY <1>0, <2>1 DEF OwnJob
  <2>3. Committed' = Committed \cup {j}
    BY <1>0, <2>1 DEF Committed
  <2>4. AnswersFit'
    BY <1>0, <2>1, <2>3 DEF AnswersFit, SameKey
  <2>5. \A i \in Jobs : Holding(i)' => Holding(i)
    BY <1>0, <2>1 DEF Holding
  <2>6. KeysHeldOnce'
    BY <1>0, <2>5 DEF KeysHeldOnce, SameKey
  <2> QED BY <2>2, <2>4, <2>6 DEF SubmissionInv
<1>2. CASE Insert(j)
  <2>1. /\ request[j] = "looked" /\ UNCHANGED <<answer, status>>
        /\ \A other \in Jobs : request[other] = "inserted" => ~SameKey(j, other)
        /\ request' = [request EXCEPT ![j] =
                         IF \E other \in Committed : SameKey(j, other)
                           THEN "conflict" ELSE "inserted"]
    BY <1>2 DEF Insert, dbVars
  <2>2. OwnJob'
    BY <1>0, <2>1 DEF OwnJob
  <2>3. AnswersFit'
    BY <1>0, <2>1 DEF AnswersFit, SameKey, Committed
  <2>4. KeysHeldOnce'
    <3> SUFFICES ASSUME NEW a \in Jobs, NEW b \in Jobs, SameKey(a, b), Holding(a)',
                        Holding(b)', a # b
                 PROVE  FALSE
      BY DEF KeysHeldOnce, SameKey
    <3>1. \A i \in Jobs : i # j => (Holding(i)' <=> Holding(i))
      BY <1>0, <2>1 DEF Holding
    <3>2. ASSUME NEW i \in Jobs, SameKey(j, i), i # j, Holding(i), Holding(j)' PROVE FALSE
      BY <1>0, <2>1, <3>2 DEF Holding, Committed, OwnJob
    <3>3. SameKey(b, a)
      BY DEF SameKey
    <3> QED BY <1>0, <3>1, <3>2, <3>3 DEF KeysHeldOnce
  <2> QED BY <2>2, <2>3, <2>4 DEF SubmissionInv
<1>3. CASE Lookup(j) \/ RollBack(j)
  <2>1. /\ request[j] \in {"new", "looked", "inserted"} /\ UNCHANGED status
        /\ \/ /\ \E s \in {"looked", "mismatch", "lost"} :
                  request' = [request EXCEPT ![j] = s]
              /\ UNCHANGED answer
           \/ \E other \in Committed :
                /\ Answers(other, j)
                /\ request' = [request EXCEPT ![j] = "answered"]
                /\ answer' = [answer EXCEPT ![j] = other]
    BY <1>3 DEF Lookup, RollBack, dbVars
  <2>2. Committed' = Committed /\ Committed \subseteq Jobs
    BY <2>1 DEF Committed
  <2>3. j \notin Committed
    BY <1>0, <2>1 DEF OwnJob, Committed
  <2>4. OwnJob'
    BY <1>0, <2>1, <2>2, <2>3 DEF OwnJob, Committed
  <2>5. AnswersFit'
    BY <1>0, <2>1, <2>2 DEF AnswersFit, SameKey, Answers
  <2>6. \A i \in Jobs : Holding(i)' => Holding(i)
    BY <1>0, <2>1 DEF Holding
  <2>7. KeysHeldOnce'
    BY <1>0, <2>6 DEF KeysHeldOnce, SameKey
  <2> QED BY <2>4, <2>5, <2>7 DEF SubmissionInv
<1> QED BY <1>1, <1>2, <1>3 DEF SubmitStep

\* The invariant of the submissions is inductive.
LEMMA SubmissionNext == TypeOK /\ SubmissionInv /\ [Next]_vars => SubmissionInv'
<1> SUFFICES ASSUME TypeOK, SubmissionInv, [Next]_vars PROVE SubmissionInv'
  OBVIOUS
<1>1. CASE \E j \in Jobs : SubmitStep(j)
  BY <1>1, SubmissionStep
<1>2. CASE ~\E j \in Jobs : SubmitStep(j)
  BY <1>2, CommittedStable, RequestsStable, SubmissionStable DEF Next
<1> QED BY <1>1, <1>2

\* FR-404: submissions answered under one key name one Job, of the kind and parameters each
\* of them asked for (jobs.submit and the unique index behind it).
THEOREM KeyNamesOneJob == Spec => []OneAnswerPerKey
<1>1. SubmissionInv => OneAnswerPerKey
  <2> SUFFICES ASSUME SubmissionInv, NEW i \in Jobs, NEW j \in Jobs,
                      request[i] = "answered", request[j] = "answered",
                      SameKey(i, j) \/ i = j
               PROVE  /\ answer[i] = answer[j] /\ SpecOf[answer[i]] = SpecOf[i]
                      /\ answer[i] \in Committed
    BY DEF OneAnswerPerKey
  <2>1. /\ answer[i] \in Committed /\ answer[j] \in Committed
        /\ SpecOf[answer[i]] = SpecOf[i]
        /\ answer[i] = i \/ SameKey(i, answer[i])
        /\ answer[j] = j \/ SameKey(j, answer[j])
    BY DEF SubmissionInv, AnswersFit
  <2>2. ASSUME SameKey(i, j) PROVE answer[i] = answer[j]
    <3>1. SameKey(answer[i], answer[j])
      BY <2>1, <2>2 DEF SameKey
    <3> QED BY <2>1, <3>1 DEF SubmissionInv, KeysHeldOnce, Holding, Committed
  <2> QED BY <2>1, <2>2
<1>2. Init => TypeOK /\ SubmissionInv
  BY TypeInit, SubmissionInit
<1>3. TypeOK /\ SubmissionInv /\ [Next]_vars => (TypeOK /\ SubmissionInv)'
  BY TypeStep, SubmissionNext
<1> QED BY <1>1, <1>2, <1>3, PTL DEF Spec

-----------------------------------------------------------------------------
(* Nothing is published before it is committed.                            *)

MessageInv ==
  /\ \A j \in Jobs : outbox[j] # "none" => status[j] # "none"
  /\ \A r \in Relays : sent[r] \subseteq batch[r] /\ batch[r] \subseteq Committed
  /\ \A j \in Jobs : ready[j] > 0 => status[j] # "none"
  /\ \A w \in Workers : task[w] # None => task[w] \in Committed

\* Before any submission there is nothing to publish.
LEMMA MessageInit == Init => MessageInv
BY DEF Init, MessageInv

\* A relay claims only rows that are committed, and sends only what it claimed.
LEMMA MessageRelay ==
  ASSUME TypeOK, MessageInv, NEW r \in Relays, RelayStep(r)
  PROVE  MessageInv'
<1>0. /\ batch \in [Relays -> SUBSET Jobs] /\ sent \in [Relays -> SUBSET Jobs]
      /\ ready \in [Jobs -> 0..CopiesBound]
      /\ UNCHANGED <<status, task>> /\ Committed' = Committed
  BY DEF TypeOK, RelayStep, Claim, CommitBatch, RelayDies, Publish, PublishFails, Committed,
         dbVars, workerVars
<1> USE DEF MessageInv
<1>1. CASE Claim(r)
  <2>1. FirstOf(Claimable) \subseteq Committed
    BY DEF FirstOf, Claimable, Committed
  <2> QED BY <1>0, <1>1, <2>1 DEF Claim, dbVars
<1>2. CASE CommitBatch(r)
  <2>1. \A j \in Jobs : outbox'[j] # "none" => outbox[j] # "none" \/ j \in sent[r]
    BY <1>2 DEF CommitBatch, Marked
  <2>2. \A j \in Jobs : outbox'[j] # "none" => status'[j] # "none"
    BY <1>0, <2>1 DEF Committed
  <2>3. \A q \in Relays : sent'[q] \subseteq batch'[q] /\ batch'[q] \subseteq Committed'
    BY <1>0, <1>2 DEF CommitBatch, Release
  <2>4. UNCHANGED <<ready, task>>
    BY <1>2 DEF CommitBatch, workerVars
  <2> QED BY <1>0, <2>2, <2>3, <2>4
<1>3. CASE RelayDies(r)
  BY <1>0, <1>3 DEF RelayDies, Release, dbVars
<1>4. ASSUME NEW j \in Jobs, Publish(r, j) \/ PublishFails(r, j) PROVE MessageInv'
  <2>1. j \in Committed /\ j \in batch[r] /\ UNCHANGED <<outbox, batch>>
        /\ (UNCHANGED sent \/ sent' = [sent EXCEPT ![r] = @ \cup {j}])
    BY <1>4 DEF Publish, PublishFails, dbVars
  <2>2. \A i \in Jobs : i # j => ready'[i] = ready[i]
    BY <1>0, <1>4 DEF Publish, PublishFails
  <2> QED BY <1>0, <2>1, <2>2 DEF Committed
<1> QED BY <1>1, <1>2, <1>3, <1>4 DEF RelayStep

\* A worker holds only messages that were waiting, and gives back only what it held.
LEMMA MessageWorker ==
  ASSUME TypeOK, MessageInv, NEW w \in Workers, WorkerStep(w)
  PROVE  MessageInv'
<1>0. /\ ready \in [Jobs -> 0..CopiesBound] /\ task \in [Workers -> Jobs \cup {None}]
      /\ UNCHANGED <<outbox, batch, sent>>
  BY DEF TypeOK, WorkerStep, Receive, Load, Start, Report, WriteProgress, Finish,
         ObserveCancel, GiveUpWriting, End, Acknowledge, TaskRaises, WorkerDies, Redeliver,
         dbVars, relayVars
<1>1. \A j \in Jobs : status'[j] = "none" <=> status[j] = "none"
  BY CommittedStable
<1>2. Committed' = Committed
  BY <1>1 DEF Committed
<1>3. ASSUME NEW j \in Jobs, ready'[j] > 0 PROVE ready[j] > 0 \/ task[w] = j
  <2>1. ASSUME NEW i \in Jobs, Receive(w, i) PROVE ready[j] > 0
    BY <1>0, <1>3, <2>1 DEF Receive
  <2>2. CASE WorkerDies(w) \/ Redeliver(w)
    BY <1>0, <1>3, <2>2 DEF WorkerDies, Redeliver
  <2>3. CASE ~WorkerDies(w) /\ ~Redeliver(w) /\ ~\E i \in Jobs : Receive(w, i)
    BY <1>3, <2>3 DEF WorkerStep, Load, Start, Report, WriteProgress, Finish, ObserveCancel,
       GiveUpWriting, End, Acknowledge, TaskRaises
  <2> QED BY <2>1, <2>2, <2>3
<1>4. ASSUME NEW v \in Workers, task'[v] # None
      PROVE  task'[v] = task[v] \/ (task'[v] \in Jobs /\ ready[task'[v]] > 0)
  <2>1. ASSUME NEW i \in Jobs, Receive(w, i)
        PROVE  task'[v] = task[v] \/ (task'[v] \in Jobs /\ ready[task'[v]] > 0)
    BY <1>0, <2>1 DEF Receive
  <2>2. CASE Acknowledge(w) \/ WorkerDies(w)
    BY <1>0, <1>4, <2>2 DEF Acknowledge, WorkerDies
  <2>3. CASE ~Acknowledge(w) /\ ~WorkerDies(w) /\ ~\E i \in Jobs : Receive(w, i)
    BY <2>3 DEF WorkerStep, Load, Start, Report, WriteProgress, Finish, ObserveCancel,
       GiveUpWriting, HandlerEnds, End, TaskRaises, Redeliver, workerVars
  <2> QED BY <2>1, <2>2, <2>3
<1>5. \A j \in Jobs : ready'[j] > 0 => status'[j] # "none"
  BY <1>1, <1>3, JobConstants DEF MessageInv, Committed
<1>6. \A v \in Workers : task'[v] # None => task'[v] \in Committed'
  BY <1>2, <1>4 DEF MessageInv, Committed
<1> QED BY <1>0, <1>1, <1>2, <1>5, <1>6 DEF MessageInv

\* The commit of a Job brings its row; the other steps send nothing.
LEMMA MessageNext == TypeOK /\ MessageInv /\ [Next]_vars => MessageInv'
<1> SUFFICES ASSUME TypeOK, MessageInv, [Next]_vars PROVE MessageInv'
  OBVIOUS
<1>0. /\ status \in [Jobs -> Statuses \cup {"none"}]
      /\ outbox \in [Jobs -> {"none", "pending", "published"}]
  BY DEF TypeOK
<1> USE DEF MessageInv, relayVars, workerVars, dbVars
<1>1. ASSUME NEW j \in Jobs, Lookup(j) \/ Insert(j) \/ RollBack(j) PROVE MessageInv'
  BY <1>1 DEF Lookup, Insert, RollBack, Committed
<1>2. ASSUME NEW j \in Jobs, Commit(j) PROVE MessageInv'
  <2>1. \A i \in Jobs : status[i] # "none" => status'[i] # "none"
    BY <1>0, <1>2 DEF Commit
  <2>2. \A i \in Jobs : outbox'[i] # "none" => status'[i] # "none"
    BY <1>0, <1>2 DEF Commit
  <2>3. UNCHANGED <<batch, sent, ready, task>>
    BY <1>2 DEF Commit
  <2> QED BY <2>1, <2>2, <2>3 DEF Committed
<1>3. ASSUME NEW j \in Jobs, Cancel(j) PROVE MessageInv'
  <2>1. \A i \in Jobs : status'[i] = "none" <=> status[i] = "none"
    BY <1>3, CommittedStable
  <2> QED BY <1>3, <2>1 DEF Cancel, Committed
<1>4. CASE BrokerRestarts
  BY <1>4 DEF BrokerRestarts, Committed
<1>5. CASE UNCHANGED vars
  BY <1>5 DEF vars, Committed
<1>6. CASE \E r \in Relays : RelayStep(r)
  BY <1>6, MessageRelay
<1>7. CASE \E w \in Workers : WorkerStep(w)
  BY <1>7, MessageWorker
<1> QED BY <1>1, <1>2, <1>3, <1>4, <1>5, <1>6, <1>7 DEF Next, SubmitStep

\* FR-406: no message waits, and no worker holds one, for a Job whose transaction has not
\* committed (platform/outbox.py).
THEOREM NothingBeforeCommit == Spec => []CommittedBeforePublished
<1>1. TypeOK /\ MessageInv => CommittedBeforePublished
  BY JobConstants DEF TypeOK, MessageInv, CommittedBeforePublished, Committed
<1>2. Init => TypeOK /\ MessageInv
  BY TypeInit, MessageInit
<1>3. TypeOK /\ MessageInv /\ [Next]_vars => (TypeOK /\ MessageInv)'
  BY TypeStep, MessageNext
<1> QED BY <1>1, <1>2, <1>3, PTL DEF Spec

-----------------------------------------------------------------------------
(* A Job is run once.                                                      *)

\* The worker whose run of its Job has begun, and whose outcome is not recorded.
Ran(w) == phase[w] \in {"running", "ending"}

StoppedAfterQueued == \A j \in cancelling : status[j] \notin {"none", "queued"}

RunsARunningJob ==
  \A w \in Workers :
    /\ phase[w] = "running" => status[task[w]] = "running"
    /\ phase[w] = "ending" => status[task[w]] \notin {"none", "queued"}

RunsAHandledJob ==
  \A w \in Workers :
    phase[w] \in {"chosen", "running", "ending"} => task[w] \notin Unhandled

DeclinesTheUnhandled ==
  \A w \in Workers :
    phase[w] = "declining" => task[w] \in Unhandled /\ outcome[w] = "failed"

CancelsTheStopped ==
  \A w \in Workers : outcome[w] = "cancelled" => task[w] \in cancelling

OneRunner ==
  \A v, w \in Workers : Ran(v) /\ Ran(w) /\ task[v] = task[w] => v = w

RunInv ==
  /\ StoppedAfterQueued /\ RunsARunningJob /\ RunsAHandledJob
  /\ DeclinesTheUnhandled /\ CancelsTheStopped /\ OneRunner

runVars == <<status, cancelling, phase, task, outcome>>

\* Before any submission nothing runs.
LEMMA RunInit == Init => RunInv
BY JobConstants DEF Init, RunInv, StoppedAfterQueued, RunsARunningJob, RunsAHandledJob,
   DeclinesTheUnhandled, CancelsTheStopped, OneRunner, Ran

\* Nothing a submission, a relay or the broker does touches a run.
LEMMA RunOthers ==
  ASSUME \/ \E j \in Jobs : Lookup(j) \/ Insert(j) \/ RollBack(j)
         \/ \E r \in Relays : RelayStep(r)
         \/ BrokerRestarts \/ UNCHANGED vars
  PROVE  UNCHANGED runVars
<1> USE DEF runVars, dbVars, workerVars
<1>1. ASSUME NEW j \in Jobs, Lookup(j) \/ Insert(j) \/ RollBack(j) PROVE UNCHANGED runVars
  BY <1>1 DEF Lookup, Insert, RollBack
<1>2. ASSUME NEW r \in Relays, RelayStep(r) PROVE UNCHANGED runVars
  BY <1>2 DEF RelayStep, Claim, CommitBatch, RelayDies, Publish, PublishFails
<1>3. CASE BrokerRestarts \/ UNCHANGED vars
  BY <1>3 DEF BrokerRestarts, vars
<1> QED BY <1>1, <1>2, <1>3

\* A Job nobody has run is committed, or cancelled.
LEMMA RunDatabase ==
  ASSUME TypeOK, OwnJob, RunInv, NEW j \in Jobs, Commit(j) \/ Cancel(j)
  PROVE  RunInv'
<1>0. /\ status \in [Jobs -> Statuses \cup {"none"}] /\ cancelling \subseteq Jobs
      /\ task \in [Workers -> Jobs \cup {None}]
      /\ \A w \in Workers : task[w] = None <=> phase[w] = "idle"
      /\ UNCHANGED <<phase, task, outcome>>
  BY DEF TypeOK, Commit, Cancel, workerVars
<1>1. /\ cancelling \subseteq cancelling'
      /\ \A i \in Jobs : status[i] \notin {"none", "queued"} => status'[i] = status[i]
      /\ \A i \in cancelling' : status'[i] \notin {"none", "queued"}
  <2>1. CASE Commit(j)
    <3>1. status[j] = "none" /\ status' = [status EXCEPT ![j] = "queued"]
          /\ UNCHANGED cancelling
      BY <2>1 DEF Commit, OwnJob
    <3> QED BY <1>0, <3>1 DEF RunInv, StoppedAfterQueued
  <2>2. CASE Cancel(j)
    BY <1>0, <2>2 DEF Cancel, RunInv, StoppedAfterQueued
  <2> QED BY <2>1, <2>2
<1>2. RunsARunningJob'
  <2> SUFFICES ASSUME NEW w \in Workers, phase[w] \in {"running", "ending"}
               PROVE  status'[task[w]] = status[task[w]]
    BY <1>0 DEF RunsARunningJob, RunInv
  <2>1. task[w] \in Jobs
    BY <1>0
  <2>2. status[task[w]] \notin {"none", "queued"}
    BY DEF RunInv, RunsARunningJob
  <2> QED BY <1>1, <2>1, <2>2
<1> QED BY <1>0, <1>1, <1>2
        DEF RunInv, StoppedAfterQueued, RunsAHandledJob, DeclinesTheUnhandled,
            CancelsTheStopped, OneRunner, Ran

WorkerTyped ==
  /\ status \in [Jobs -> Statuses \cup {"none"}] /\ cancelling \subseteq Jobs
  /\ task \in [Workers -> Jobs \cup {None}]
  /\ phase \in [Workers -> {"idle", "received", "chosen", "running", "declining",
                            "ending", "returned"}]
  /\ outcome \in [Workers -> Terminal \cup {None}]
  /\ \A v \in Workers : WorkerShape(v)

\* A worker that lets its message go, or takes one, runs nothing.
LEMMA RunLetsGo ==
  ASSUME WorkerTyped, RunInv, NEW w \in Workers, UNCHANGED <<status, cancelling>>,
         phase'[w] \in {"idle", "received", "returned"}, outcome'[w] = None,
         \A v \in Workers \ {w} :
           task'[v] = task[v] /\ phase'[v] = phase[v] /\ outcome'[v] = outcome[v]
  PROVE  RunInv'
BY JobConstants
   DEF RunInv, StoppedAfterQueued, RunsARunningJob, RunsAHandledJob, DeclinesTheUnhandled,
       CancelsTheStopped, OneRunner, Ran

\* The worker's read: a queued Job that nobody can have stopped is chosen or declined.
LEMMA RunLoad ==
  ASSUME WorkerTyped, RunInv, NEW w \in Workers, Load(w)
  PROVE  RunInv'
<1>1. UNCHANGED <<status, cancelling, task>>
  BY DEF Load, dbVars
<1>2. task[w] \in Jobs /\ phase[w] = "received"
  BY DEF Load, WorkerTyped, WorkerShape
<1>3. \A v \in Workers \ {w} : phase'[v] = phase[v] /\ outcome'[v] = outcome[v]
  BY DEF Load, WorkerTyped
<1>4. \/ phase'[w] = "returned" /\ outcome'[w] = None
      \/ phase'[w] = "declining" /\ outcome'[w] = "failed" /\ task[w] \in Unhandled
      \/ phase'[w] = "chosen" /\ outcome'[w] = None /\ task[w] \notin Unhandled
  BY <1>2 DEF Load, WorkerTyped, RunInv, StoppedAfterQueued
<1> QED BY <1>1, <1>3, <1>4, JobConstants
   DEF RunInv, StoppedAfterQueued, RunsARunningJob, RunsAHandledJob, DeclinesTheUnhandled,
       CancelsTheStopped, OneRunner, Ran

\* A queued Job that a worker starts is one nobody has run.
LEMMA RunStart ==
  ASSUME WorkerTyped, RunInv, NEW w \in Workers, Start(w)
  PROVE  RunInv'
<1>1. /\ UNCHANGED <<cancelling, task, outcome>> /\ task[w] \in Jobs /\ phase[w] = "chosen"
      /\ \A v \in Workers \ {w} : phase'[v] = phase[v]
      /\ outcome[w] = None
  BY DEF Start, WorkerTyped, WorkerShape
<1>2. CASE CanMove(status[task[w]], "running")
  <2>1. /\ status[task[w]] = "queued" /\ phase'[w] = "running"
        /\ status'[task[w]] = "running"
        /\ \A j \in Jobs \ {task[w]} : status'[j] = status[j]
    BY <1>1, <1>2 DEF Start, CanMove, Terminal, WorkerTyped
  <2>2. \A v \in Workers : Ran(v) => task[v] # task[w] /\ task[v] \in Jobs
    BY <2>1 DEF Ran, RunInv, RunsARunningJob, WorkerTyped, WorkerShape
  <2>3. task[w] \notin cancelling
    BY <2>1 DEF RunInv, StoppedAfterQueued
  <2>4. RunsARunningJob'
    <3> SUFFICES ASSUME NEW v \in Workers
                 PROVE  /\ phase'[v] = "running" => status'[task[v]] = "running"
                        /\ phase'[v] = "ending" => status'[task[v]] \notin {"none", "queued"}
      BY <1>1 DEF RunsARunningJob
    <3>1. CASE v = w
      BY <2>1, <3>1
    <3>2. CASE v # w
      <4>1. phase'[v] = phase[v]
        BY <1>1, <3>2
      <4>2. Ran(v) => status'[task[v]] = status[task[v]]
        BY <2>1, <2>2
      <4> QED BY <4>1, <4>2 DEF Ran, RunInv, RunsARunningJob
    <3> QED BY <3>1, <3>2
  <2>5. OneRunner'
    <3> SUFFICES ASSUME NEW u \in Workers, NEW v \in Workers, Ran(u)', Ran(v)',
                        task[u] = task[v], u # v
                 PROVE  FALSE
      BY <1>1 DEF OneRunner
    <3>1. \A x \in Workers : x # w /\ Ran(x)' => Ran(x)
      BY <1>1 DEF Ran
    <3> QED BY <2>2, <3>1 DEF RunInv, OneRunner
  <2>6. StoppedAfterQueued'
    BY <1>1, <2>1, <2>3 DEF StoppedAfterQueued, RunInv, WorkerTyped
  <2>7. RunsAHandledJob' /\ DeclinesTheUnhandled' /\ CancelsTheStopped'
    BY <1>1, <2>1 DEF RunInv, RunsAHandledJob, DeclinesTheUnhandled, CancelsTheStopped
  <2> QED BY <2>4, <2>5, <2>6, <2>7 DEF RunInv
<1>3. CASE ~CanMove(status[task[w]], "running")
  <2>1. phase'[w] = "returned" /\ outcome'[w] = None /\ UNCHANGED status
    BY <1>1, <1>3 DEF Start, WorkerTyped
  <2> QED BY <1>1, <2>1, RunLetsGo
<1> QED BY <1>2, <1>3

\* The handler is over: its worker still is the one that ran the Job.
LEMMA RunFinish ==
  ASSUME WorkerTyped, RunInv, NEW w \in Workers,
         Finish(w) \/ ObserveCancel(w) \/ GiveUpWriting(w)
  PROVE  RunInv'
<1>1. /\ UNCHANGED <<status, cancelling, task>> /\ phase[w] = "running"
      /\ phase'[w] = "ending" /\ outcome'[w] \in Terminal
      /\ outcome'[w] = "cancelled" => task[w] \in cancelling
      /\ \A v \in Workers \ {w} : phase'[v] = phase[v] /\ outcome'[v] = outcome[v]
  BY DEF Finish, ObserveCancel, GiveUpWriting, HandlerEnds, dbVars, WorkerTyped, Terminal
<1> QED BY <1>1
   DEF RunInv, StoppedAfterQueued, RunsARunningJob, RunsAHandledJob, DeclinesTheUnhandled,
       CancelsTheStopped, OneRunner, Ran

\* The Job whose end is recorded is one nobody else runs.
LEMMA RunEnd ==
  ASSUME WorkerTyped, RunInv, NEW w \in Workers, End(w)
  PROVE  RunInv'
<1>1. /\ UNCHANGED <<cancelling, task>> /\ phase[w] \in {"declining", "ending"}
      /\ phase'[w] = "returned" /\ outcome'[w] = None /\ task[w] \in Jobs
      /\ outcome[w] \in Terminal
      /\ \A v \in Workers \ {w} : phase'[v] = phase[v] /\ outcome'[v] = outcome[v]
  BY DEF End, WorkerTyped, WorkerShape
<1>2. /\ \A j \in Jobs \ {task[w]} : status'[j] = status[j]
      /\ status'[task[w]] \in {status[task[w]], outcome[w]}
  BY <1>1 DEF End, WorkerTyped
<1>3. \A v \in Workers \ {w} : phase[v] = "running" => task[v] # task[w]
  BY <1>1 DEF RunInv, RunsAHandledJob, DeclinesTheUnhandled, OneRunner, Ran
<1>4. \A j \in Jobs : status[j] \notin {"none", "queued"} => status'[j] \notin {"none", "queued"}
  BY <1>1, <1>2 DEF Terminal
<1>5. RunsARunningJob'
  <2> SUFFICES ASSUME NEW v \in Workers, v # w
               PROVE  /\ phase[v] = "running" => status'[task[v]] = "running"
                      /\ phase[v] = "ending" => status'[task[v]] \notin {"none", "queued"}
    BY <1>1 DEF RunsARunningJob
  <2>1. phase[v] \in {"running", "ending"} => task[v] \in Jobs
    BY DEF WorkerTyped, WorkerShape
  <2> QED BY <1>2, <1>3, <1>4, <2>1 DEF RunInv, RunsARunningJob
<1>6. StoppedAfterQueued'
  BY <1>1, <1>4 DEF RunInv, StoppedAfterQueued, WorkerTyped
<1>7. RunsAHandledJob' /\ DeclinesTheUnhandled' /\ CancelsTheStopped' /\ OneRunner'
  BY <1>1, JobConstants
     DEF RunInv, RunsAHandledJob, DeclinesTheUnhandled, CancelsTheStopped, OneRunner, Ran
<1> QED BY <1>5, <1>6, <1>7 DEF RunInv

\* No step of a worker makes a second run.
LEMMA RunWorker ==
  ASSUME TypeOK, RunInv, NEW w \in Workers, WorkerStep(w)
  PROVE  RunInv'
<1>0. WorkerTyped
  BY DEF TypeOK, WorkerTyped, WorkerShape
<1>1. CASE (\E j \in Jobs : Receive(w, j)) \/ Acknowledge(w) \/ TaskRaises(w) \/ WorkerDies(w)
  <2>1. /\ UNCHANGED <<status, cancelling>>
        /\ phase'[w] \in {"idle", "received", "returned"} /\ outcome'[w] = None
    BY <1>0, <1>1 DEF Receive, Acknowledge, TaskRaises, WorkerDies, WorkerTyped, WorkerShape, dbVars
  <2>2. \A v \in Workers \ {w} :
          task'[v] = task[v] /\ phase'[v] = phase[v] /\ outcome'[v] = outcome[v]
    BY <1>0, <1>1 DEF Receive, Acknowledge, TaskRaises, WorkerDies, WorkerTyped
  <2> QED BY <1>0, <2>1, <2>2, RunLetsGo
<1>2. CASE Report(w) \/ WriteProgress(w) \/ Redeliver(w)
  BY <1>2 DEF Report, WriteProgress, Redeliver, dbVars, workerVars, RunInv, StoppedAfterQueued,
     RunsARunningJob, RunsAHandledJob, DeclinesTheUnhandled, CancelsTheStopped, OneRunner, Ran
<1> QED BY <1>0, <1>1, <1>2, RunLoad, RunStart, RunFinish, RunEnd DEF WorkerStep

\* The invariant of the runs is inductive.
LEMMA RunNext == TypeOK /\ SubmissionInv /\ RunInv /\ [Next]_vars => RunInv'
<1> SUFFICES ASSUME TypeOK, SubmissionInv, RunInv, [Next]_vars PROVE RunInv'
  OBVIOUS
<1>1. CASE UNCHANGED runVars
  BY <1>1 DEF runVars, RunInv, StoppedAfterQueued, RunsARunningJob, RunsAHandledJob,
     DeclinesTheUnhandled, CancelsTheStopped, OneRunner, Ran
<1>2. CASE \E j \in Jobs : Commit(j) \/ Cancel(j)
  BY <1>2, RunDatabase DEF SubmissionInv
<1>3. CASE \E w \in Workers : WorkerStep(w)
  BY <1>3, RunWorker
<1> QED BY <1>1, <1>2, <1>3, RunOthers DEF Next, SubmitStep

-----------------------------------------------------------------------------
(* Jobs implements JobLifecycle.                                           *)

Runners == [j \in Jobs |-> {w \in Workers : Runs(w, j)}]
AbstractVars == <<status, cancelling, Runners>>

\* The run of a worker that takes up its Job's handler is added to the runs of the Job.
LEMMA RunnersAdd ==
  ASSUME NEW w \in Workers, NEW j \in Jobs, Runs(w, j)',
         \A v \in Workers, i \in Jobs : v # w \/ i # j => (Runs(v, i)' <=> Runs(v, i))
  PROVE  Runners' = [Runners EXCEPT ![j] = @ \cup {w}]
<1>1. Runners'[j] = Runners[j] \cup {w}
  BY DEF Runners
<1>2. \A i \in Jobs : i # j => Runners'[i] = Runners[i]
  BY DEF Runners
<1> QED BY <1>1, <1>2 DEF Runners

\* The run of a worker that leaves the handler is taken from the runs of its Job.
LEMMA RunnersRemove ==
  ASSUME NEW w \in Workers, NEW j \in Jobs, ~Runs(w, j)',
         \A v \in Workers, i \in Jobs : v # w \/ i # j => (Runs(v, i)' <=> Runs(v, i))
  PROVE  Runners' = [Runners EXCEPT ![j] = @ \ {w}]
<1>1. Runners'[j] = Runners[j] \ {w}
  BY DEF Runners
<1>2. \A i \in Jobs : i # j => Runners'[i] = Runners[i]
  BY DEF Runners
<1> QED BY <1>1, <1>2 DEF Runners

\* A step that starts and ends no run leaves the runs as they are.
LEMMA RunnersSame ==
  ASSUME \A v \in Workers, i \in Jobs : Runs(v, i)' <=> Runs(v, i)
  PROVE  UNCHANGED Runners
<1>1. \A i \in Jobs : Runners'[i] = Runners[i]
  BY DEF Runners
<1> QED BY <1>1 DEF Runners

\* The commit of a submission is a Submit: nobody has answered under its key.
LEMMA AbstractCommit ==
  ASSUME TypeOK, SubmissionInv, NEW j \in Jobs, Commit(j)
  PROVE  Lifecycle!Submit(j)
<1>1. /\ request[j] = "inserted" /\ status' = [status EXCEPT ![j] = "queued"]
      /\ UNCHANGED <<cancelling, phase, task>>
  BY DEF Commit, workerVars
<1>2. status[j] = "none"
  BY <1>1 DEF SubmissionInv, OwnJob
<1>3. ASSUME KeyOf[j] # None, NEW i \in Jobs, KeyOf[i] = KeyOf[j] PROVE status[i] = "none"
  BY <1>1, <1>2, <1>3 DEF SubmissionInv, KeysHeldOnce, Holding, SameKey
<1>4. UNCHANGED Runners
  BY <1>1, RunnersSame DEF Runs
<1> QED BY <1>1, <1>2, <1>3, <1>4 DEF Lifecycle!Submit, Runners

\* A cancellation ends a queued Job and marks a running one.
LEMMA AbstractCancel ==
  ASSUME TypeOK, NEW j \in Jobs, Cancel(j)
  PROVE  Lifecycle!EndUnstarted(j) \/ Lifecycle!AskToStop(j)
<1>0. status \in [Jobs -> Statuses \cup {"none"}]
  BY DEF TypeOK
<1>1. UNCHANGED Runners
  BY RunnersSame DEF Runs, Cancel, workerVars
<1>2. CASE status[j] = "queued"
  <2>1. status' = [status EXCEPT ![j] = "cancelled"] /\ cancelling' = cancelling \cup {j}
    BY <1>0, <1>2 DEF Cancel
  <2>2. status'[j] = "cancelled"
    BY <1>0, <2>1
  <2> QED BY <1>1, <1>2, <2>1, <2>2 DEF Lifecycle!EndUnstarted, Runners
<1>3. CASE status[j] = "running"
  <2>1. status' = status /\ cancelling' = cancelling \cup {j}
    BY <1>0, <1>3 DEF Cancel
  <2> QED BY <1>1, <1>3, <2>1 DEF Lifecycle!AskToStop, Runners
<1> QED BY <1>2, <1>3 DEF Cancel

\* A worker that gets the row's lock while the Job is queued starts it.
LEMMA AbstractStart ==
  ASSUME WorkerTyped, RunInv, NEW w \in Workers, Start(w)
  PROVE  Lifecycle!Start(task[w], w) \/ UNCHANGED AbstractVars
<1> DEFINE j == task[w]
<1>0. /\ j \in Jobs /\ phase[w] = "chosen" /\ UNCHANGED <<task, cancelling>>
      /\ \A v \in Workers \ {w} : phase'[v] = phase[v]
  BY DEF Start, WorkerTyped, WorkerShape
<1>1. CASE CanMove(status[j], "running")
  <2>1. /\ status[j] = "queued" /\ status' = [status EXCEPT ![j] = "running"]
        /\ phase'[w] = "running"
    BY <1>1 DEF Start, CanMove, Terminal, WorkerTyped
  <2>2. j \notin cancelling
    BY <2>1 DEF RunInv, StoppedAfterQueued
  <2>3. Runners' = [Runners EXCEPT ![j] = @ \cup {w}]
    BY <1>0, <2>1, RunnersAdd DEF Runs
  <2> QED BY <1>0, <2>1, <2>2, <2>3 DEF Lifecycle!Start, Runners
<1>2. CASE ~CanMove(status[j], "running")
  <2>1. UNCHANGED status /\ phase'[w] = "returned"
    BY <1>0, <1>2 DEF Start, WorkerTyped
  <2>2. UNCHANGED Runners
    BY <1>0, <2>1, RunnersSame DEF Runs
  <2> QED BY <1>0, <2>1, <2>2 DEF AbstractVars
<1> QED BY <1>1, <1>2

\* The end that a worker records is of a Job that was never started, or whose one run is
\* over; a Job that has ended keeps its end.
LEMMA AbstractEnd ==
  ASSUME WorkerTyped, RunInv, NEW w \in Workers, End(w)
  PROVE  \/ Lifecycle!EndUnstarted(task[w]) \/ Lifecycle!Record(task[w])
         \/ UNCHANGED AbstractVars
<1> DEFINE j == task[w]
<1>0. /\ j \in Jobs /\ phase[w] \in {"declining", "ending"} /\ UNCHANGED <<task, cancelling>>
      /\ phase'[w] = "returned" /\ outcome[w] \in Terminal
      /\ \A v \in Workers \ {w} : phase'[v] = phase[v]
  BY DEF End, WorkerTyped, WorkerShape
<1>1. UNCHANGED Runners
  BY <1>0, RunnersSame DEF Runs
<1>2. CASE status[j] = "queued" /\ CanMove(status[j], outcome[w])
  <2>1. outcome[w] = "failed"
    BY <1>0, <1>2 DEF RunInv, RunsARunningJob, DeclinesTheUnhandled
  <2>2. status' = [status EXCEPT ![j] = "failed"]
    BY <1>2, <2>1 DEF End
  <2>3. status'[j] = "failed"
    BY <1>0, <2>2 DEF WorkerTyped
  <2> QED BY <1>0, <1>1, <1>2, <2>2, <2>3 DEF Lifecycle!EndUnstarted, Runners
<1>3. CASE status[j] = "running"
  <2>1. status' = [status EXCEPT ![j] = outcome[w]]
    BY <1>0, <1>3 DEF End, CanMove
  <2>2. outcome[w] = "cancelled" => j \in cancelling
    BY DEF RunInv, CancelsTheStopped
  <2>3. \A v \in Workers : ~Runs(v, j)
    BY <1>0 DEF Runs, RunInv, OneRunner, Ran, DeclinesTheUnhandled, RunsAHandledJob
  <2>4. Runners[j] = {}
    BY <1>0, <2>3 DEF Runners
  <2> QED BY <1>0, <1>1, <1>3, <2>1, <2>2, <2>4 DEF Lifecycle!Record, Runners, Terminal
<1>4. CASE ~CanMove(status[j], outcome[w])
  BY <1>0, <1>1, <1>4 DEF End, AbstractVars
<1> QED BY <1>0, <1>2, <1>3, <1>4 DEF CanMove

\* A worker whose handler is over, or that dies in it, ends its run.
LEMMA AbstractRunEnds ==
  ASSUME WorkerTyped, NEW w \in Workers, phase[w] = "running",
         Finish(w) \/ ObserveCancel(w) \/ GiveUpWriting(w) \/ WorkerDies(w)
  PROVE  Lifecycle!RunEnds(task[w])
<1> DEFINE j == task[w]
<1>1. /\ j \in Jobs /\ UNCHANGED <<status, cancelling>> /\ phase'[w] # "running"
      /\ \A v \in Workers \ {w} : phase'[v] = phase[v] /\ task'[v] = task[v]
  BY DEF Finish, ObserveCancel, GiveUpWriting, WorkerDies, HandlerEnds, dbVars, WorkerTyped,
         WorkerShape
<1>2. Runners' = [Runners EXCEPT ![j] = @ \ {w}]
  BY <1>1, RunnersRemove DEF Runs
<1>3. w \in Runners[j]
  BY <1>1 DEF Runners, Runs
<1> QED BY <1>1, <1>2, <1>3 DEF Lifecycle!RunEnds, Runners

\* Every other step of a worker neither starts nor ends a run.
LEMMA AbstractStutter ==
  ASSUME WorkerTyped, NEW w \in Workers,
         \/ \E j \in Jobs : Receive(w, j)
         \/ Load(w) \/ Report(w) \/ WriteProgress(w) \/ Acknowledge(w) \/ TaskRaises(w)
         \/ Redeliver(w) \/ (WorkerDies(w) /\ phase[w] # "running")
  PROVE  UNCHANGED AbstractVars
<1>1. /\ UNCHANGED <<status, cancelling>>
      /\ \A v \in Workers \ {w} : phase'[v] = phase[v] /\ task'[v] = task[v]
      /\ \/ phase[w] # "running" /\ phase'[w] # "running"
         \/ UNCHANGED <<phase, task>>
  BY DEF Receive, Load, Report, WriteProgress, Acknowledge, TaskRaises, Redeliver, WorkerDies,
         dbVars, workerVars, WorkerTyped
<1>2. \A v \in Workers, i \in Jobs : Runs(v, i)' <=> Runs(v, i)
  BY <1>1 DEF Runs
<1> QED BY <1>1, <1>2, RunnersSame DEF AbstractVars

\* Every step of Jobs is a step of JobLifecycle, or none.
LEMMA AbstractStep ==
  ASSUME TypeOK, SubmissionInv, RunInv, [Next]_vars
  PROVE  Lifecycle!Next \/ UNCHANGED AbstractVars
<1>0. WorkerTyped
  BY DEF TypeOK, WorkerTyped, WorkerShape
<1>1. CASE UNCHANGED runVars
  <2>1. UNCHANGED Runners
    BY <1>1, RunnersSame DEF Runs, runVars
  <2> QED BY <1>1, <2>1 DEF AbstractVars, runVars
<1>2. ASSUME NEW j \in Jobs, Commit(j) \/ Cancel(j) PROVE Lifecycle!Next
  BY <1>2, AbstractCommit, AbstractCancel DEF Lifecycle!Next
<1>3. ASSUME NEW w \in Workers, WorkerStep(w)
      PROVE  Lifecycle!Next \/ UNCHANGED AbstractVars
  <2>1. phase[w] # "idle" => task[w] \in Jobs
    BY <1>0 DEF WorkerTyped, WorkerShape
  <2>2. CASE Start(w)
    BY <1>0, <2>1, <2>2, AbstractStart DEF Lifecycle!Next, Start
  <2>3. CASE End(w)
    BY <1>0, <2>1, <2>3, AbstractEnd DEF Lifecycle!Next, End
  <2>4. CASE \/ Finish(w) \/ ObserveCancel(w) \/ GiveUpWriting(w)
             \/ WorkerDies(w) /\ phase[w] = "running"
    <3>1. phase[w] = "running"
      BY <2>4 DEF Finish, ObserveCancel, GiveUpWriting
    <3> QED BY <1>0, <2>1, <2>4, <3>1, AbstractRunEnds DEF Lifecycle!Next
  <2>5. CASE ~Start(w) /\ ~End(w) /\ ~Finish(w) /\ ~ObserveCancel(w) /\ ~GiveUpWriting(w)
             /\ ~(WorkerDies(w) /\ phase[w] = "running")
    BY <1>0, <1>3, <2>5, AbstractStutter DEF WorkerStep
  <2> QED BY <2>2, <2>3, <2>4, <2>5
<1> QED BY <1>1, <1>2, <1>3, RunOthers DEF Next, SubmitStep

\* The outbox, its relays, the broker and the workers implement JobLifecycle: redeliveries,
\* crashes, cancellations and retries make no second run of a Job and no second Job of a
\* key, and nothing but VALID_TRANSITIONS moves a status.
THEOREM JobsImplementJobLifecycle == Spec => ImplementsJobLifecycle
<1> DEFINE IInv == TypeOK /\ SubmissionInv /\ RunInv
<1>1. Init => IInv
  BY TypeInit, SubmissionInit, RunInit
<1>2. IInv /\ [Next]_vars => IInv'
  BY TypeStep, SubmissionNext, RunNext
<1>3. Init => Lifecycle!Init
  BY DEF Init, Lifecycle!Init, Runs
<1>4. UNCHANGED AbstractVars <=> UNCHANGED Lifecycle!vars
  BY DEF AbstractVars, Runners, Lifecycle!vars
<1>5. IInv /\ [Next]_vars => [Lifecycle!Next]_(Lifecycle!vars)
  BY <1>4, AbstractStep
<1> QED BY <1>1, <1>2, <1>3, <1>5, PTL DEF Spec, ImplementsJobLifecycle, Lifecycle!Spec

-----------------------------------------------------------------------------
(* A finished Job is history, as long as no write outlasts its wait.       *)

WritesWhileRunning == \A w \in Workers : writing[w] # "no" => phase[w] = "running"

\* A handler waits for its progress write, unless the wait times out.
LEMMA WritesNext ==
  ASSUME "slow_write" \notin Faults, TypeOK, WritesWhileRunning, [Next]_vars
  PROVE  WritesWhileRunning'
<1>0. /\ phase \in [Workers -> {"idle", "received", "chosen", "running", "declining",
                               "ending", "returned"}]
      /\ writing \in [Workers -> {"no", "waited", "late"}]
  BY DEF TypeOK
<1> USE DEF WritesWhileRunning
<1>1. CASE UNCHANGED <<phase, writing>>
  BY <1>1
<1>2. ASSUME NEW w \in Workers, WorkerStep(w) PROVE WritesWhileRunning'
  <2>1. CASE Receive(w, task'[w]) \/ Load(w) \/ Start(w) \/ End(w) \/ TaskRaises(w)
    BY <1>0, <2>1 DEF Receive, Load, Start, End, TaskRaises
  <2>2. CASE Report(w) \/ WriteProgress(w) \/ Finish(w) \/ ObserveCancel(w)
    BY <1>0, <2>2 DEF Report, WriteProgress, Finish, ObserveCancel, HandlerEnds
  <2>3. CASE Acknowledge(w) \/ WorkerDies(w) \/ Redeliver(w) \/ GiveUpWriting(w)
    BY <1>0, <2>3 DEF Acknowledge, WorkerDies, Redeliver, GiveUpWriting, workerVars
  <2>4. ASSUME NEW j \in Jobs, Receive(w, j) PROVE WritesWhileRunning'
    BY <1>0, <2>4 DEF Receive
  <2> QED BY <1>2, <2>1, <2>2, <2>3, <2>4 DEF WorkerStep
<1>3. ASSUME NEW r \in Relays, RelayStep(r) PROVE UNCHANGED <<phase, writing>>
  BY <1>3 DEF RelayStep, Claim, CommitBatch, RelayDies, Publish, PublishFails, workerVars
<1>4. ASSUME NEW j \in Jobs, SubmitStep(j) \/ Cancel(j) PROVE UNCHANGED <<phase, writing>>
  BY <1>4 DEF SubmitStep, Lookup, Insert, Commit, RollBack, Cancel, workerVars
<1>5. CASE BrokerRestarts \/ UNCHANGED vars
  BY <1>5 DEF BrokerRestarts, vars, workerVars
<1> QED BY <1>1, <1>2, <1>3, <1>4, <1>5 DEF Next

\* A step changes the progress only of a Job that runs, and the status of none that ended.
LEMMA HistoryStep ==
  ASSUME TypeOK, SubmissionInv, RunInv, WritesWhileRunning, [Next]_vars,
         NEW j \in Jobs, status[j] \in Terminal
  PROVE  status'[j] = status[j] /\ progress'[j] = progress[j]
<1>0. /\ status \in [Jobs -> Statuses \cup {"none"}] /\ progress \in [Jobs -> BOOLEAN]
      /\ WorkerTyped
  BY DEF TypeOK, WorkerTyped, WorkerShape
<1>1. ASSUME NEW i \in Jobs, SubmitStep(i) \/ Cancel(i)
      PROVE  status'[j] = status[j] /\ progress'[j] = progress[j]
  <2>1. CASE Commit(i)
    <3>1. status[i] = "none"
      BY <2>1 DEF Commit, SubmissionInv, OwnJob
    <3> QED BY <1>0, <2>1, <3>1 DEF Commit, Terminal
  <2>2. CASE Cancel(i)
    BY <1>0, <2>2 DEF Cancel, Terminal
  <2>3. CASE Lookup(i) \/ Insert(i) \/ RollBack(i)
    BY <2>3 DEF Lookup, Insert, RollBack, dbVars
  <2> QED BY <1>1, <2>1, <2>2, <2>3 DEF SubmitStep
<1>2. ASSUME NEW w \in Workers, WorkerStep(w)
      PROVE  status'[j] = status[j] /\ progress'[j] = progress[j]
  <2>1. CASE WriteProgress(w)
    <3>1. task[w] # j
      BY <2>1 DEF WriteProgress, WritesWhileRunning, RunInv, RunsARunningJob, Terminal
    <3> QED BY <1>0, <2>1, <3>1 DEF WriteProgress
  <2>2. CASE Start(w) \/ End(w)
    BY <1>0, <2>2 DEF Start, End, CanMove, Terminal
  <2>3. CASE ~WriteProgress(w) /\ ~Start(w) /\ ~End(w)
    BY <1>2, <2>3 DEF WorkerStep, Receive, Load, Report, Finish, ObserveCancel, GiveUpWriting,
       Acknowledge, TaskRaises, WorkerDies, Redeliver, dbVars
  <2> QED BY <2>1, <2>2, <2>3
<1>3. ASSUME NEW r \in Relays, RelayStep(r) PROVE UNCHANGED <<status, progress>>
  BY <1>3 DEF RelayStep, Claim, CommitBatch, RelayDies, Publish, PublishFails, dbVars
<1>4. CASE BrokerRestarts \/ UNCHANGED vars
  BY <1>4 DEF BrokerRestarts, vars, dbVars
<1> QED BY <1>1, <1>2, <1>3, <1>4 DEF Next

\* A Job that has finished does not change, neither in status nor in progress, unless a
\* progress write outlasts the 30 s its handler waits for it (worker/progress.py).
THEOREM FinishedJobsAreHistory ==
  ASSUME "slow_write" \notin Faults
  PROVE  Spec => FinishedIsHistory
<1> DEFINE IInv == TypeOK /\ SubmissionInv /\ RunInv /\ WritesWhileRunning
           Frozen == \A j \in Jobs : status[j] \in Terminal =>
                       status'[j] = status[j] /\ progress'[j] = progress[j]
<1>1. Init => IInv
  BY TypeInit, SubmissionInit, RunInit DEF Init, WritesWhileRunning
<1>2. IInv /\ [Next]_vars => IInv'
  BY TypeStep, SubmissionNext, RunNext, WritesNext
<1>3. IInv /\ [Next]_vars => [Frozen]_vars
  BY HistoryStep
<1> QED BY <1>1, <1>2, <1>3, PTL DEF Spec, FinishedIsHistory

-----------------------------------------------------------------------------
(* A queued Job is carried, as long as the database and the broker stay up. *)

\* Its message waits, or a worker holds it and has not given it up.
Underway(j) ==
  \/ ready[j] > 0
  \/ \E w \in Workers : task[w] = j /\ phase[w] \in {"received", "chosen", "declining"}

\* Once its message was sent, or its row marked, a queued Job is under way.
CarriedInv ==
  /\ \A j \in Jobs : status[j] = "queued" => outbox[j] # "none"
  /\ \A j \in Jobs :
       status[j] = "queued" /\ (outbox[j] = "published" \/ \E r \in Relays : j \in sent[r]) =>
         Underway(j)

\* A relay marks as published only what it sent.
LEMMA CarriedRelay ==
  ASSUME TypeOK, CarriedInv, NEW r \in Relays, RelayStep(r)
  PROVE  CarriedInv'
<1>0. /\ sent \in [Relays -> SUBSET Jobs] /\ ready \in [Jobs -> 0..CopiesBound]
      /\ outbox \in [Jobs -> {"none", "pending", "published"}]
      /\ UNCHANGED <<status, task, phase>>
  BY DEF TypeOK, RelayStep, Claim, CommitBatch, RelayDies, Publish, PublishFails, dbVars,
         workerVars
<1>1. ASSUME NEW j \in Jobs, Underway(j) PROVE Underway(j)'
  <2>1. ready'[j] = ready[j] \/ ready'[j] > 0
    BY <1>0 DEF RelayStep, Claim, CommitBatch, RelayDies, Publish, PublishFails
  <2> QED BY <1>0, <1>1, <2>1 DEF Underway
<1>2. ASSUME NEW j \in Jobs, NEW q \in Relays, j \in sent'[q]
      PROVE  Underway(j)' \/ j \in sent[q]
  <2>1. CASE \E i \in Jobs : Publish(r, i)
    BY <1>0, <1>2, <2>1 DEF Publish, Underway
  <2>2. CASE ~\E i \in Jobs : Publish(r, i)
    BY <1>0, <1>2, <2>2 DEF RelayStep, Claim, CommitBatch, RelayDies, PublishFails, Release
  <2> QED BY <2>1, <2>2
<1>3. ASSUME NEW j \in Jobs
      PROVE  outbox'[j] = outbox[j] \/ (outbox'[j] = "published" /\ j \in sent[r])
  BY DEF RelayStep, Claim, CommitBatch, RelayDies, Publish, PublishFails, dbVars, Marked
<1>4. \A j \in Jobs : outbox[j] # "none" => outbox'[j] # "none"
  BY <1>3
<1>5. ASSUME NEW j \in Jobs, status'[j] = "queued",
             outbox'[j] = "published" \/ \E q \in Relays : j \in sent'[q]
      PROVE  Underway(j)'
  BY <1>0, <1>1, <1>2, <1>3, <1>5 DEF CarriedInv
<1> QED BY <1>0, <1>4, <1>5 DEF CarriedInv

\* A worker lets go only of a Job that is no longer queued, and gives back what it held when
\* it dies.
LEMMA CarriedWorker ==
  ASSUME "database" \notin Faults, TypeOK, RunInv, CarriedInv, NEW w \in Workers, WorkerStep(w)
  PROVE  CarriedInv'
<1>0. /\ WorkerTyped /\ ready \in [Jobs -> 0..CopiesBound] /\ CopiesBound \in Nat
      /\ UNCHANGED <<outbox, sent>>
  BY JobConstants DEF TypeOK, WorkerTyped, WorkerShape, WorkerStep, Receive, Load, Start, Report,
     WriteProgress, Finish, ObserveCancel, GiveUpWriting, End, Acknowledge, TaskRaises,
     WorkerDies, Redeliver, dbVars, relayVars
<1>1. ASSUME NEW j \in Jobs, status'[j] = "queued" PROVE status[j] = "queued"
  <2>1. CASE Start(w) \/ End(w)
    BY <1>0, <1>1, <2>1 DEF Start, End, WorkerTyped, WorkerShape, Terminal
  <2>2. CASE ~Start(w) /\ ~End(w)
    BY <1>1, <2>2 DEF WorkerStep, Receive, Load, Report, WriteProgress, Finish, ObserveCancel,
       GiveUpWriting, Acknowledge, TaskRaises, WorkerDies, Redeliver, dbVars
  <2> QED BY <2>1, <2>2
<1>2. ASSUME NEW j \in Jobs, status'[j] = "queued", Underway(j) PROVE Underway(j)'
  <2>0. status[j] = "queued"
    BY <1>1, <1>2
  <2>1. ASSUME NEW i \in Jobs, Receive(w, i) PROVE Underway(j)'
    <3>1. CASE i = j
      BY <1>0, <2>1, <3>1 DEF Receive, Underway, WorkerTyped
    <3>2. CASE i # j
      BY <1>0, <1>2, <2>1, <3>2 DEF Receive, Underway, WorkerTyped
    <3> QED BY <3>1, <3>2
  <2>2. CASE WorkerDies(w) \/ Redeliver(w)
    <3>1. task[w] \in Jobs
      BY <1>0, <2>2 DEF WorkerDies, Redeliver, WorkerTyped, WorkerShape
    <3>2. ready'[j] = IF j = task[w] THEN ready[j] + 1 ELSE ready[j]
      BY <1>0, <2>2, <3>1 DEF WorkerDies, Redeliver
    <3>3. CASE j = task[w]
      BY <1>0, <3>2, <3>3 DEF Underway
    <3>4. CASE j # task[w]
      BY <1>0, <1>2, <2>2, <3>2, <3>4 DEF WorkerDies, Redeliver, Underway, workerVars, WorkerTyped
    <3> QED BY <3>3, <3>4
  <2>3. CASE Load(w)
    BY <1>0, <1>2, <2>0, <2>3 DEF Load, Underway, WorkerTyped
  <2>4. CASE Start(w)
    <3>1. task[w] # j
      BY <1>0, <1>2, <2>0, <2>4 DEF Start, CanMove, WorkerTyped, WorkerShape
    <3> QED BY <1>0, <1>2, <2>4, <3>1 DEF Start, Underway, WorkerTyped
  <2>5. CASE End(w)
    <3>1. task[w] # j
      BY <1>0, <1>2, <2>0, <2>5
         DEF End, CanMove, RunInv, RunsARunningJob, DeclinesTheUnhandled, WorkerTyped,
             WorkerShape, Terminal
    <3> QED BY <1>0, <1>2, <2>5, <3>1 DEF End, Underway, WorkerTyped
  <2>6. CASE \/ Report(w) \/ WriteProgress(w) \/ Finish(w) \/ ObserveCancel(w)
             \/ GiveUpWriting(w) \/ Acknowledge(w)
    BY <1>0, <1>2, <2>6 DEF Report, WriteProgress, Finish, ObserveCancel, GiveUpWriting,
       HandlerEnds, Acknowledge, Underway, WorkerTyped
  <2>7. ~TaskRaises(w)
    BY DEF TaskRaises
  <2> QED BY <2>1, <2>2, <2>3, <2>4, <2>5, <2>6, <2>7 DEF WorkerStep
<1> QED BY <1>0, <1>1, <1>2 DEF CarriedInv

\* A commit brings the Job's pending row; nothing else makes a Job queued.
LEMMA CarriedNext ==
  ASSUME "database" \notin Faults, "broker" \notin Faults,
         TypeOK, SubmissionInv, MessageInv, RunInv, CarriedInv, [Next]_vars
  PROVE  CarriedInv'
<1>0. /\ status \in [Jobs -> Statuses \cup {"none"}]
      /\ outbox \in [Jobs -> {"none", "pending", "published"}]
  BY DEF TypeOK
<1>1. ASSUME NEW j \in Jobs, Commit(j) PROVE CarriedInv'
  <2>1. /\ status[j] = "none" /\ status' = [status EXCEPT ![j] = "queued"]
        /\ outbox' = [outbox EXCEPT ![j] = "pending"] /\ UNCHANGED <<sent, ready, task, phase>>
    BY <1>1 DEF Commit, SubmissionInv, OwnJob, relayVars, workerVars
  <2>2. \A r \in Relays : j \notin sent[r]
    BY <2>1 DEF MessageInv, Committed
  <2>3. \A i \in Jobs : Underway(i)' <=> Underway(i)
    BY <2>1 DEF Underway
  <2> QED BY <1>0, <2>1, <2>2, <2>3 DEF CarriedInv
<1>2. ASSUME NEW j \in Jobs, Cancel(j) PROVE CarriedInv'
  <2>1. \A i \in Jobs : status'[i] = "queued" => status[i] = "queued"
    BY <1>0, <1>2 DEF Cancel
  <2>2. UNCHANGED <<outbox, sent, ready, task, phase>>
    BY <1>2 DEF Cancel, relayVars, workerVars
  <2> QED BY <2>1, <2>2 DEF CarriedInv, Underway
<1>3. CASE (\E j \in Jobs : Lookup(j) \/ Insert(j) \/ RollBack(j)) \/ UNCHANGED vars
  BY <1>3 DEF Lookup, Insert, RollBack, vars, dbVars, relayVars, workerVars, CarriedInv, Underway
<1>4. ~BrokerRestarts
  BY DEF BrokerRestarts
<1> QED BY <1>1, <1>2, <1>3, <1>4, CarriedRelay, CarriedWorker DEF Next, SubmitStep

\* platform/outbox.py, at-least-once: while the database answers and Redis keeps its
\* queues, a queued Job always has a pending intent, a waiting message or a worker,
\* whatever relays and workers die.
THEOREM QueuedJobsAreCarried ==
  ASSUME "database" \notin Faults, "broker" \notin Faults
  PROVE  Spec => []QueuedIsCarried
<1> DEFINE IInv == TypeOK /\ SubmissionInv /\ MessageInv /\ RunInv /\ CarriedInv
<1>1. Init => IInv
  BY TypeInit, SubmissionInit, MessageInit, RunInit DEF Init, CarriedInv
<1>2. IInv /\ [Next]_vars => IInv'
  BY TypeStep, SubmissionNext, MessageNext, RunNext, CarriedNext
<1>3. IInv => QueuedIsCarried
  BY DEF TypeOK, CarriedInv, Underway, QueuedIsCarried
<1> QED BY <1>1, <1>2, <1>3, PTL DEF Spec

-----------------------------------------------------------------------------
(* A Job that was accepted ends.                                           *)

\* The faults the outbox and the broker make up for: relays that die, publishes that fail,
\* redeliveries and writes that outlast their wait.  A Job whose worker is killed stays
\* running, and one whose task or message is lost stays queued.
Calm == "worker" \notin Faults /\ "database" \notin Faults /\ "broker" \notin Faults

\* A row is locked by one relay, which has tried nothing it has not claimed.
BatchesApart ==
  /\ \A r \in Relays : tried[r] \subseteq batch[r]
  /\ \A q, r \in Relays : batch[q] \cap batch[r] # {} => q = r

\* A running Job is run by a worker, or about to be ended by it.
RunningIsRun ==
  \A j \in Jobs : status[j] = "running" => \E w \in Workers : task[w] = j /\ Ran(w)

LiveInv ==
  /\ TypeOK /\ SubmissionInv /\ MessageInv /\ RunInv /\ CarriedInv
  /\ BatchesApart /\ RunningIsRun

\* A relay claims only rows that nobody has locked.
LEMMA BatchesNext ==
  ASSUME TypeOK, BatchesApart, [Next]_vars
  PROVE  BatchesApart'
<1>0. batch \in [Relays -> SUBSET Jobs] /\ tried \in [Relays -> SUBSET Jobs]
  BY DEF TypeOK
<1>1. ASSUME NEW r \in Relays, RelayStep(r) PROVE BatchesApart'
  <2>1. CASE Claim(r)
    <3>1. /\ batch' = [batch EXCEPT ![r] = FirstOf(Claimable)] /\ tried' = tried
          /\ batch[r] = {}
      BY <2>1 DEF Claim
    <3>2. \A q \in Relays : FirstOf(Claimable) \cap batch[q] = {}
      BY DEF FirstOf, Claimable, Locked
    <3>3. tried[r] = {}
      BY <3>1 DEF BatchesApart
    <3> HIDE DEF FirstOf
    <3> QED BY <1>0, <3>1, <3>2, <3>3 DEF BatchesApart
  <2>2. CASE CommitBatch(r) \/ RelayDies(r)
    BY <1>0, <2>2 DEF CommitBatch, RelayDies, Release, BatchesApart
  <2>3. CASE \E j \in Jobs : Publish(r, j) \/ PublishFails(r, j)
    BY <1>0, <2>3 DEF Publish, PublishFails, BatchesApart
  <2> QED BY <1>1, <2>1, <2>2, <2>3 DEF RelayStep
<1>2. ASSUME NEW w \in Workers, WorkerStep(w) PROVE UNCHANGED <<batch, tried>>
  BY <1>2 DEF WorkerStep, Receive, Load, Start, Report, WriteProgress, Finish, ObserveCancel,
     GiveUpWriting, End, Acknowledge, TaskRaises, WorkerDies, Redeliver, relayVars
<1>3. ASSUME NEW j \in Jobs, SubmitStep(j) \/ Cancel(j) PROVE UNCHANGED <<batch, tried>>
  BY <1>3 DEF SubmitStep, Lookup, Insert, Commit, RollBack, Cancel, relayVars
<1>4. CASE BrokerRestarts \/ UNCHANGED vars
  BY <1>4 DEF BrokerRestarts, vars, relayVars, BatchesApart
<1>5. CASE UNCHANGED <<batch, tried>>
  BY <1>5 DEF BatchesApart
<1> QED BY <1>1, <1>2, <1>3, <1>4, <1>5 DEF Next

\* What one worker does to its Job, and to no other.
LEMMA RunningNext ==
  ASSUME Calm, TypeOK, SubmissionInv, RunInv, RunningIsRun, [Next]_vars
  PROVE  RunningIsRun'
<1>0. /\ WorkerTyped /\ status \in [Jobs -> Statuses \cup {"none"}]
  BY DEF TypeOK, WorkerTyped, WorkerShape
<1>1. ASSUME NEW w \in Workers, WorkerStep(w) PROVE RunningIsRun'
  <2>0. /\ task \in [Workers -> Jobs \cup {None}]
        /\ phase \in [Workers -> {"idle", "received", "chosen", "running", "declining",
                                  "ending", "returned"}]
        /\ phase[w] # "idle" => task[w] \in Jobs
    BY DEF TypeOK
  <2>1. ASSUME NEW i \in Jobs, Receive(w, i) PROVE RunningIsRun'
    BY <2>0, <2>1 DEF Receive, dbVars, RunningIsRun, Ran
  <2>2. CASE Load(w) \/ Acknowledge(w)
    BY <2>0, <2>2 DEF Load, Acknowledge, dbVars, RunningIsRun, Ran
  <2>3. CASE Start(w)
    BY <1>0, <2>0, <2>3 DEF Start, RunningIsRun, Ran
  <2>4. CASE End(w)
    <3>1. outcome[w] \in Terminal /\ phase[w] # "idle"
      BY <2>4 DEF TypeOK, End
    <3>2. status[task[w]] = "running" => status'[task[w]] \in Terminal
      BY <1>0, <2>0, <2>4, <3>1 DEF End, CanMove
    <3>3. \A j \in Jobs \ {task[w]} : status'[j] = status[j]
      BY <1>0, <2>4 DEF End
    <3>4. status'[task[w]] # "running"
      BY <1>0, <2>0, <2>4, <3>1, <3>2 DEF End, CanMove, Terminal
    <3>5. task' = task /\ \A v \in Workers \ {w} : phase'[v] = phase[v]
      BY <2>0, <2>4 DEF End
    <3> QED BY <3>3, <3>4, <3>5 DEF RunningIsRun, Ran
  <2>5. CASE Finish(w) \/ ObserveCancel(w) \/ GiveUpWriting(w)
    BY <2>0, <2>5 DEF Finish, ObserveCancel, GiveUpWriting, HandlerEnds, dbVars, RunningIsRun, Ran
  <2>6. CASE Report(w) \/ WriteProgress(w) \/ Redeliver(w)
    BY <2>0, <2>6 DEF Report, WriteProgress, Redeliver, dbVars, workerVars, RunningIsRun, Ran
  <2>7. ~TaskRaises(w) /\ ~WorkerDies(w)
    BY DEF Calm, TaskRaises, WorkerDies
  <2> QED BY <1>1, <2>1, <2>2, <2>3, <2>4, <2>5, <2>6, <2>7 DEF WorkerStep
<1>2. ASSUME NEW j \in Jobs, Commit(j) \/ Cancel(j) PROVE RunningIsRun'
  <2>1. \A i \in Jobs : status'[i] = "running" => status[i] = "running"
    BY <1>0, <1>2 DEF Commit, Cancel
  <2> QED BY <1>2, <2>1 DEF Commit, Cancel, workerVars, RunningIsRun, Ran
<1>3. CASE UNCHANGED runVars
  BY <1>3 DEF runVars, RunningIsRun, Ran
<1> QED BY <1>1, <1>2, <1>3, RunOthers DEF Next, SubmitStep

\* Every step keeps the invariant.
LEMMA LiveNext == ASSUME Calm PROVE LiveInv /\ [Next]_vars => LiveInv'
BY TypeStep, SubmissionNext, MessageNext, RunNext, CarriedNext, BatchesNext, RunningNext
   DEF LiveInv, Calm

\* Every reachable state satisfies the invariant.
LEMMA LiveHolds == ASSUME Calm PROVE Spec => []LiveInv
<1>1. Init => LiveInv
  BY TypeInit, SubmissionInit, MessageInit, RunInit
     DEF Init, LiveInv, CarriedInv, BatchesApart, RunningIsRun
<1> QED BY <1>1, LiveNext, PTL DEF Spec

\* The step of another worker, of a relay or of a submission leaves a worker alone.
LEMMA OthersLeaveWorker ==
  ASSUME TypeOK, NEW w \in Workers, [Next]_vars, ~WorkerStep(w)
  PROVE  task'[w] = task[w] /\ phase'[w] = phase[w] /\ outcome'[w] = outcome[w]
<1>0. WorkerTyped
  BY DEF TypeOK, WorkerTyped, WorkerShape
<1>1. ASSUME NEW v \in Workers \ {w}, WorkerStep(v)
      PROVE  task'[w] = task[w] /\ phase'[w] = phase[w] /\ outcome'[w] = outcome[w]
  BY <1>0, <1>1 DEF WorkerStep, Receive, Load, Start, Report, WriteProgress, Finish, ObserveCancel,
     GiveUpWriting, HandlerEnds, End, Acknowledge, TaskRaises, WorkerDies, Redeliver, workerVars,
     WorkerTyped
<1>2. ASSUME NEW r \in Relays, RelayStep(r) PROVE UNCHANGED workerVars
  BY <1>2 DEF RelayStep, Claim, CommitBatch, RelayDies, Publish, PublishFails
<1>3. ASSUME NEW j \in Jobs, SubmitStep(j) \/ Cancel(j) PROVE UNCHANGED workerVars
  BY <1>3 DEF SubmitStep, Lookup, Insert, Commit, RollBack, Cancel
<1>4. CASE BrokerRestarts \/ UNCHANGED vars
  BY <1>4 DEF BrokerRestarts, vars, workerVars
<1> QED BY <1>1, <1>2, <1>3, <1>4 DEF Next, workerVars

\* The way of a worker from one message to the next.
LEMMA WorkerWay ==
  ASSUME Calm, NEW w \in Workers, TypeOK, [Next]_vars
  PROVE  /\ phase[w] = "received" => phase'[w] \in {"received", "chosen", "declining", "returned"}
         /\ phase[w] = "chosen" => phase'[w] \in {"chosen", "running", "returned"}
         /\ phase[w] = "running" => phase'[w] \in {"running", "ending"}
         /\ phase[w] \in {"declining", "ending"} => phase'[w] \in {phase[w], "returned"}
         /\ phase[w] = "returned" => phase'[w] \in {"returned", "idle"}
         /\ phase[w] # "idle" => task'[w] = task[w] \/ phase'[w] = "idle"
<1>0. WorkerTyped
  BY DEF TypeOK, WorkerTyped, WorkerShape
<1>1. CASE WorkerStep(w)
  <2>1. CASE (\E j \in Jobs : Receive(w, j)) \/ Load(w) \/ Start(w)
    BY <1>0, <2>1 DEF Receive, Load, Start, WorkerTyped
  <2>2. CASE Report(w) \/ WriteProgress(w) \/ Redeliver(w)
    BY <1>0, <2>2 DEF Report, WriteProgress, Redeliver, workerVars, WorkerTyped
  <2>3. CASE Finish(w) \/ ObserveCancel(w) \/ GiveUpWriting(w)
    BY <1>0, <2>3 DEF Finish, ObserveCancel, GiveUpWriting, HandlerEnds, WorkerTyped
  <2>4. CASE End(w) \/ Acknowledge(w)
    BY <1>0, <2>4 DEF End, Acknowledge, WorkerTyped
  <2>5. ~TaskRaises(w) /\ ~WorkerDies(w)
    BY DEF Calm, TaskRaises, WorkerDies
  <2> QED BY <1>1, <2>1, <2>2, <2>3, <2>4, <2>5 DEF WorkerStep
<1>2. CASE ~WorkerStep(w)
  BY <1>2, OthersLeaveWorker
<1> QED BY <1>1, <1>2

\* A worker's steps take it out of the phase they happen in.
LEMMA WorkerMoves ==
  ASSUME NEW w \in Workers, TypeOK
  PROVE  /\ Load(w) => phase'[w] # "received"
         /\ Start(w) => phase'[w] # "chosen"
         /\ WriteProgress(w) => writing'[w] = "no"
         /\ Finish(w) => phase'[w] # "running"
         /\ End(w) => phase'[w] \notin {"declining", "ending"}
         /\ Acknowledge(w) => phase'[w] # "returned"
<1>0. WorkerTyped /\ writing \in [Workers -> {"no", "waited", "late"}]
  BY DEF TypeOK, WorkerTyped, WorkerShape
<1> QED BY <1>0 DEF Load, Start, WriteProgress, Finish, HandlerEnds, End, Acknowledge, WorkerTyped

\* A handler ends: nothing but its progress writes is between it and its end.
LEMMA HandlerReturns ==
  ASSUME Calm, NEW w \in Workers
  PROVE  Spec /\ GuardedFairness => (phase[w] = "running" ~> phase[w] = "ending")
<1> DEFINE Running == phase[w] = "running"
           Ending == phase[w] = "ending"
           Busy == writing[w] # "no"
<1>1. LiveInv /\ Running /\ [Next]_vars => Running' \/ Ending'
  BY WorkerWay DEF LiveInv
<1>2. LiveInv /\ <<Finish(w)>>_vars => ~Running'
  BY WorkerMoves DEF LiveInv
<1>3. LiveInv /\ <<WriteProgress(w)>>_vars => ~Busy'
  BY WorkerMoves DEF LiveInv
<1>4. Running /\ ~Busy => CanFinish(w)
  BY DEF CanFinish
<1>5. GuardedFairness =>
        /\ <>[]Busy => []<><<WriteProgress(w)>>_vars
        /\ []<>CanFinish(w) => []<><<Finish(w)>>_vars
  BY DEF GuardedFairness
<1> HIDE DEF Running, Ending, Busy
<1>6. Spec /\ GuardedFairness => (Running ~> Ending)
  BY <1>1, <1>2, <1>3, <1>4, <1>5, LiveHolds, PTL DEF Spec
<1> QED BY <1>6 DEF Running, Ending

\* A worker becomes idle again, whatever it took.
LEMMA WorkerIsIdleAgain ==
  ASSUME Calm, NEW w \in Workers
  PROVE  Spec /\ GuardedFairness => []<>(phase[w] = "idle")
<1> DEFINE Idle == phase[w] = "idle"
           Received == phase[w] = "received"
           Chosen == phase[w] = "chosen"
           Running == phase[w] = "running"
           Ending == phase[w] = "ending"
           Declining == phase[w] = "declining"
           Returned == phase[w] = "returned"
<1>1. LiveInv => Idle \/ Received \/ Chosen \/ Running \/ Ending \/ Declining \/ Returned
  BY DEF LiveInv, TypeOK
<1>2. /\ LiveInv /\ Received /\ [Next]_vars => Received' \/ Chosen' \/ Declining' \/ Returned'
      /\ LiveInv /\ Chosen /\ [Next]_vars => Chosen' \/ Running' \/ Returned'
      /\ LiveInv /\ Declining /\ [Next]_vars => Declining' \/ Returned'
      /\ LiveInv /\ Ending /\ [Next]_vars => Ending' \/ Returned'
      /\ LiveInv /\ Returned /\ [Next]_vars => Returned' \/ Idle'
  BY WorkerWay DEF LiveInv
<1>3. /\ LiveInv /\ <<Load(w)>>_vars => ~Received'
      /\ LiveInv /\ <<Start(w)>>_vars => ~Chosen'
      /\ LiveInv /\ <<End(w)>>_vars => ~Declining' /\ ~Ending'
      /\ LiveInv /\ <<Acknowledge(w)>>_vars => ~Returned'
  BY WorkerMoves DEF LiveInv
<1>4. Declining \/ Ending => CanEnd(w)
  BY DEF CanEnd
<1>5. GuardedFairness =>
        /\ <>[]Received => []<><<Load(w)>>_vars
        /\ <>[]Chosen => []<><<Start(w)>>_vars
        /\ <>[]CanEnd(w) => []<><<End(w)>>_vars
        /\ <>[]Returned => []<><<Acknowledge(w)>>_vars
  BY DEF GuardedFairness
<1>6. Spec /\ GuardedFairness => (Running ~> Ending)
  BY HandlerReturns
<1> HIDE DEF Idle, Received, Chosen, Running, Ending, Declining, Returned
<1>7. Spec /\ GuardedFairness => []<>Idle
  BY <1>1, <1>2, <1>3, <1>4, <1>5, <1>6, LiveHolds, PTL DEF Spec
<1> QED BY <1>7 DEF Idle

\* A queued Job is started, ended, or still queued.
LEMMA QueuedWay ==
  ASSUME NEW j \in Jobs, TypeOK, [Next]_vars, status[j] = "queued"
  PROVE  status'[j] \in {"queued", "running"} \cup Terminal
<1>0. TypeOK' /\ status \in [Jobs -> Statuses \cup {"none"}]
  BY TypeStep DEF TypeOK
<1>1. ASSUME NEW i \in Jobs, SubmitStep(i) PROVE status'[j] # "none"
  BY <1>0, <1>1 DEF SubmitStep, Lookup, Insert, Commit, RollBack, dbVars
<1>2. ASSUME ~ \E i \in Jobs : SubmitStep(i) PROVE status'[j] # "none"
  BY <1>2, CommittedStable DEF Next
<1> QED BY <1>0, <1>1, <1>2 DEF TypeOK, Statuses

Held(w, j) == task[w] = j /\ phase[w] \in {"received", "chosen", "declining"}

\* What becomes of a queued Job in the hands of a worker.
LEMMA HeldWay ==
  ASSUME Calm, NEW w \in Workers, NEW j \in Jobs, LiveInv, [Next]_vars,
         status[j] = "queued", task[w] = j
  PROVE  /\ phase[w] = "received" => Held(w, j)'
         /\ phase[w] = "chosen" => (task[w] = j /\ phase[w] = "chosen")' \/ status'[j] # "queued"
         /\ phase[w] = "declining" =>
              (task[w] = j /\ phase[w] = "declining")' \/ status'[j] # "queued"
<1>0. WorkerTyped /\ status \in [Jobs -> Statuses \cup {"none"}]
  BY DEF LiveInv, TypeOK, WorkerTyped, WorkerShape
<1>1. CASE ~WorkerStep(w)
  BY <1>1, OthersLeaveWorker DEF LiveInv, Held
<1>2. CASE Load(w)
  BY <1>0, <1>2 DEF Load, Held, WorkerTyped
<1>3. CASE Start(w)
  BY <1>0, <1>3 DEF Start, WorkerTyped, CanMove
<1>4. CASE End(w)
  <2>1. phase[w] = "declining" => outcome[w] = "failed"
    BY DEF LiveInv, RunInv, DeclinesTheUnhandled
  <2>2. phase[w] = "declining" => status'[j] = "failed"
    BY <1>0, <1>4, <2>1 DEF End, CanMove
  <2> QED BY <1>4, <2>2 DEF End
<1>5. CASE Report(w) \/ WriteProgress(w) \/ Redeliver(w)
  BY <1>5 DEF Report, WriteProgress, Redeliver, workerVars, Held
<1>6. CASE Finish(w) \/ ObserveCancel(w) \/ GiveUpWriting(w) \/ Acknowledge(w)
           \/ \E i \in Jobs : Receive(w, i)
  BY <1>6 DEF Finish, ObserveCancel, GiveUpWriting, Acknowledge, Receive
<1>7. ~TaskRaises(w) /\ ~WorkerDies(w)
  BY DEF Calm, TaskRaises, WorkerDies
<1> QED BY <1>1, <1>2, <1>3, <1>4, <1>5, <1>6, <1>7 DEF WorkerStep

\* A worker starts, fails or finds ended the queued Job it holds.
LEMMA HeldJobStarts ==
  ASSUME Calm, NEW j \in Jobs, NEW w \in Workers
  PROVE  Spec /\ GuardedFairness =>
           (status[j] = "queued" /\ Held(w, j) ~> ~(status[j] = "queued"))
<1> DEFINE Queued == status[j] = "queued"
           Received == task[w] = j /\ phase[w] = "received"
           Chosen == task[w] = j /\ phase[w] = "chosen"
           Declining == task[w] = j /\ phase[w] = "declining"
           PhaseReceived == phase[w] = "received"
           PhaseChosen == phase[w] = "chosen"
<1>1. /\ LiveInv /\ Queued /\ Received /\ [Next]_vars => Received' \/ Chosen' \/ Declining'
      /\ LiveInv /\ Queued /\ Chosen /\ [Next]_vars => Chosen' \/ ~Queued'
      /\ LiveInv /\ Queued /\ Declining /\ [Next]_vars => Declining' \/ ~Queued'
  BY HeldWay DEF Held
<1>2. /\ LiveInv /\ <<Load(w)>>_vars => ~Received'
      /\ LiveInv /\ <<Start(w)>>_vars => ~Chosen'
      /\ LiveInv /\ <<End(w)>>_vars => ~Declining'
  BY WorkerMoves DEF LiveInv
<1>3. (Declining => CanEnd(w)) /\ (Received => PhaseReceived) /\ (Chosen => PhaseChosen)
  BY DEF CanEnd
<1>4. GuardedFairness =>
        /\ <>[]PhaseReceived => []<><<Load(w)>>_vars
        /\ <>[]PhaseChosen => []<><<Start(w)>>_vars
        /\ <>[]CanEnd(w) => []<><<End(w)>>_vars
  BY DEF GuardedFairness
<1>5. Queued /\ Held(w, j) => Received \/ Chosen \/ Declining
  BY DEF Held
<1> HIDE DEF Queued, Received, Chosen, Declining, PhaseReceived, PhaseChosen
<1>6. Spec /\ GuardedFairness => (Queued /\ Held(w, j) ~> ~Queued)
  BY <1>1, <1>2, <1>3, <1>4, <1>5, LiveHolds, PTL DEF Spec
<1> QED BY <1>6 DEF Queued

\* What becomes of a running Job in the hands of the worker that runs it.
LEMMA EndingWay ==
  ASSUME Calm, NEW w \in Workers, NEW j \in Jobs, LiveInv, [Next]_vars,
         task[w] = j, phase[w] = "ending"
  PROVE  (task[w] = j /\ phase[w] = "ending")' \/ status'[j] \in Terminal
<1>0. WorkerTyped /\ status \in [Jobs -> Statuses \cup {"none"}]
  BY DEF LiveInv, TypeOK, WorkerTyped, WorkerShape
<1>1. CASE ~WorkerStep(w)
  BY <1>1, OthersLeaveWorker DEF LiveInv
<1>2. CASE End(w)
  <2>1. outcome[w] \in Terminal
    BY DEF LiveInv, TypeOK
  <2>2. status[j] \in {"running"} \cup Terminal
    BY <1>0 DEF LiveInv, RunInv, RunsARunningJob, Statuses
  <2> QED BY <1>0, <1>2, <2>1, <2>2 DEF End, CanMove
<1>3. CASE Report(w) \/ WriteProgress(w) \/ Redeliver(w)
  BY <1>3 DEF Report, WriteProgress, Redeliver, workerVars
<1>4. CASE Finish(w) \/ ObserveCancel(w) \/ GiveUpWriting(w) \/ Acknowledge(w)
           \/ Load(w) \/ Start(w) \/ \E i \in Jobs : Receive(w, i)
  BY <1>4 DEF Finish, ObserveCancel, GiveUpWriting, Acknowledge, Receive, Load, Start
<1>5. ~TaskRaises(w) /\ ~WorkerDies(w)
  BY DEF Calm, TaskRaises, WorkerDies
<1> QED BY <1>1, <1>2, <1>3, <1>4, <1>5 DEF WorkerStep

\* The Job a worker runs ends.
LEMMA RunOfOneEnds ==
  ASSUME Calm, NEW j \in Jobs, NEW w \in Workers
  PROVE  Spec /\ GuardedFairness =>
           (task[w] = j /\ Ran(w) ~> status[j] \in Terminal)
<1> DEFINE Run == task[w] = j /\ phase[w] = "running"
           Finishing == task[w] = j /\ phase[w] = "ending"
           PhaseRunning == phase[w] = "running"
           PhaseEnding == phase[w] = "ending"
           Ended == status[j] \in Terminal
           Either == task[w] = j /\ Ran(w)
<1>1. LiveInv /\ Run /\ [Next]_vars => Run' \/ Finishing'
  BY WorkerWay DEF LiveInv
<1>2. LiveInv /\ Finishing /\ [Next]_vars => Finishing' \/ Ended'
  BY EndingWay
<1>3. LiveInv /\ <<End(w)>>_vars => ~Finishing'
  BY WorkerMoves DEF LiveInv
<1>4. /\ Finishing => CanEnd(w) /\ PhaseEnding
      /\ Run => PhaseRunning
      /\ ~(PhaseRunning /\ PhaseEnding)
      /\ Either => Run \/ Finishing
  BY DEF CanEnd, Ran
<1>5. GuardedFairness => (<>[]CanEnd(w) => []<><<End(w)>>_vars)
  BY DEF GuardedFairness
<1>6. Spec /\ GuardedFairness => (PhaseRunning ~> PhaseEnding)
  BY HandlerReturns
<1> HIDE DEF Run, Finishing, PhaseRunning, PhaseEnding, Ended, Either
<1>7. Spec /\ GuardedFairness => (Either ~> Ended)
  BY <1>1, <1>2, <1>3, <1>4, <1>5, <1>6, LiveHolds, PTL DEF Spec
<1> QED BY <1>7 DEF Either, Ended

\* A running Job ends.
LEMMA RunEnds ==
  ASSUME Calm, NEW j \in Jobs
  PROVE  Spec /\ GuardedFairness => (status[j] = "running" ~> status[j] \in Terminal)
<1> DEFINE Run(w) == task[w] = j /\ Ran(w)
           Ended == status[j] \in Terminal
           Running == status[j] = "running"
<1>1. \A w \in Workers : Spec /\ GuardedFairness => [](Run(w) => <>Ended)
  <2> TAKE w \in Workers
  <2>1. Spec /\ GuardedFairness => (Run(w) ~> Ended)
    BY RunOfOneEnds
  <2> HIDE DEF Run, Ended
  <2> QED BY <2>1, PTL
<1>2. LiveInv /\ Running => \E w \in Workers : Run(w)
  BY DEF LiveInv, RunningIsRun
<1> HIDE DEF Run, Ended, Running
<1>3. Spec /\ GuardedFairness => \A w \in Workers : [](Run(w) => <>Ended)
  BY <1>1
<1>4. Spec /\ GuardedFairness => [](\A w \in Workers : Run(w) => <>Ended)
  BY <1>3
<1>5. (\A w \in Workers : Run(w) => <>Ended) => ((\E w \in Workers : Run(w)) => <>Ended)
  OBVIOUS
<1>6. Spec /\ GuardedFairness => (Running ~> Ended)
  BY <1>2, <1>4, <1>5, LiveHolds, PTL
<1> QED BY <1>6 DEF Running, Ended

\* A message waits until a worker takes it.
LEMMA MessageWaits ==
  ASSUME Calm, NEW j \in Jobs, TypeOK, [Next]_vars, ready[j] > 0
  PROVE  ready'[j] > 0 \/ \E w \in Workers : Held(w, j)'
<1>0. ready \in [Jobs -> Nat]
  BY DEF TypeOK
<1>1. ASSUME NEW w \in Workers, WorkerStep(w), ~ \E i \in Jobs : Receive(w, i)
      PROVE  ready'[j] > 0
  BY <1>0, <1>1 DEF WorkerStep, Load, Start, Report, WriteProgress, Finish, ObserveCancel,
     GiveUpWriting, End, Acknowledge, TaskRaises, WorkerDies, Redeliver
<1>2. ASSUME NEW w \in Workers, NEW i \in Jobs, Receive(w, i)
      PROVE  ready'[j] > 0 \/ Held(w, j)'
  <2>0. WorkerTyped
    BY DEF TypeOK, WorkerTyped, WorkerShape
  <2> QED BY <1>0, <1>2, <2>0 DEF Receive, Held, WorkerTyped
<1>3. ASSUME NEW r \in Relays, RelayStep(r) PROVE ready'[j] > 0
  BY <1>0, <1>3 DEF RelayStep, Claim, CommitBatch, RelayDies, Publish, PublishFails
<1>4. ASSUME NEW i \in Jobs, SubmitStep(i) \/ Cancel(i) PROVE UNCHANGED ready
  BY <1>4 DEF SubmitStep, Lookup, Insert, Commit, RollBack, Cancel
<1>5. ~BrokerRestarts
  BY DEF Calm, BrokerRestarts
<1> QED BY <1>1, <1>2, <1>3, <1>4, <1>5 DEF Next, vars

\* A worker that takes a message holds its Job.
LEMMA ReceivedIsHeld ==
  ASSUME NEW j \in Jobs, TypeOK, \E w \in Workers : Receive(w, j)
  PROVE  \E w \in Workers : Held(w, j)'
<1>1. PICK w \in Workers : Receive(w, j)
  OBVIOUS
<1>2. task \in [Workers -> Jobs \cup {None}] /\ DOMAIN phase = Workers
  BY DEF TypeOK
<1>3. Held(w, j)'
  BY <1>1, <1>2 DEF Receive, Held, TypeOK
<1> QED BY <1>3

\* A queued Job that some worker holds is started or ended.
LEMMA InHandsStarts ==
  ASSUME Calm, NEW j \in Jobs
  PROVE  Spec /\ GuardedFairness =>
           (status[j] = "queued" /\ (\E w \in Workers : Held(w, j)) ~> ~(status[j] = "queued"))
<1> DEFINE Queued == status[j] = "queued"
           Holds(w) == status[j] = "queued" /\ Held(w, j)
           InHands == \E w \in Workers : Held(w, j)
<1>1. \A w \in Workers : Spec /\ GuardedFairness => [](Holds(w) => <>~Queued)
  <2> TAKE w \in Workers
  <2>1. Spec /\ GuardedFairness => (Holds(w) ~> ~Queued)
    BY HeldJobStarts
  <2> HIDE DEF Holds, Queued
  <2> QED BY <2>1, PTL
<1>2. Queued /\ InHands => \E w \in Workers : Holds(w)
  OBVIOUS
<1> HIDE DEF Queued, Holds, InHands
<1>3. Spec /\ GuardedFairness => \A w \in Workers : [](Holds(w) => <>~Queued)
  BY <1>1
<1>4. Spec /\ GuardedFairness => [](\A w \in Workers : Holds(w) => <>~Queued)
  BY <1>3
<1>5. (\A w \in Workers : Holds(w) => <>~Queued) => ((\E w \in Workers : Holds(w)) => <>~Queued)
  OBVIOUS
<1>6. Spec /\ GuardedFairness => (Queued /\ InHands ~> ~Queued)
  BY <1>2, <1>4, <1>5, PTL
<1> QED BY <1>6 DEF Queued, InHands

\* Some worker becomes idle again.
LEMMA SomeoneIsIdleAgain ==
  ASSUME Calm, Workers # {}
  PROVE  Spec /\ GuardedFairness => []<>(\E w \in Workers : phase[w] = "idle")
<1> DEFINE SomeIdle == \E w \in Workers : phase[w] = "idle"
<1>1. ASSUME NEW w \in Workers PROVE Spec /\ GuardedFairness => []<>SomeIdle
  <2> DEFINE Idle == phase[w] = "idle"
  <2>1. Spec /\ GuardedFairness => []<>Idle
    BY WorkerIsIdleAgain
  <2>2. Idle => SomeIdle
    OBVIOUS
  <2> HIDE DEF Idle, SomeIdle
  <2> QED BY <2>1, <2>2, PTL
<1> HIDE DEF SomeIdle
<1>2. Spec /\ GuardedFairness => []<>SomeIdle
  BY <1>1
<1> QED BY <1>2 DEF SomeIdle

\* A queued Job whose message waits, or is held, is started or ended.
LEMMA UnderwayStarts ==
  ASSUME Calm, Workers # {}, NEW j \in Jobs
  PROVE  Spec /\ GuardedFairness =>
           (status[j] = "queued" /\ Underway(j) ~> ~(status[j] = "queued"))
<1> DEFINE Queued == status[j] = "queued"
           Waits == ready[j] > 0
           InHands == \E w \in Workers : Held(w, j)
           SomeIdle == \E w \in Workers : phase[w] = "idle"
<1>1. Spec /\ GuardedFairness => (Queued /\ InHands ~> ~Queued)
  BY InHandsStarts
<1>2. GuardedFairness => ([]<>CanReceive(j) => []<><<SomeReceive(j)>>_vars)
  BY DEF GuardedFairness
<1>3. Spec /\ GuardedFairness => []<>SomeIdle
  BY SomeoneIsIdleAgain
<1>4. LiveInv /\ Waits /\ [Next]_vars => Waits' \/ InHands'
  BY MessageWaits DEF LiveInv
<1>5. LiveInv /\ <<SomeReceive(j)>>_vars => InHands'
  BY ReceivedIsHeld DEF LiveInv, SomeReceive
<1>6. Waits /\ SomeIdle => CanReceive(j)
  BY DEF CanReceive
<1>7. Underway(j) => Waits \/ InHands
  BY DEF Underway, Held
<1> HIDE DEF Queued, Waits, InHands, SomeIdle
<1>8. Spec /\ GuardedFairness => (Queued /\ Underway(j) ~> ~Queued)
  BY <1>1, <1>2, <1>3, <1>4, <1>5, <1>6, <1>7, LiveHolds, PTL DEF Spec
<1> QED BY <1>8 DEF Queued

\* Rows a relay may claim: a pending one is among the first of them.
InFront(j) == outbox[j] = "pending" /\ j \notin Locked => j \in FirstOf(Claimable)

Untried(j) == \E r \in Relays : j \in batch[r] \ tried[r]

\* A row that a relay has tried stays in its batch until the batch is let go.
LEMMA TriedWay ==
  ASSUME NEW j \in Jobs, NEW r \in Relays, TypeOK, BatchesApart, [Next]_vars,
         j \in batch[r] \cap tried[r]
  PROVE  j \in (batch[r] \cap tried[r])' \/ j \notin Locked'
<1>0. batch \in [Relays -> SUBSET Jobs] /\ tried \in [Relays -> SUBSET Jobs]
  BY DEF TypeOK
<1>1. \A q \in Relays : q # r => j \notin batch[q]
  BY DEF BatchesApart
<1>2. ASSUME NEW q \in Relays, RelayStep(q) PROVE j \in (batch[r] \cap tried[r])' \/ j \notin Locked'
  <2>1. CASE Claim(q)
    <3>1. batch' = [batch EXCEPT ![q] = FirstOf(Claimable)] /\ tried' = tried /\ batch[q] = {}
      BY <2>1 DEF Claim
    <3> QED BY <1>0, <3>1
  <2>2. CASE CommitBatch(q) \/ RelayDies(q)
    <3>1. batch' = [batch EXCEPT ![q] = {}] /\ tried' = [tried EXCEPT ![q] = {}]
      BY <2>2 DEF CommitBatch, RelayDies, Release
    <3>2. CASE q = r
      BY <1>0, <1>1, <3>1, <3>2 DEF Locked
    <3>3. CASE q # r
      BY <1>0, <3>1, <3>3
    <3> QED BY <3>2, <3>3
  <2>3. CASE \E i \in Jobs : Publish(q, i) \/ PublishFails(q, i)
    BY <1>0, <2>3 DEF Publish, PublishFails
  <2> QED BY <1>2, <2>1, <2>2, <2>3 DEF RelayStep
<1>3. CASE UNCHANGED <<batch, tried>>
  BY <1>3
<1>4. ASSUME NEW w \in Workers, WorkerStep(w) PROVE UNCHANGED <<batch, tried>>
  BY <1>4 DEF WorkerStep, Receive, Load, Start, Report, WriteProgress, Finish, ObserveCancel,
     GiveUpWriting, End, Acknowledge, TaskRaises, WorkerDies, Redeliver, relayVars
<1>5. ASSUME NEW i \in Jobs, SubmitStep(i) \/ Cancel(i) PROVE UNCHANGED <<batch, tried>>
  BY <1>5 DEF SubmitStep, Lookup, Insert, Commit, RollBack, Cancel, relayVars
<1>6. CASE BrokerRestarts \/ UNCHANGED vars
  BY <1>6 DEF BrokerRestarts, vars, relayVars
<1> QED BY <1>2, <1>3, <1>4, <1>5, <1>6 DEF Next

\* A row nobody has locked is locked to be tried, and the relay that claims takes those in front.
LEMMA FreeWay ==
  ASSUME NEW j \in Jobs, TypeOK, BatchesApart, [Next]_vars, j \notin Locked
  PROVE  /\ j \notin Locked' \/ Untried(j)'
         /\ \A r \in Relays : Claim(r) /\ j \in FirstOf(Claimable) => Untried(j)'
<1>0. batch \in [Relays -> SUBSET Jobs] /\ tried \in [Relays -> SUBSET Jobs]
  BY DEF TypeOK
<1>1. \A q \in Relays : j \notin batch[q]
  BY DEF Locked
<1>2. ASSUME NEW q \in Relays, RelayStep(q)
      PROVE  /\ j \notin Locked' \/ Untried(j)'
             /\ Claim(q) /\ j \in FirstOf(Claimable) => Untried(j)'
  <2>1. CASE Claim(q)
    <3>1. batch' = [batch EXCEPT ![q] = FirstOf(Claimable)] /\ tried' = tried /\ batch[q] = {}
      BY <2>1 DEF Claim
    <3>2. tried[q] = {}
      BY <3>1 DEF BatchesApart
    <3>3. j \in FirstOf(Claimable) => j \in batch'[q] \ tried'[q]
      BY <1>0, <3>1, <3>2
    <3>4. j \notin FirstOf(Claimable) => \A p \in Relays : j \notin batch'[p]
      BY <1>0, <1>1, <3>1
    <3> QED BY <3>3, <3>4 DEF Untried, Locked
  <2>2. CASE CommitBatch(q) \/ RelayDies(q)
    <3>1. \A p \in Relays : j \notin batch'[p]
      BY <1>0, <1>1, <2>2 DEF CommitBatch, RelayDies, Release
    <3>2. ~Claim(q)
      BY <2>2 DEF CommitBatch, RelayDies, Claim
    <3> QED BY <3>1, <3>2 DEF Locked
  <2>3. CASE \E i \in Jobs : Publish(q, i) \/ PublishFails(q, i)
    BY <1>0, <1>1, <2>3 DEF Publish, PublishFails, Locked, Claim
  <2> QED BY <1>2, <2>1, <2>2, <2>3 DEF RelayStep
<1>3. \A q \in Relays : Claim(q) => RelayStep(q)
  BY DEF RelayStep
<1>4. ASSUME UNCHANGED batch PROVE j \notin Locked'
  BY <1>1, <1>4 DEF Locked
<1>5. ASSUME NEW w \in Workers, WorkerStep(w) PROVE UNCHANGED batch
  BY <1>5 DEF WorkerStep, Receive, Load, Start, Report, WriteProgress, Finish, ObserveCancel,
     GiveUpWriting, End, Acknowledge, TaskRaises, WorkerDies, Redeliver, relayVars
<1>6. ASSUME NEW i \in Jobs, SubmitStep(i) \/ Cancel(i) PROVE UNCHANGED batch
  BY <1>6 DEF SubmitStep, Lookup, Insert, Commit, RollBack, Cancel, relayVars
<1>7. ASSUME BrokerRestarts \/ UNCHANGED vars PROVE UNCHANGED batch
  BY <1>7 DEF BrokerRestarts, vars, relayVars
<1> QED BY <1>2, <1>3, <1>4, <1>5, <1>6, <1>7 DEF Next

\* A row that was tried comes free: its relay commits, or dies.
LEMMA TriedComesFree ==
  ASSUME Calm, NEW j \in Jobs, NEW r \in Relays
  PROVE  Spec /\ RelaysComeRound =>
           (j \in batch[r] \cap tried[r] ~> j \notin Locked)
<1> DEFINE Tried == j \in batch[r] \cap tried[r]
           Free == j \notin Locked
           Between == batch[r] = {}
<1>1. LiveInv /\ Tried /\ [Next]_vars => Tried' \/ Free'
  BY TriedWay DEF LiveInv
<1>2. Tried => ~Between
  OBVIOUS
<1>3. RelaysComeRound => []<>Between
  BY DEF RelaysComeRound
<1> HIDE DEF Tried, Free, Between
<1>4. Spec /\ RelaysComeRound => (Tried ~> Free)
  BY <1>1, <1>2, <1>3, LiveHolds, PTL DEF Spec
<1> QED BY <1>4 DEF Tried, Free

\* A row some relay has tried comes free.
LEMMA SomeTriedComesFree ==
  ASSUME Calm, NEW j \in Jobs
  PROVE  Spec /\ RelaysComeRound =>
           ((\E r \in Relays : j \in batch[r] \cap tried[r]) ~> j \notin Locked)
<1> DEFINE Tried(r) == j \in batch[r] \cap tried[r]
           Free == j \notin Locked
<1>1. \A r \in Relays : Spec /\ RelaysComeRound => [](Tried(r) => <>Free)
  <2> TAKE r \in Relays
  <2>1. Spec /\ RelaysComeRound => (Tried(r) ~> Free)
    BY TriedComesFree
  <2> HIDE DEF Tried, Free
  <2> QED BY <2>1, PTL
<1> HIDE DEF Tried, Free
<1>2. Spec /\ RelaysComeRound => \A r \in Relays : [](Tried(r) => <>Free)
  BY <1>1
<1>3. Spec /\ RelaysComeRound => [](\A r \in Relays : Tried(r) => <>Free)
  BY <1>2
<1>4. (\A r \in Relays : Tried(r) => <>Free) => ((\E r \in Relays : Tried(r)) => <>Free)
  OBVIOUS
<1>5. Spec /\ RelaysComeRound => ((\E r \in Relays : Tried(r)) ~> Free)
  BY <1>3, <1>4, PTL
<1> QED BY <1>5 DEF Tried, Free

\* What the outbox holds of a queued Job that is not under way.
LEMMA WaitsInOutbox ==
  ASSUME NEW j \in Jobs, j \notin Unroutable, LiveInv, status[j] = "queued", ~Underway(j)
  PROVE  /\ outbox[j] = "pending"
         /\ Untried(j) => CanPublish(j)
         /\ Untried(j) \/ (\E r \in Relays : j \in batch[r] \cap tried[r]) \/ j \notin Locked
<1>1. /\ outbox \in [Jobs -> {"none", "pending", "published"}]
      /\ ready \in [Jobs -> 0..CopiesBound]
  BY DEF LiveInv, TypeOK
<1>2. outbox[j] = "pending"
  BY <1>1 DEF LiveInv, CarriedInv
<1>3. ready[j] < CopiesBound
  BY <1>1, JobConstants DEF Underway
<1> QED BY <1>2, <1>3 DEF Untried, CanPublish, Locked

\* A queued Job is under way sooner or later, if its row is in front when a relay claims.
LEMMA GetsUnderway ==
  ASSUME Calm, Relays # {}, NEW j \in Jobs, j \notin Unroutable
  PROVE  Spec /\ GuardedFairness /\ RelaysComeRound /\ []InFront(j) =>
           []<>~(status[j] = "queued" /\ ~Underway(j))
<1> DEFINE Stuck == status[j] = "queued" /\ ~Underway(j)
           Tried == \E r \in Relays : j \in batch[r] \cap tried[r]
           Free == j \notin Locked
<1>1. Spec /\ RelaysComeRound => (Tried ~> Free)
  BY SomeTriedComesFree
<1>2. LiveInv /\ Stuck => (Untried(j) => CanPublish(j)) /\ (Untried(j) \/ Tried \/ Free)
  BY WaitsInOutbox
<1>3. LiveInv /\ <<SomePublish(j)>>_vars => ~Stuck'
  BY DEF LiveInv, TypeOK, SomePublish, Publish, Underway
<1>4. GuardedFairness => ([]<>CanPublish(j) => []<><<SomePublish(j)>>_vars)
  BY DEF GuardedFairness
<1>5. LiveInv /\ Free /\ [Next]_vars => Free' \/ Untried(j)'
  BY FreeWay DEF LiveInv
<1>6. PICK r \in Relays : TRUE
  OBVIOUS
<1> DEFINE Between == batch[r] = {}
<1>7. RelaysComeRound => []<>Between
  BY <1>6 DEF RelaysComeRound
<1>8. GuardedFairness => ([]<>CanClaim(r) => []<><<Claim(r)>>_vars)
  BY <1>6 DEF GuardedFairness
<1>9. LiveInv /\ Stuck /\ Free /\ Between => CanClaim(r)
  BY WaitsInOutbox DEF CanClaim, Claimable
<1>10. LiveInv /\ Stuck /\ Free /\ InFront(j) /\ [Next]_vars /\ <<Claim(r)>>_vars => Untried(j)'
  <2> SUFFICES ASSUME LiveInv, Stuck, Free, InFront(j), [Next]_vars, Claim(r)
               PROVE  Untried(j)'
    OBVIOUS
  <2>1. j \in FirstOf(Claimable)
    BY WaitsInOutbox DEF InFront
  <2> QED BY <2>1, FreeWay DEF LiveInv
<1> HIDE DEF Stuck, Tried, Free, Between
<1>11. Spec /\ GuardedFairness /\ RelaysComeRound /\ []InFront(j) => []<>~Stuck
  BY <1>1, <1>2, <1>3, <1>4, <1>5, <1>7, <1>8, <1>9, <1>10, LiveHolds, PTL DEF Spec
<1> QED BY <1>11 DEF Stuck

\* A Job whose row is in front whenever a relay claims ends, once it was accepted.
LEMMA JobEnds ==
  ASSUME Calm, Relays # {}, Workers # {}, NEW j \in Jobs, j \notin Unroutable
  PROVE  Spec /\ GuardedFairness /\ RelaysComeRound /\ []InFront(j) =>
           (status[j] = "queued" ~> status[j] \in Terminal)
<1> DEFINE Queued == status[j] = "queued"
           Running == status[j] = "running"
           Ended == status[j] \in Terminal
<1>1. LiveInv /\ Queued /\ [Next]_vars => Queued' \/ Running' \/ Ended'
  BY QueuedWay DEF LiveInv
<1>2. Spec /\ GuardedFairness => (Running ~> Ended)
  BY RunEnds
<1>3. Spec /\ GuardedFairness => (Queued /\ Underway(j) ~> ~Queued)
  BY UnderwayStarts
<1>4. Spec /\ GuardedFairness /\ RelaysComeRound /\ []InFront(j) =>
        []<>~(Queued /\ ~Underway(j))
  BY GetsUnderway
<1> HIDE DEF Queued, Running, Ended
<1>5. Spec /\ GuardedFairness /\ RelaysComeRound /\ []InFront(j) => (Queued ~> Ended)
  BY <1>1, <1>2, <1>3, <1>4, LiveHolds, PTL DEF Spec
<1> QED BY <1>5 DEF Queued, Ended

\* Liveness, for any number of Jobs: an accepted Job whose row is among the oldest BatchSize
\* whenever it is pending and free reaches an end.  relay_once, the broker and execute_job
\* bring it there past relays that die, publishes that fail and redeliveries.
THEOREM AcceptedJobsEnd ==
  ASSUME Calm, Relays # {}, Workers # {}
  PROVE  Spec /\ GuardedFairness /\ RelaysComeRound =>
           \A j \in Jobs \ Unroutable :
             []InFront(j) => (status[j] = "queued" ~> status[j] \in Terminal)
<1>1. ASSUME NEW j \in Jobs, j \notin Unroutable
      PROVE  Spec /\ GuardedFairness /\ RelaysComeRound =>
               ([]InFront(j) => (status[j] = "queued" ~> status[j] \in Terminal))
  BY <1>1, JobEnds
<1> QED BY <1>1

\* A submission has one place in the order of creation, and takes it when it looks up its key.
CreatedOnce ==
  /\ \A m \in DOMAIN created : request[created[m]] # "new"
  /\ \A m, n \in DOMAIN created : created[m] = created[n] => m = n

\* Only a new submission is appended, and none becomes new again.
LEMMA CreatedNext ==
  ASSUME TypeOK, CreatedOnce, [Next]_vars
  PROVE  CreatedOnce'
<1>0. request \in [Jobs -> {"new", "looked", "inserted", "answered", "conflict", "mismatch", "lost"}]
      /\ created \in Seq(Jobs)
  BY DEF TypeOK
<1>1. ASSUME NEW j \in Jobs, Lookup(j) PROVE CreatedOnce'
  <2>1. request[j] = "new" /\ \A i \in Jobs \ {j} : request'[i] = request[i]
    BY <1>0, <1>1 DEF Lookup
  <2>2. request'[j] # "new"
    BY <1>0, <1>1 DEF Lookup
  <2>3. \A m \in DOMAIN created : created[m] \in Jobs /\ created[m] # j
    BY <1>0, <2>1 DEF CreatedOnce
  <2>4. CASE created' = Append(created, j)
    <3>1. /\ DOMAIN created' = 1 .. Len(created) + 1
          /\ \A m \in 1 .. Len(created) : created'[m] = created[m]
          /\ created'[Len(created) + 1] = j /\ DOMAIN created = 1 .. Len(created)
          /\ Len(created) \in Nat
      BY <1>0, <2>4
    <3> QED BY <2>1, <2>2, <2>3, <3>1 DEF CreatedOnce
  <2>5. CASE created' = created
    BY <2>1, <2>3, <2>5 DEF CreatedOnce
  <2> QED BY <1>1, <2>4, <2>5 DEF Lookup
<1>2. ASSUME NEW j \in Jobs, Insert(j) \/ Commit(j) \/ RollBack(j) PROVE CreatedOnce'
  <2>1. created' = created /\ \A i \in Jobs : request[i] # "new" => request'[i] # "new"
    BY <1>0, <1>2 DEF Insert, Commit, RollBack, dbVars
  <2>2. \A m \in DOMAIN created : created[m] \in Jobs
    BY <1>0
  <2> QED BY <2>1, <2>2 DEF CreatedOnce
<1>3. ASSUME NEW r \in Relays, RelayStep(r) PROVE UNCHANGED <<request, created>>
  BY <1>3 DEF RelayStep, Claim, CommitBatch, RelayDies, Publish, PublishFails, requestVars, dbVars
<1>4. ASSUME NEW w \in Workers, WorkerStep(w) PROVE UNCHANGED <<request, created>>
  BY <1>4 DEF WorkerStep, Receive, Load, Start, Report, WriteProgress, Finish, ObserveCancel,
     GiveUpWriting, End, Acknowledge, TaskRaises, WorkerDies, Redeliver, requestVars, dbVars
<1>5. ASSUME (\E j \in Jobs : Cancel(j)) \/ BrokerRestarts \/ UNCHANGED vars
      PROVE  UNCHANGED <<request, created>>
  BY <1>5 DEF Cancel, BrokerRestarts, vars, requestVars, dbVars
<1>6. CASE UNCHANGED <<request, created>>
  BY <1>6 DEF CreatedOnce
<1> QED BY <1>1, <1>2, <1>3, <1>4, <1>5, <1>6 DEF Next, SubmitStep

\* A batch that holds every Job leaves nobody behind.
LEMMA BatchHoldsAll ==
  ASSUME IsFiniteSet(Jobs), Cardinality(Jobs) <= BatchSize, TypeOK, CreatedOnce,
         NEW j \in Jobs
  PROVE  InFront(j)
<1> DEFINE Before == {i \in Claimable : Older(i, j)}
<1>1. j \notin Before
  <2>1. DOMAIN created = 1 .. Len(created) /\ Len(created) \in Nat
    BY DEF TypeOK
  <2> QED BY <2>1 DEF CreatedOnce, Older
<1>2. Before \subseteq Jobs
  BY DEF Claimable
<1>3. IsFiniteSet(Before) /\ Cardinality(Before) <= Cardinality(Jobs)
  BY <1>2, FS_Subset
<1>4. Cardinality(Before) # Cardinality(Jobs)
  BY <1>1, <1>2, FS_Subset
<1>5. Cardinality(Before) \in Nat /\ Cardinality(Jobs) \in Nat
  BY <1>3, FS_CardinalityType
<1>6. Cardinality(Before) < BatchSize
  BY <1>3, <1>4, <1>5, JobConstants
<1> QED BY <1>6 DEF InFront, FirstOf, Claimable

\* Liveness: with at most BatchSize Jobs every accepted Job whose message can be routed reaches
\* an end, whatever the other messages are (EveryJobEnds, FR-406: at least once).
THEOREM EveryJobOfABatchEnds ==
  ASSUME Calm, Relays # {}, Workers # {}, IsFiniteSet(Jobs), Cardinality(Jobs) <= BatchSize
  PROVE  Spec /\ GuardedFairness /\ RelaysComeRound => EveryJobEnds
<1>1. Init => CreatedOnce
  BY DEF Init, CreatedOnce
<1>2. TypeOK /\ CreatedOnce /\ [Next]_vars => CreatedOnce'
  BY CreatedNext
<1>3. Spec => []CreatedOnce
  BY <1>1, <1>2, TypeCorrect, PTL DEF Spec
<1>4. ASSUME NEW j \in Jobs, j \notin Unroutable
      PROVE  Spec /\ GuardedFairness /\ RelaysComeRound =>
               (status[j] = "queued" ~> status[j] \in Terminal)
  <2> DEFINE Queued == status[j] = "queued"
             Ended == status[j] \in Terminal
  <2>1. TypeOK /\ CreatedOnce => InFront(j)
    BY BatchHoldsAll
  <2>2. Spec /\ GuardedFairness /\ RelaysComeRound /\ []InFront(j) => (Queued ~> Ended)
    BY <1>4, JobEnds
  <2> HIDE DEF Queued, Ended
  <2>3. Spec /\ GuardedFairness /\ RelaysComeRound => (Queued ~> Ended)
    BY <1>3, <2>1, <2>2, TypeCorrect, PTL
  <2> QED BY <2>3 DEF Queued, Ended
<1> QED BY <1>4 DEF EveryJobEnds
=============================================================================
