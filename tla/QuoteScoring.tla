---------------------------- MODULE QuoteScoring ----------------------------
(***************************************************************************)
(* What prices a quote in one Environment: compile Jobs that rewrite a     *)
(* draft's bundle (worker/rating_handlers.py, platform/rating_versions.py),*)
(* the review that freezes it, the Deployments that record it, and the     *)
(* tasks of one API process that fetch it for a quote, a comparison, a     *)
(* PREPARE or the golden-quote gate (backend/src/app/api/score.py).        *)
(*                                                                         *)
(* A bundle is its content hash.  A task is a step per await: it reads the *)
(* version's metadata, then perhaps the blob store, then uses what it has, *)
(* and any of the two may fail to answer.                                  *)
(***************************************************************************)
EXTENDS BundleSlot

CONSTANTS
  Compiles,        \* rating.compile Jobs
  Quotes,          \* quotes to price
  Others,          \* the process's other tasks
  Released,        \* the bundle of a version approved earlier, or None
  Served,          \* the versions deployed earlier, oldest first
  MaxDeployments,  \* bound on the Deployments of the Environment
  Faults           \* what may fail to answer: "metadata", "store"

ASSUME ScoringConstants ==
  /\ MaxDeployments \in Nat
  /\ Served \in Seq({v \in Versions : Released[v] # None})
  /\ Len(Served) <= MaxDeployments
  /\ Released \in [Versions -> Bundles \cup {None}]
  /\ Faults \subseteq {"metadata", "store"}
  /\ None \notin Versions \cup Compiles \cup Others
  /\ Quotes \cap (Others \cup Compiles) = {}
  /\ Compiles \cap Others = {}

VARIABLES
  status,    \* of a Rating Version
  bundle,    \* the hash and blob key in its metadata, or None
  checked,   \* the bundle its golden quotes were scored against, or None
  lock,      \* the transaction holding its row, or None
  job,       \* a compile Job
  blobs,     \* blob rows, and objects in the store
  past,      \* history: every bundle a version was compiled to
  planned,   \* history: what a deploy read of a version, recorded or not
  deployed,  \* the Environment's Deployments, oldest first
  live,      \* the one this process serves, by its place; 0 for none
  rule,      \* the date-routing rule
  slot,      \* this process's bundle slot
  task,      \* what a quote or another task has in hand
  trace      \* the sampled trace of a quote

versionVars == <<status, bundle, checked, lock, job, blobs, past>>
deployVars == <<planned, deployed, live, rule>>
vars == <<versionVars, deployVars, slot, task, trace>>

Tasks == Quotes \cup Others

IdleJob == [pc |-> "idle", version |-> None, prior |-> None, hash |-> None]

Idle == [pc |-> "idle", use |-> "none", version |-> None, deployment |-> 0,
         names |-> None, hash |-> None, degraded |-> FALSE]

Earlier == {Released[v] : v \in Versions} \ {None}

\* A process that starts, over versions approved and deployed before or not.
Init ==
  /\ status = [v \in Versions |-> IF Released[v] = None THEN "draft" ELSE "approved"]
  /\ bundle = Released
  /\ checked = [v \in Versions |-> None]
  /\ lock = [v \in Versions |-> None]
  /\ job = [c \in Compiles |-> IdleJob]
  /\ blobs = [rows |-> Earlier, objects |-> Earlier]
  /\ past = [v \in Versions |-> {Released[v]} \ {None}]
  /\ planned = {[version |-> Served[d], bundle |-> Released[Served[d]]] : d \in 1..Len(Served)}
  /\ deployed = [d \in 1..Len(Served) |->
                   [version |-> Served[d], bundle |-> Released[Served[d]]]]
  /\ live = Len(Served)
  /\ rule = None
  /\ slot = Empty
  /\ task = [t \in Tasks |-> Idle]
  /\ trace = [q \in Quotes |-> None]

Numbers == 1..Len(deployed)

Unlock(t) == [v \in Versions |-> IF lock[v] = t THEN None ELSE lock[v]]

-----------------------------------------------------------------------------
(* rating.compile.                                                         *)

\* The route queues the compile of a draft, and the handler first reads the row
\* without its lock: in draft, or in review with the bundle it had in draft.
ReadVersion(c, v) ==
  /\ status[v] = "draft"
  /\ job[c].pc = "idle"
  /\ job' = [job EXCEPT ![c] = [pc |-> "read", version |-> v, prior |-> bundle[v],
                                hash |-> None]]
  /\ UNCHANGED <<status, bundle, checked, lock, blobs, past, deployVars, slot,
                 task, trace>>

\* The draft of the first read, still in the session when the row is locked.
Compilable_AsRead(v) == TRUE

\* require_compilable, on the row as the lock finds it (populate_existing).
Compilable(v) == status[v] = "draft"

\* A compile that does not wait for the row.
RowFree_Unlocked(v) == TRUE

\* load_rating_version with for_update: no other transaction holds the row.
RowFree(v) == lock[v] = None

\* compile_rating_version, to the end of the resolution of its pins.
Compile(c, h) ==
  LET v == job[c].version IN
  /\ job[c].pc = "read"
  /\ RowFree(v)
  /\ Compilable(v)
  /\ job' = [job EXCEPT ![c].pc = "compiled", ![c].hash = h]
  /\ lock' = [lock EXCEPT ![v] = c]
  /\ UNCHANGED <<status, bundle, checked, blobs, past, deployVars, slot, task,
                 trace>>

\* BlobStore.put: the object first, its row with the transaction.
Upload(c) ==
  /\ job[c].pc = "compiled"
  /\ job' = [job EXCEPT ![c].pc = "uploaded"]
  /\ blobs' = [blobs EXCEPT !.objects = @ \cup {job[c].hash}]
  /\ UNCHANGED <<status, bundle, checked, lock, past, deployVars, slot, task,
                 trace>>

\* The metadata, the blob's key and its row, and the Audit Event.
CommitCompile(c) ==
  LET v == job[c].version
      h == job[c].hash
  IN
  /\ job[c].pc = "uploaded"
  /\ bundle' = [bundle EXCEPT ![v] = h]
  /\ blobs' = [blobs EXCEPT !.rows = @ \cup {h}]
  /\ past' = [past EXCEPT ![v] = @ \cup {h}]
  /\ lock' = Unlock(c)
  /\ job' = [job EXCEPT ![c] = IdleJob]
  /\ UNCHANGED <<status, checked, deployVars, slot, task, trace>>

\* Refused, failed, or its worker killed: the transaction leaves nothing.
AbandonCompile(c) ==
  /\ job[c].pc # "idle"
  /\ job' = [job EXCEPT ![c] = IdleJob]
  /\ lock' = Unlock(c)
  /\ UNCHANGED <<status, bundle, checked, blobs, past, deployVars, slot, task,
                 trace>>

-----------------------------------------------------------------------------
(* Decisions, Deployments and the routing rule.                            *)

\* apply_approval_decision; approval is final.
Decide(v, to) ==
  /\ status[v] = "review"
  /\ RowFree(v)
  /\ status' = [status EXCEPT ![v] = to]
  /\ UNCHANGED <<bundle, checked, lock, job, blobs, past, deployVars, slot, task,
                 trace>>

\* Any approved version, one without a bundle too.
Deployable_Uncompiled(v) == status[v] = "approved"

\* _approved_compiled_version.
Deployable(v) == status[v] = "approved" /\ bundle[v] # None

\* A deploy reads the version it will record, without a lock on its row.
BeginDeploy(v) ==
  /\ Len(deployed) < MaxDeployments
  /\ Deployable(v)
  /\ planned' = planned \cup {[version |-> v, bundle |-> bundle[v]]}
  /\ UNCHANGED <<versionVars, deployed, live, rule, slot, task, trace>>

\* After its PREPARE, if it was not refused, the Deployment records that hash.
Deploy(plan) ==
  /\ Len(deployed) < MaxDeployments
  /\ deployed' = Append(deployed, plan)
  /\ UNCHANGED <<versionVars, planned, live, rule, slot, task, trace>>

\* A COMMIT, or a reconcile pass, which hydrates nothing.
GoLive(d) ==
  /\ live' = d
  /\ UNCHANGED <<versionVars, planned, deployed, rule, slot, task, trace>>

\* routing.write_rule: a range pins its version's latest Deployment.  A rule
\* without ranges is one whose range holds no quote's date.
WriteRule(v) ==
  /\ \E d \in Numbers :
       /\ deployed[d].version = v
       /\ \A e \in Numbers : e > d => deployed[e].version # v
       /\ rule' = [version |-> v, deployment |-> d]
  /\ UNCHANGED <<versionVars, planned, deployed, live, slot, task, trace>>

-----------------------------------------------------------------------------
(* How a task begins.                                                      *)

Begin(t, use, v, d, names) ==
  /\ task[t].pc = "idle"
  /\ task' = [task EXCEPT ![t] = [Idle EXCEPT !.pc = "metadata", !.use = use, !.version = v,
                                              !.deployment = d, !.names = names]]

\* _serving_ref: a named version is served only by a Deployment of it.
ServedBy(v) ==
  IF live # 0 /\ deployed[live].version = v THEN live ELSE 0

Ask(q, v, d) ==
  /\ Begin(q, "quote", v, d, None)
  /\ UNCHANGED <<versionVars, deployVars, slot, trace>>

\* A quote that names its version.
AskFor(q, v) == Ask(q, v, ServedBy(v))

\* A quote that names none: the live reference, read once.
AskLive(q) == live # 0 /\ Ask(q, deployed[live].version, live)

\* _routed after it: the flag is on, the rule's range holds the quote's date,
\* and select_range finds the pinned Deployment to be one of its version.
AskRouted(q) ==
  /\ live # 0
  /\ rule # None
  /\ deployed[rule.deployment].version = rule.version
  /\ Ask(q, rule.version, rule.deployment)

\* A PREPARE, whose message names the hash of a Deployment that is not yet
\* recorded and may never be.
Prepare(t, plan) ==
  /\ Len(deployed) < MaxDeployments
  /\ Begin(t, "prepare", plan.version, 0, plan.bundle)
  /\ UNCHANGED <<versionVars, deployVars, slot, trace>>

\* A side of score_compare, or the candidate of a shadow scoring.
Compare(t, v) ==
  /\ Begin(t, "compare", v, 0, None)
  /\ UNCHANGED <<versionVars, deployVars, slot, trace>>

\* submit_for_review, under the row's lock, to the load of the gate.
SubmitForReview(t, v) ==
  /\ status[v] = "draft"
  /\ RowFree(v)
  /\ bundle[v] # None
  /\ Begin(t, "gate", v, 0, None)
  /\ lock' = [lock EXCEPT ![v] = t]
  /\ UNCHANGED <<status, bundle, checked, job, blobs, past, deployVars, slot,
                 trace>>

\* The algorithm has no Regression Suite: there is no gate.
SubmitUnchecked(v) ==
  /\ status[v] = "draft"
  /\ RowFree(v)
  /\ status' = [status EXCEPT ![v] = "review"]
  /\ checked' = [checked EXCEPT ![v] = None]
  /\ UNCHANGED <<bundle, lock, job, blobs, past, deployVars, slot, task, trace>>

-----------------------------------------------------------------------------
(* _fetch_bundle and _compiled_for.                                        *)

\* The task has its bundle.
Loaded(t, h, degraded) ==
  task' = [task EXCEPT ![t].pc = "loaded", ![t].hash = h, ![t].degraded = degraded]

Keep(t, h) == slot' = Put(slot, task[t].version, h)

\* The version's row names a bundle that is held.
ReadHeld(t) ==
  LET h == bundle[task[t].version] IN
  /\ task[t].pc = "metadata"
  /\ h \in Held(slot)
  /\ Keep(t, h)
  /\ Loaded(t, h, FALSE)
  /\ UNCHANGED <<versionVars, deployVars, trace>>

\* It names one that is not.
ReadUnheld(t) ==
  LET h == bundle[task[t].version] IN
  /\ task[t].pc = "metadata"
  /\ h \notin Held(slot) \cup {None}
  /\ task' = [task EXCEPT ![t].pc = "blob", ![t].hash = h]
  /\ UNCHANGED <<versionVars, deployVars, slot, trace>>

\* The blob's row, its object, and the bundle under its version.
ReadBlob(t) ==
  /\ task[t].pc = "blob"
  /\ task[t].hash \in blobs.rows \cap blobs.objects
  /\ Keep(t, task[t].hash)
  /\ Loaded(t, task[t].hash, FALSE)
  /\ UNCHANGED <<versionVars, deployVars, trace>>

\* What is read does not answer: a raw exception, not a decided refusal.
Unanswered(t) ==
  \/ task[t].pc = "metadata" /\ "metadata" \in Faults
  \/ task[t].pc = "blob" /\ Faults # {}

\* Whatever the process holds, for a version it may never have served.
LastKnown_Any(v) == Held(slot)

\* hash_for and get: the bundle this process last resolved v to.
LastKnown(v) == {slot.memo[v]} \cap Held(slot)

\* The gate and a PREPARE call _fetch_bundle: they never degrade.
Degrades(t) == task[t].use \notin {"gate", "prepare"}

Degrade(t) ==
  /\ Unanswered(t)
  /\ Degrades(t)
  /\ \E h \in LastKnown(task[t].version) :
       /\ slot' = Get(slot, h)
       /\ Loaded(t, h, TRUE)
  /\ UNCHANGED <<versionVars, deployVars, trace>>

Leave(t) ==
  /\ task' = [task EXCEPT ![t] = Idle]
  /\ lock' = Unlock(t)
  /\ UNCHANGED <<status, bundle, checked, job, blobs, past, deployVars, slot,
                 trace>>

\* Nothing to price with: not compiled, no blob, or nothing to degrade to.  An
\* error that the store answers is BLOB_NOT_FOUND (BlobStore.open), a decided
\* refusal even of a quote that could degrade.
Refuse(t) ==
  /\ \/ task[t].pc = "metadata" /\ bundle[task[t].version] = None
     \/ task[t].pc = "blob" /\ task[t].hash \notin blobs.rows \cap blobs.objects
     \/ task[t].pc = "blob" /\ "store" \in Faults
     \/ Unanswered(t) /\ (Degrades(t) => LastKnown(task[t].version) = {})
  /\ Leave(t)

\* A quote or a gate that fails, a comparison done, a PREPARE acknowledged, or
\* refused where what it loaded is not what its message names.
Finish(t) == task[t].pc = "loaded" /\ Leave(t)

-----------------------------------------------------------------------------
(* What a task does with its bundle.                                       *)

Answer(q) ==
  /\ task[q].pc = "loaded"
  /\ task' = [task EXCEPT ![q].pc = "answered"]
  /\ UNCHANGED <<versionVars, deployVars, slot, trace>>

\* write_pending_trace, with the Job that will complete it.
Sample(q) ==
  /\ task[q].pc = "answered"
  /\ trace[q] = None
  /\ trace' = [trace EXCEPT ![q] =
       [state |-> "pending", version |-> task[q].version,
        pinned |-> task[q].hash, body |-> None, deployment |-> task[q].deployment]]
  /\ UNCHANGED <<versionVars, deployVars, slot, task>>

\* Completed with whatever the version is compiled to now.
Reproduced_Unpinned(q, h) == TRUE

Reproduced(q, h) == h = trace[q].pinned

\* score.trace_produce, with a slot of its own.  The body of the pinned bundle
\* is kept whether or not its summary is the one the quote was answered with;
\* another bundle leaves no body (complete_pending_trace).
Produce(q, same) ==
  /\ trace[q] # None
  /\ trace[q].state = "pending"
  /\ LET h == bundle[trace[q].version] IN
     trace' = [trace EXCEPT
       ![q].state = IF Reproduced(q, h) /\ same THEN "complete" ELSE "mismatch",
       ![q].body = IF Reproduced(q, h) THEN h ELSE None]
  /\ UNCHANGED <<versionVars, deployVars, slot, task>>

\* The evidence and the status, in the transaction that held the row.
CommitSubmit(t) ==
  LET v == task[t].version IN
  /\ task[t].pc = "loaded"
  /\ task[t].use = "gate"
  /\ task[t].hash = bundle[v]
  /\ checked' = [checked EXCEPT ![v] = task[t].hash]
  /\ status' = [status EXCEPT ![v] = "review"]
  /\ lock' = Unlock(t)
  /\ task' = [task EXCEPT ![t] = Idle]
  /\ UNCHANGED <<bundle, job, blobs, past, deployVars, slot, trace>>

\* The process starts again: an empty slot, the latest Deployment, and none
\* of the tasks it had; what it answered was answered.
Restart ==
  /\ slot' = Empty
  /\ live' = Len(deployed)
  /\ task' = [t \in Tasks |-> IF task[t].pc = "answered" THEN task[t] ELSE Idle]
  /\ lock' = [v \in Versions |-> IF lock[v] \in Others THEN None ELSE lock[v]]
  /\ UNCHANGED <<status, bundle, checked, job, blobs, past, planned, deployed,
                 rule, trace>>

-----------------------------------------------------------------------------

CompileNext ==
  \E c \in Compiles :
    \/ \E v \in Versions : ReadVersion(c, v)
    \/ \E h \in Bundles : Compile(c, h)
    \/ Upload(c) \/ CommitCompile(c) \/ AbandonCompile(c)

VersionNext ==
  \E v \in Versions :
    \/ Decide(v, "approved") \/ Decide(v, "draft") \/ SubmitUnchecked(v)
    \/ BeginDeploy(v) \/ WriteRule(v)

FetchNext ==
  \E t \in Tasks :
    ReadHeld(t) \/ ReadUnheld(t) \/ ReadBlob(t) \/ Degrade(t) \/ Refuse(t) \/ Finish(t)

QuoteNext ==
  \E q \in Quotes :
    \/ \E v \in Versions : AskFor(q, v)
    \/ AskLive(q) \/ AskRouted(q) \/ Answer(q) \/ Sample(q)
    \/ \E same \in BOOLEAN : Produce(q, same)

OtherNext ==
  \E t \in Others :
    \/ \E plan \in planned : Prepare(t, plan)
    \/ \E v \in Versions : Compare(t, v) \/ SubmitForReview(t, v)
    \/ CommitSubmit(t)

Next ==
  \/ CompileNext \/ VersionNext \/ FetchNext \/ QuoteNext \/ OtherNext
  \/ \E plan \in planned : Deploy(plan)
  \/ \E d \in Numbers : GoLive(d)
  \/ Restart

Spec == Init /\ [][Next]_vars

-----------------------------------------------------------------------------
(* Properties.                                                             *)

Jobs == [pc : {"idle", "read", "compiled", "uploaded"},
         version : Versions \cup {None}, prior : Bundles \cup {None}, hash : Bundles \cup {None}]

InHand == [pc : {"idle", "metadata", "blob", "loaded", "answered"},
           use : {"none", "quote", "prepare", "compare", "gate"},
           version : Versions \cup {None}, deployment : 0..Len(deployed),
           names : Bundles \cup {None}, hash : Bundles \cup {None},
           degraded : BOOLEAN]

Traces == [state : {"pending", "complete", "mismatch"}, version : Versions,
           pinned : Bundles, body : Bundles \cup {None},
           deployment : 0..Len(deployed)]

\* Every variable has the shape the rows and the process's tasks have.
TypeOK ==
  /\ status \in [Versions -> {"draft", "review", "approved"}]
  /\ bundle \in [Versions -> Bundles \cup {None}]
  /\ checked \in [Versions -> Bundles \cup {None}]
  /\ lock \in [Versions -> Compiles \cup Others \cup {None}]
  /\ job \in [Compiles -> Jobs]
  /\ blobs \in [rows : SUBSET Bundles, objects : SUBSET Bundles]
  /\ past \in [Versions -> SUBSET Bundles]
  /\ planned \subseteq [version : Versions, bundle : Bundles]
  /\ deployed \in Seq([version : Versions, bundle : Bundles])
  /\ Len(deployed) <= MaxDeployments
  /\ live \in 0..Len(deployed)
  /\ rule \in [version : Versions, deployment : Numbers] \cup {None}
  /\ slot \in Slots
  /\ task \in [Tasks -> InHand]
  /\ trace \in [Quotes -> Traces \cup {None}]

\* BundleSlot._forget: whatever requests and evictions interleave, the slot
\* remembers a reference only while it holds its bundle, so that a quote which
\* degrades finds a bundle for every reference the slot claims to know.
SlotCoherent == Coherent(slot)

\* FR-239, FR-250, PL-1766 D5.9: what a quote or a PREPARE loads while metadata
\* and blobs answer is the bundle its Deployment recorded, although the
\* Deployment was recorded without a lock on its version, the bundle is read
\* again by reference, and the live reference and the rule move meanwhile: a
\* PREPARE, sent before there is a row, is never refused for its hash.
PricedAsRecorded ==
  \A t \in Tasks :
    LET of == task[t] IN
    /\ of.pc \in {"loaded", "answered"} /\ of.deployment # 0 =>
         /\ deployed[of.deployment].version = of.version
         /\ ~of.degraded => deployed[of.deployment].bundle = of.hash
    /\ of.use = "prepare" /\ of.pc = "loaded" => of.hash = of.names

\* FR-260, RL-1379: a version out of draft that carries golden-quote evidence
\* has the bundle the evidence was computed on, and it can be fetched,
\* although compiles race with its submission.
ReviewedAsChecked ==
  \A v \in Versions :
    status[v] # "draft" /\ checked[v] # None =>
      /\ checked[v] = bundle[v]
      /\ bundle[v] \in blobs.rows \cap blobs.objects

TraceOf(q) ==
  /\ trace[q].deployment = task[q].deployment
  /\ trace[q].body # None => trace[q].body = task[q].hash
  /\ trace[q].state = "complete" => trace[q].body # None
  /\ trace[q].state = "mismatch" /\ trace[q].body = None
       => task[q].deployment = 0 \/ task[q].degraded

\* RL-862 8.2 and RL-1380: a sampled trace names the Deployment its quote was
\* answered under, a body it has comes from the bundle that priced the quote,
\* a complete trace has one, and so has that of a quote which an available
\* store priced for a Deployment, even when its summary is not reproduced.
TraceTellsPrice ==
  \A q \in Quotes : trace[q] # None => TraceOf(q)

Answers ==
  [q \in Quotes |->
     IF task[q].pc # "answered" THEN None
     ELSE [version |-> task[q].version, deployment |-> task[q].deployment,
           bundle |-> task[q].hash, degraded |-> task[q].degraded]]

Priced == INSTANCE PricedQuotes WITH compiled <- past, answer <- Answers

\* NFR-497 and FR-250 together: compiles, Deployments and answers are those
\* of PricedQuotes, so even a quote answered through an outage is priced by
\* a bundle its version was once compiled to.
ImplementsPricedQuotes == Priced!Spec

-----------------------------------------------------------------------------
(* The inductive invariant of the proofs.                                  *)

\* A version's bundle and what the slot resolves it to are among the bundles
\* it was compiled to, all of them stored, and evidence is on its bundle.
VersionInv ==
  /\ blobs.rows \subseteq blobs.objects
  /\ \A v \in Versions :
       /\ past[v] \subseteq blobs.rows
       /\ bundle[v] # None => bundle[v] \in past[v]
       /\ slot.memo[v] # None => slot.memo[v] \in past[v]
       /\ status[v] # "draft" /\ checked[v] # None => checked[v] = bundle[v]

\* Who holds the row of a version has found it in draft.
LockInv ==
  /\ \A c \in Compiles :
       /\ job[c].pc # "idle" => job[c].version \in Versions
       /\ job[c].pc \in {"compiled", "uploaded"} =>
            /\ job[c].hash \in Bundles
            /\ lock[job[c].version] = c
            /\ status[job[c].version] = "draft"
       /\ job[c].pc = "uploaded" => job[c].hash \in blobs.objects
  /\ \A t \in Tasks : task[t].use = "gate" =>
       /\ t \in Others
       /\ lock[task[t].version] = t
       /\ status[task[t].version] = "draft"

\* A version that a deploy has read stays approved with the bundle it read.
DeployInv ==
  /\ \A d \in Numbers :
       /\ status[deployed[d].version] = "approved"
       /\ bundle[deployed[d].version] = deployed[d].bundle
  /\ \A plan \in planned :
       /\ status[plan.version] = "approved"
       /\ bundle[plan.version] = plan.bundle

\* A PREPARE names what a deploy read, and fetches it.
PrepareInv ==
  \A t \in Tasks : task[t].use = "prepare" =>
    /\ [version |-> task[t].version, bundle |-> task[t].names] \in planned
    /\ task[t].pc \in {"blob", "loaded"} => task[t].hash = task[t].names

\* What a task has in hand, and what a trace says of its quote.
TaskInv ==
  /\ \A t \in Tasks :
       LET of == task[t] IN
       /\ of.pc # "idle" => of.version \in Versions
       /\ of.use = "none" => of.deployment = 0
       /\ of.pc = "idle" => of.use = "none"
       /\ of.deployment # 0 => deployed[of.deployment].version = of.version
       /\ of.pc = "answered" => t \in Quotes
       /\ of.degraded => of.pc \in {"loaded", "answered"}
       /\ of.pc \in {"blob", "loaded", "answered"} =>
            /\ of.hash \in past[of.version]
            /\ of.deployment # 0 /\ ~of.degraded =>
                 deployed[of.deployment].bundle = of.hash
  /\ \A q \in Quotes : trace[q] # None =>
       /\ task[q].pc = "answered"
       /\ trace[q].version = task[q].version
       /\ trace[q].pinned = task[q].hash
       /\ TraceOf(q)

IInv ==
  /\ TypeOK /\ Coherent(slot) /\ VersionInv /\ LockInv
  /\ DeployInv /\ PrepareInv /\ TaskInv

-----------------------------------------------------------------------------
(* What the code or its documents say, and the behaviours do not.          *)

\* bundle_slot.py and _compiled_for: a quote degrades when metadata storage
\* does not answer.
DegradesWithoutMetadata ==
  [][\A t \in Tasks : task'[t].degraded /\ ~task[t].degraded
        => task[t].pc = "metadata"]_vars

\* A quote that names a Deployment is priced by the bundle it recorded,
\* degraded or not.
PricedAsDeployed ==
  \A q \in Quotes :
    task[q].pc = "answered" /\ task[q].deployment # 0
      => deployed[task[q].deployment].bundle = task[q].hash

\* rating_handlers.py: the Audit Event of a compile names the hash it
\* replaced.
EventTellsBefore ==
  [][\A c \in Compiles :
       job[c].pc = "uploaded" /\ job'[c].pc = "idle"
         /\ past'[job[c].version] # past[job[c].version]
       => job[c].prior = bundle[job[c].version]]_vars
=============================================================================
