------------------------- MODULE QuoteScoringProofs -------------------------
(***************************************************************************)
(* Theorems about the bundle slot and what prices a quote, for any number  *)
(* of versions, bundles, Jobs, quotes and other tasks, any capacity of the *)
(* slot, any bound on Deployments, and any faults.                         *)
(***************************************************************************)
EXTENDS QuoteScoring, SequenceTheorems, TLAPS

-----------------------------------------------------------------------------
(* The slot.                                                               *)

\* The place of a held bundle.
LEMMA AtHeld ==
  ASSUME NEW slt \in Slots, NEW h \in Held(slt)
  PROVE  /\ At(slt.held, h) \in 1..Len(slt.held)
         /\ slt.held[At(slt.held, h)] = h
BY DEF At, Held

\* A use loses no bundle, gains at most the one used, and leaves it last.
LEMMA UsedKeeps ==
  ASSUME NEW slt \in Slots, NEW h \in Bundles
  PROVE  /\ Used(slt, h) \in Seq(Bundles)
         /\ Len(Used(slt, h)) \in {Len(slt.held), Len(slt.held) + 1}
         /\ h \in Held(slt) => Len(Used(slt, h)) = Len(slt.held)
         /\ Len(Used(slt, h)) > 0
         /\ Used(slt, h)[Len(Used(slt, h))] = h
         /\ \A x \in Held(slt) : \E i \in 1..Len(Used(slt, h)) : Used(slt, h)[i] = x
<1> DEFINE held == slt.held
           n == Len(held)
           at == At(held, h)
<1>1. held \in Seq(Bundles) /\ n \in Nat
  BY DEF Slots
<1>2. CASE h \notin Held(slt)
  <2>1. Used(slt, h) = Append(held, h)
    BY <1>2 DEF Used
  <2>2. /\ Append(held, h) \in Seq(Bundles)
        /\ Len(Append(held, h)) = n + 1
        /\ Append(held, h)[n + 1] = h
        /\ \A i \in 1..n : Append(held, h)[i] = held[i]
    BY <1>1, AppendProperties
  <2>3. \A x \in Held(slt) : \E i \in 1..(n + 1) : Append(held, h)[i] = x
    BY <1>1, <2>2 DEF Held
  <2> QED
    BY <1>1, <1>2, <2>1, <2>2, <2>3
<1>3. CASE h \in Held(slt)
  <2> DEFINE used == [i \in 1..n |-> IF i = n THEN h
                                     ELSE held[IF i < at THEN i ELSE i + 1]]
  <2>1. Used(slt, h) = used
    BY <1>3 DEF Used
  <2>2. at \in 1..n /\ held[at] = h
    BY <1>3, AtHeld
  <2>3. \A i \in 1..n : held[i] \in Bundles
    BY <1>1, ElementOfSeq
  <2>4. \A i \in 1..n : used[i] \in Bundles
    BY <1>1, <2>2, <2>3
  <2>5. used \in Seq(Bundles) /\ Len(used) = n
    BY <1>1, <2>4, IsASeq, LenProperties
  <2>6. n > 0 /\ used[n] = h
    BY <1>1, <2>2
  <2>7. ASSUME NEW x \in Held(slt)
        PROVE  \E i \in 1..n : used[i] = x
    <3>1. PICK k \in 1..n : held[k] = x
      BY DEF Held
    <3>2. CASE k < at
      <4>1. k # n /\ used[k] = held[k]
        BY <1>1, <2>2, <3>2
      <4> QED
        BY <3>1, <4>1
    <3>3. CASE k = at
      <4>1. n \in 1..n /\ used[n] = x
        BY <1>1, <2>2, <2>6, <3>1, <3>3
      <4> QED
        BY <4>1
    <3>4. CASE k > at
      <4>1. k - 1 \in 1..n /\ k - 1 # n /\ ~(k - 1 < at) /\ (k - 1) + 1 = k
        BY <1>1, <2>2, <3>4
      <4>2. used[k - 1] = held[k]
        BY <4>1
      <4> QED
        BY <3>1, <4>1, <4>2
    <3>5. k < at \/ k = at \/ k > at
      <4> HIDE DEF at
      <4> QED
        BY <1>1, <2>2
    <3> QED
      BY <3>2, <3>3, <3>4, <3>5
  <2> HIDE DEF used
  <2> QED
    BY <2>1, <2>5, <2>6, <2>7, <1>1
<1> QED
  BY <1>2, <1>3

\* A hit keeps the slot coherent and its index of references as it was.
LEMMA GetKeeps ==
  ASSUME NEW slt \in Slots, Coherent(slt), NEW h \in Held(slt)
  PROVE  Get(slt, h) \in Slots /\ Coherent(Get(slt, h)) /\ Get(slt, h).memo = slt.memo
<1> DEFINE next == Get(slt, h)
<1>1. h \in Bundles
  BY ElementOfSeq DEF Slots, Held
<1>2. next.held = Used(slt, h) /\ next.memo = slt.memo
  BY DEF Get, Slots
<1>3. next \in Slots
  BY <1>1, <1>2, UsedKeeps DEF Get, Slots
<1> HIDE DEF next
<1>4. Held(slt) \subseteq Held(next)
  <2> SUFFICES ASSUME NEW x \in Held(slt)
               PROVE  x \in Held(next)
    OBVIOUS
  <2>1. \E i \in 1..Len(next.held) : next.held[i] = x
    BY <1>1, <1>2, UsedKeeps
  <2> QED
    BY <2>1 DEF Held
<1>5. Len(next.held) <= Capacity
  BY <1>1, <1>2, UsedKeeps DEF Coherent
<1>6. Coherent(next)
  BY <1>2, <1>4, <1>5 DEF Coherent
<1> QED
  BY <1>2, <1>3, <1>6 DEF next

\* Eviction takes the references to what it evicts, and no others.
LEMMA PutKeeps ==
  ASSUME NEW slt \in Slots, Coherent(slt), NEW v \in Versions, NEW h \in Bundles
  PROVE  /\ Put(slt, v, h) \in Slots
         /\ Coherent(Put(slt, v, h))
         /\ \A w \in Versions :
              Put(slt, v, h).memo[w] \in {None, IF w = v THEN h ELSE slt.memo[w]}
<1> DEFINE used == Used(slt, h)
           over == IF Len(used) > Capacity THEN Len(used) - Capacity ELSE 0
           gone == {used[i] : i \in 1..over}
           memo == [slt.memo EXCEPT ![v] = h]
           kept == [i \in 1..(Len(used) - over) |-> used[i + over]]
           next == Put(slt, v, h)
<1>1. /\ used \in Seq(Bundles) /\ Len(used) \in Nat /\ Len(used) > 0
      /\ used[Len(used)] = h
      /\ \A x \in Held(slt) : \E i \in 1..Len(used) : used[i] = x
  BY UsedKeeps
<1>2. Capacity \in Nat /\ Capacity > 0
  BY SlotConstants
<1>3. over \in Nat /\ over < Len(used) /\ Len(used) - over <= Capacity
  BY <1>1, <1>2
<1>4. /\ next = [held |-> kept, memo |-> Forget(memo, gone)]
      /\ next.held = kept
      /\ next.memo = Forget(memo, gone)
  BY DEF Put
<1>5. \A i \in 1..Len(used) : used[i] \in Bundles
  BY <1>1, ElementOfSeq
<1> HIDE DEF used, over, next
<1>6. kept \in Seq(Bundles) /\ Len(kept) = Len(used) - over
  <2>1. Len(used) - over \in Nat
    BY <1>1, <1>3
  <2>2. \A i \in 1..(Len(used) - over) : used[i + over] \in Bundles
    BY <1>1, <1>3, <1>5
  <2> QED
    BY <2>1, <2>2, IsASeq, LenProperties
<1>7. memo \in [Versions -> Bundles \cup {None}]
  BY DEF Slots
<1>8. /\ DOMAIN memo = Versions
      /\ \A w \in Versions : memo[w] = IF w = v THEN h ELSE slt.memo[w]
  BY DEF Slots
<1> HIDE DEF memo
<1>9. Forget(memo, gone) \in [Versions -> Bundles \cup {None}]
  BY <1>7, <1>8 DEF Forget
<1>10. next \in Slots
  BY <1>4, <1>6, <1>9 DEF Slots
<1>11. \A i \in (over + 1)..Len(used) : used[i] \in Held(next)
  <2> SUFFICES ASSUME NEW i \in (over + 1)..Len(used)
               PROVE  used[i] \in Held(next)
    OBVIOUS
  <2>1. i - over \in 1..Len(kept) /\ (i - over) + over = i
    BY <1>1, <1>3, <1>6
  <2>2. kept[i - over] = used[i]
    BY <1>6, <2>1
  <2> QED
    BY <1>4, <2>1, <2>2 DEF Held
<1>12. ASSUME NEW w \in Versions, next.memo[w] # None
       PROVE  next.memo[w] \in Held(next)
  <2>1. next.memo[w] = memo[w] /\ memo[w] \notin gone
    BY <1>4, <1>8, <1>12 DEF Forget
  <2>2. \E i \in 1..Len(used) : used[i] = memo[w]
    <3>1. CASE w = v
      BY <1>1, <1>8, <3>1
    <3>2. CASE w # v
      <4>1. memo[w] = slt.memo[w] /\ slt.memo[w] # None
        BY <1>8, <1>12, <2>1, <3>2
      <4>2. memo[w] \in Held(slt)
        BY <4>1 DEF Coherent
      <4> QED
        BY <1>1, <4>2
    <3> QED
      BY <3>1, <3>2
  <2>3. PICK i \in 1..Len(used) : used[i] = memo[w]
    BY <2>2
  <2>4. i \notin 1..over
    BY <2>1, <2>3
  <2>5. i \in (over + 1)..Len(used)
    BY <1>1, <1>3, <2>4
  <2> QED
    BY <1>11, <2>1, <2>3, <2>5
<1>13. Len(next.held) <= Capacity
  BY <1>3, <1>4, <1>6
<1>14. \A w \in Versions : next.memo[w] \in {None, IF w = v THEN h ELSE slt.memo[w]}
  <2> HIDE DEF gone
  <2> QED
    BY <1>4, <1>8 DEF Forget
<1>15. Coherent(next)
  BY <1>12, <1>13 DEF Coherent
<1> QED
  BY <1>10, <1>14, <1>15 DEF next

-----------------------------------------------------------------------------
(* The steps.                                                              *)

\* A compile's first read takes no lock and writes no row.
LEMMA ReadVersionStep ==
  ASSUME IInv, NEW c \in Compiles, NEW v \in Versions, ReadVersion(c, v)
  PROVE  IInv'
<1> USE ScoringConstants, SlotConstants DEF IInv, ReadVersion, versionVars, deployVars, Tasks
<1>1. TypeOK'
  BY DEF TypeOK, InHand, Jobs, Traces, Idle, IdleJob, Numbers, Unlock, Begin
<1>2. Coherent(slot)'
  BY DEF TypeOK
<1>3. VersionInv'
  BY DEF TypeOK, VersionInv, InHand, LockInv, TaskInv, Jobs, Slots, Begin
<1>4. LockInv'
  BY DEF TypeOK, LockInv, Jobs, InHand, Unlock, Idle, IdleJob, Begin, RowFree, TaskInv
<1>5. DeployInv'
  BY DEF TypeOK, DeployInv, Numbers, LockInv, TaskInv
<1>6. TaskInv'
  BY DEF TypeOK, TaskInv, TraceOf, InHand, VersionInv, DeployInv, Numbers, Idle, Begin, Loaded,
     Traces
<1>10. PrepareInv'
  BY DEF TypeOK, PrepareInv, InHand, Idle, Begin
<1> QED
  BY <1>1, <1>2, <1>3, <1>4, <1>5, <1>6, <1>10

\* A compile that has the row has found it in draft, and nobody else has it.
LEMMA CompileStep ==
  ASSUME IInv, NEW c \in Compiles, NEW h \in Bundles, Compile(c, h)
  PROVE  IInv'
<1> USE ScoringConstants, SlotConstants DEF IInv, Compile, versionVars, deployVars, Tasks
<1>1. TypeOK'
  <2>1. job \in [Compiles -> Jobs] /\ job[c] \in Jobs
    BY DEF TypeOK
  <2>2. job' = [job EXCEPT ![c] = [job[c] EXCEPT !.pc = "compiled", !.hash = h]]
    BY <2>1
  <2>3. [job[c] EXCEPT !.pc = "compiled", !.hash = h] \in Jobs
    BY <2>1 DEF Jobs
  <2>4. job' \in [Compiles -> Jobs]
    BY <2>1, <2>2, <2>3
  <2>5. job[c].version \in Versions /\ job[c].hash \in Bundles \cup {None}
    BY <2>1 DEF LockInv, Jobs
  <2>6. lock' \in [Versions -> Compiles \cup Others \cup {None}]
    BY <2>5 DEF TypeOK
  <2>9. InHand' = InHand /\ Traces' = Traces /\ Numbers' = Numbers
    BY DEF InHand, Traces, Numbers
  <2> QED
    BY <2>4, <2>6, <2>9 DEF TypeOK
<1>2. Coherent(slot)'
  BY DEF TypeOK
<1>3. VersionInv'
  BY DEF TypeOK, VersionInv, InHand, LockInv, TaskInv, Jobs, Slots, Begin
<1>4. LockInv'
  <2>1. job[c] \in Jobs /\ job[c].version \in Versions
    BY DEF TypeOK, LockInv
  <2>2. /\ job'[c].pc = "compiled" /\ job'[c].hash = h
        /\ job'[c].version = job[c].version
    BY <2>1 DEF TypeOK, Jobs
  <2>3. \A e \in Compiles : e # c => job'[e] = job[e]
    BY DEF TypeOK
  <2>4. /\ lock'[job[c].version] = c
        /\ \A w \in Versions : w # job[c].version => lock'[w] = lock[w]
        /\ lock[job[c].version] = None
        /\ status[job[c].version] = "draft"
    BY <2>1 DEF TypeOK, RowFree, Compilable
  <2>5. \A e \in Compiles :
          /\ job'[e].pc # "idle" => job'[e].version \in Versions
          /\ job'[e].pc \in {"compiled", "uploaded"} =>
               /\ job'[e].hash \in Bundles
               /\ lock'[job'[e].version] = e
               /\ status[job'[e].version] = "draft"
          /\ job'[e].pc = "uploaded" => job'[e].hash \in blobs.objects
    <3> TAKE e \in Compiles
    <3>1. CASE e = c
      BY <2>1, <2>2, <2>4, <3>1
    <3>2. CASE e # c
      <4> HIDE DEF Compile
      <4> QED
        BY <2>3, <2>4, <3>2 DEF LockInv
    <3> QED
      BY <3>1, <3>2
  <2>6. \A t \in Tasks : task[t].use = "gate" =>
          /\ t \in Others
          /\ lock'[task[t].version] = t
          /\ status[task[t].version] = "draft"
    <3> SUFFICES ASSUME NEW t \in Tasks, task[t].use = "gate"
                 PROVE  /\ t \in Others
                        /\ lock'[task[t].version] = t
                        /\ status[task[t].version] = "draft"
      OBVIOUS
    <3>1. task[t].version \in Versions
      BY DEF TaskInv, TypeOK, InHand
    <3> QED
      BY <2>4, <3>1 DEF LockInv
  <2> QED
    BY <2>5, <2>6 DEF LockInv
<1>5. DeployInv'
  BY DEF TypeOK, DeployInv, Numbers, LockInv, TaskInv
<1>6. TaskInv'
  BY DEF TypeOK, TaskInv, TraceOf, InHand, VersionInv, DeployInv, Numbers, Idle, Begin, Loaded,
     Traces
<1>10. PrepareInv'
  BY DEF TypeOK, PrepareInv, InHand, Idle, Begin
<1> QED
  BY <1>1, <1>2, <1>3, <1>4, <1>5, <1>6, <1>10

\* An object is written before its row.
LEMMA UploadStep ==
  ASSUME IInv, NEW c \in Compiles, Upload(c)
  PROVE  IInv'
<1> USE ScoringConstants, SlotConstants DEF IInv, Upload, versionVars, deployVars, Tasks
<1>1. TypeOK'
  <2>1. job \in [Compiles -> Jobs] /\ job[c] \in Jobs
    BY DEF TypeOK
  <2>2. job' = [job EXCEPT ![c] = [job[c] EXCEPT !.pc = "uploaded"]]
    BY <2>1
  <2>3. [job[c] EXCEPT !.pc = "uploaded"] \in Jobs
    BY <2>1 DEF Jobs
  <2>4. job' \in [Compiles -> Jobs]
    BY <2>1, <2>2, <2>3
  <2>5. job[c].hash \in Bundles
    BY DEF LockInv
  <2>6. blobs' \in [rows : SUBSET Bundles, objects : SUBSET Bundles]
    BY <2>5 DEF TypeOK
  <2>9. InHand' = InHand /\ Traces' = Traces /\ Numbers' = Numbers
    BY DEF InHand, Traces, Numbers
  <2> QED
    BY <2>4, <2>6, <2>9 DEF TypeOK
<1>2. Coherent(slot)'
  BY DEF TypeOK
<1>3. VersionInv'
  BY DEF TypeOK, VersionInv, InHand, LockInv, TaskInv, Jobs, Slots, Begin
<1>4. LockInv'
  BY DEF TypeOK, LockInv, Jobs, InHand, Unlock, Idle, IdleJob, Begin, RowFree, TaskInv
<1>5. DeployInv'
  BY DEF TypeOK, DeployInv, Numbers, LockInv, TaskInv
<1>6. TaskInv'
  BY DEF TypeOK, TaskInv, TraceOf, InHand, VersionInv, DeployInv, Numbers, Idle, Begin, Loaded,
     Traces
<1>10. PrepareInv'
  BY DEF TypeOK, PrepareInv, InHand, Idle, Begin
<1> QED
  BY <1>1, <1>2, <1>3, <1>4, <1>5, <1>6, <1>10

\* The metadata and the blob's row are written under the lock.
LEMMA CommitCompileStep ==
  ASSUME IInv, NEW c \in Compiles, CommitCompile(c)
  PROVE  IInv'
<1> USE ScoringConstants, SlotConstants DEF IInv, CommitCompile, versionVars, deployVars, Tasks
<1>1. TypeOK'
  <2>1. job \in [Compiles -> Jobs] /\ job[c] \in Jobs
    BY DEF TypeOK
  <2>2. job' = [job EXCEPT ![c] = IdleJob]
    BY <2>1
  <2>3. IdleJob \in Jobs
    BY DEF Jobs, IdleJob
  <2>4. job' \in [Compiles -> Jobs]
    BY <2>1, <2>2, <2>3
  <2>5. job[c].version \in Versions /\ job[c].hash \in Bundles
    BY DEF LockInv
  <2>6. /\ bundle' \in [Versions -> Bundles \cup {None}]
        /\ past' \in [Versions -> SUBSET Bundles]
    BY <2>5 DEF TypeOK
  <2>7. blobs' \in [rows : SUBSET Bundles, objects : SUBSET Bundles]
    BY <2>5 DEF TypeOK
  <2>8. lock' \in [Versions -> Compiles \cup Others \cup {None}]
    BY DEF TypeOK, Unlock
  <2>9. InHand' = InHand /\ Traces' = Traces /\ Numbers' = Numbers
    BY DEF InHand, Traces, Numbers
  <2> QED
    BY <2>4, <2>6, <2>7, <2>8, <2>9 DEF TypeOK
<1>2. Coherent(slot)'
  BY DEF TypeOK
<1>3. VersionInv'
  BY DEF TypeOK, VersionInv, InHand, LockInv, TaskInv, Jobs, Slots, Begin
<1>4. LockInv'
  BY DEF TypeOK, LockInv, Jobs, InHand, Unlock, Idle, IdleJob, Begin, RowFree, TaskInv
<1>5. DeployInv'
  BY DEF TypeOK, DeployInv, Numbers, LockInv, TaskInv
<1>6. TaskInv'
  BY DEF TypeOK, TaskInv, TraceOf, InHand, VersionInv, DeployInv, Numbers, Idle, Begin, Loaded,
     Traces
<1>10. PrepareInv'
  BY DEF TypeOK, PrepareInv, InHand, Idle, Begin
<1> QED
  BY <1>1, <1>2, <1>3, <1>4, <1>5, <1>6, <1>10

\* A compile that fails writes nothing.
LEMMA AbandonCompileStep ==
  ASSUME IInv, NEW c \in Compiles, AbandonCompile(c)
  PROVE  IInv'
<1> USE ScoringConstants, SlotConstants DEF IInv, AbandonCompile, versionVars, deployVars, Tasks
<1>1. TypeOK'
  BY DEF TypeOK, InHand, Jobs, Traces, Idle, IdleJob, Numbers, Unlock, Begin
<1>2. Coherent(slot)'
  BY DEF TypeOK
<1>3. VersionInv'
  BY DEF TypeOK, VersionInv, InHand, LockInv, TaskInv, Jobs, Slots, Begin
<1>4. LockInv'
  BY DEF TypeOK, LockInv, Jobs, InHand, Unlock, Idle, IdleJob, Begin, RowFree, TaskInv
<1>5. DeployInv'
  BY DEF TypeOK, DeployInv, Numbers, LockInv, TaskInv
<1>6. TaskInv'
  BY DEF TypeOK, TaskInv, TraceOf, InHand, VersionInv, DeployInv, Numbers, Idle, Begin, Loaded,
     Traces
<1>10. PrepareInv'
  BY DEF TypeOK, PrepareInv, InHand, Idle, Begin
<1> QED
  BY <1>1, <1>2, <1>3, <1>4, <1>5, <1>6, <1>10

\* A version under decision is in review: no Job and no gate holds it.
LEMMA DecideStep ==
  ASSUME IInv, NEW v \in Versions, NEW to \in {"approved", "draft"}, Decide(v, to)
  PROVE  IInv'
<1> USE ScoringConstants, SlotConstants DEF IInv, Decide, versionVars, deployVars, Tasks
<1>1. TypeOK'
  BY DEF TypeOK, InHand, Jobs, Traces, Idle, IdleJob, Numbers, Unlock, Begin
<1>2. Coherent(slot)'
  BY DEF TypeOK
<1>3. VersionInv'
  BY DEF TypeOK, VersionInv, InHand, LockInv, TaskInv, Jobs, Slots, Begin
<1>4. LockInv'
  BY DEF TypeOK, LockInv, Jobs, InHand, Unlock, Idle, IdleJob, Begin, RowFree, TaskInv
<1>5. DeployInv'
  BY DEF TypeOK, DeployInv, Numbers, LockInv, TaskInv
<1>6. TaskInv'
  BY DEF TypeOK, TaskInv, TraceOf, InHand, VersionInv, DeployInv, Numbers, Idle, Begin, Loaded,
     Traces
<1>10. PrepareInv'
  BY DEF TypeOK, PrepareInv, InHand, Idle, Begin
<1> QED
  BY <1>1, <1>2, <1>3, <1>4, <1>5, <1>6, <1>10

\* A submission without a gate carries no evidence.
LEMMA SubmitUncheckedStep ==
  ASSUME IInv, NEW v \in Versions, SubmitUnchecked(v)
  PROVE  IInv'
<1> USE ScoringConstants, SlotConstants DEF IInv, SubmitUnchecked, versionVars, deployVars, Tasks
<1>1. TypeOK'
  BY DEF TypeOK, InHand, Jobs, Traces, Idle, IdleJob, Numbers, Unlock, Begin
<1>2. Coherent(slot)'
  BY DEF TypeOK
<1>3. VersionInv'
  BY DEF TypeOK, VersionInv, InHand, LockInv, TaskInv, Jobs, Slots, Begin
<1>4. LockInv'
  BY DEF TypeOK, LockInv, Jobs, InHand, Unlock, Idle, IdleJob, Begin, RowFree, TaskInv
<1>5. DeployInv'
  BY DEF TypeOK, DeployInv, Numbers, LockInv, TaskInv
<1>6. TaskInv'
  BY DEF TypeOK, TaskInv, TraceOf, InHand, VersionInv, DeployInv, Numbers, Idle, Begin, Loaded,
     Traces
<1>10. PrepareInv'
  BY DEF TypeOK, PrepareInv, InHand, Idle, Begin
<1> QED
  BY <1>1, <1>2, <1>3, <1>4, <1>5, <1>6, <1>10

\* A deploy reads an approved version with its bundle, which both stay.
LEMMA BeginDeployStep ==
  ASSUME IInv, NEW v \in Versions, BeginDeploy(v)
  PROVE  IInv'
<1> USE ScoringConstants, SlotConstants DEF IInv, BeginDeploy, versionVars, deployVars, Tasks
<1>1. TypeOK'
  <2>1. [version |-> v, bundle |-> bundle[v]] \in [version : Versions, bundle : Bundles]
    BY DEF TypeOK, Deployable
  <2>2. planned' \subseteq [version : Versions, bundle : Bundles]
    BY <2>1 DEF TypeOK
  <2>3. InHand' = InHand /\ Traces' = Traces /\ Numbers' = Numbers
    BY DEF InHand, Traces, Numbers
  <2> QED
    BY <2>2, <2>3 DEF TypeOK
<1>2. Coherent(slot)'
  BY DEF TypeOK
<1>3. VersionInv'
  BY DEF TypeOK, VersionInv
<1>4. LockInv'
  BY DEF LockInv
<1>5. DeployInv'
  BY DEF DeployInv, Numbers, Deployable
<1>6. TaskInv'
  BY DEF TaskInv, TraceOf
<1>10. PrepareInv'
  BY DEF PrepareInv
<1> QED
  BY <1>1, <1>2, <1>3, <1>4, <1>5, <1>6, <1>10

\* A Deployment records what its deploy has read.
LEMMA DeployStep ==
  ASSUME IInv, NEW plan \in planned, Deploy(plan)
  PROVE  IInv'
<1> USE ScoringConstants, SlotConstants DEF IInv, Deploy, versionVars, deployVars, Tasks
<1>1. TypeOK'
  <2>1. plan \in [version : Versions, bundle : Bundles]
    BY DEF TypeOK
  <2>2. /\ deployed \in Seq([version : Versions, bundle : Bundles])
        /\ deployed' = Append(deployed, plan)
    BY DEF TypeOK
  <2>3. /\ deployed' \in Seq([version : Versions, bundle : Bundles])
        /\ Len(deployed') = Len(deployed) + 1
        /\ Len(deployed) \in Nat
    BY <2>1, <2>2, AppendProperties
  <2>4. InHand \subseteq InHand' /\ Traces \subseteq Traces' /\ Numbers \subseteq Numbers'
    BY <2>3 DEF InHand, Traces, Numbers
  <2>5. /\ task' \in [Tasks -> InHand'] /\ trace' \in [Quotes -> Traces' \cup {None}]
        /\ rule' \in [version : Versions, deployment : Numbers'] \cup {None}
        /\ live' \in 0..Len(deployed')
    BY <2>3, <2>4 DEF TypeOK
  <2> QED
    BY <2>3, <2>5 DEF TypeOK
<1>2. Coherent(slot)'
  BY DEF TypeOK
<1>3. VersionInv'
  BY DEF TypeOK, VersionInv, InHand, LockInv, TaskInv, Jobs, Slots, Begin
<1>4. LockInv'
  BY DEF TypeOK, LockInv, Jobs, InHand, Unlock, Idle, IdleJob, Begin, RowFree, TaskInv
<1>5. DeployInv'
  <2>1. plan \in [version : Versions, bundle : Bundles]
    BY DEF TypeOK
  <2>2. /\ deployed \in Seq([version : Versions, bundle : Bundles])
        /\ deployed' = Append(deployed, plan)
    BY DEF TypeOK
  <2>3. status[plan.version] = "approved" /\ bundle[plan.version] = plan.bundle
    BY DEF DeployInv
  <2>4. /\ Len(deployed') = Len(deployed) + 1 /\ Len(deployed) \in Nat
        /\ deployed'[Len(deployed) + 1] = plan
        /\ \A d \in 1..Len(deployed) : deployed'[d] = deployed[d]
    BY <2>1, <2>2, AppendProperties
  <2>5. status' = status /\ bundle' = bundle /\ planned' = planned
    OBVIOUS
  <2> HIDE DEF Deploy
  <2> QED
    BY <2>3, <2>4, <2>5 DEF DeployInv, Numbers
<1>6. TaskInv'
  BY DEF TypeOK, TaskInv, TraceOf, InHand, VersionInv, DeployInv, Numbers, Idle, Begin, Loaded,
     Traces
<1>10. PrepareInv'
  BY DEF TypeOK, PrepareInv, InHand, Idle, Begin
<1> QED
  BY <1>1, <1>2, <1>3, <1>4, <1>5, <1>6, <1>10

\* A rule pins a Deployment of its version.
LEMMA WriteRuleStep ==
  ASSUME IInv, NEW v \in Versions, WriteRule(v)
  PROVE  IInv'
<1> USE ScoringConstants, SlotConstants DEF IInv, WriteRule, versionVars, deployVars, Tasks
<1>1. TypeOK'
  BY DEF TypeOK, InHand, Jobs, Traces, Idle, IdleJob, Numbers, Unlock, Begin
<1>2. Coherent(slot)'
  BY DEF TypeOK
<1>3. VersionInv'
  BY DEF TypeOK, VersionInv, InHand, LockInv, TaskInv, Jobs, Slots, Begin
<1>4. LockInv'
  BY DEF TypeOK, LockInv, Jobs, InHand, Unlock, Idle, IdleJob, Begin, RowFree, TaskInv
<1>5. DeployInv'
  BY DEF TypeOK, DeployInv, Numbers, LockInv, TaskInv
<1>6. TaskInv'
  BY DEF TypeOK, TaskInv, TraceOf, InHand, VersionInv, DeployInv, Numbers, Idle, Begin, Loaded,
     Traces
<1>10. PrepareInv'
  BY DEF TypeOK, PrepareInv, InHand, Idle, Begin
<1> QED
  BY <1>1, <1>2, <1>3, <1>4, <1>5, <1>6, <1>10

\* What is served is a Deployment.
LEMMA GoLiveStep ==
  ASSUME IInv, NEW d \in Numbers, GoLive(d)
  PROVE  IInv'
<1> USE ScoringConstants, SlotConstants DEF IInv, GoLive, versionVars, deployVars, Tasks
<1>1. TypeOK'
  BY DEF TypeOK, InHand, Jobs, Traces, Idle, IdleJob, Numbers, Unlock, Begin
<1>2. Coherent(slot)'
  BY DEF TypeOK
<1>3. VersionInv'
  BY DEF TypeOK, VersionInv, InHand, LockInv, TaskInv, Jobs, Slots, Begin
<1>4. LockInv'
  BY DEF TypeOK, LockInv, Jobs, InHand, Unlock, Idle, IdleJob, Begin, RowFree, TaskInv
<1>5. DeployInv'
  BY DEF TypeOK, DeployInv, Numbers, LockInv, TaskInv
<1>6. TaskInv'
  BY DEF TypeOK, TaskInv, TraceOf, InHand, VersionInv, DeployInv, Numbers, Idle, Begin, Loaded,
     Traces
<1>10. PrepareInv'
  BY DEF TypeOK, PrepareInv, InHand, Idle, Begin
<1> QED
  BY <1>1, <1>2, <1>3, <1>4, <1>5, <1>6, <1>10

\* A quote that names a Deployment names its version.
LEMMA AskStep ==
  ASSUME IInv, NEW q \in Quotes, NEW v \in Versions, NEW d \in 0..Len(deployed), d # 0 => deployed[d].version = v, Ask(q, v, d)
  PROVE  IInv'
<1> USE ScoringConstants, SlotConstants DEF IInv, Ask, versionVars, deployVars, Tasks
<1>1. TypeOK'
  BY DEF TypeOK, InHand, Jobs, Traces, Idle, IdleJob, Numbers, Unlock, Begin
<1>2. Coherent(slot)'
  BY DEF TypeOK
<1>3. VersionInv'
  BY DEF TypeOK, VersionInv, InHand, LockInv, TaskInv, Jobs, Slots, Begin
<1>4. LockInv'
  BY DEF TypeOK, LockInv, Jobs, InHand, Unlock, Idle, IdleJob, Begin, RowFree, TaskInv
<1>5. DeployInv'
  BY DEF TypeOK, DeployInv, Numbers, LockInv, TaskInv
<1>6. TaskInv'
  BY DEF TypeOK, TaskInv, TraceOf, InHand, VersionInv, DeployInv, Numbers, Idle, Begin, Loaded,
     Traces
<1>10. PrepareInv'
  BY DEF TypeOK, PrepareInv, InHand, Idle, Begin
<1> QED
  BY <1>1, <1>2, <1>3, <1>4, <1>5, <1>6, <1>10

\* A PREPARE loads for the version that a deploy has read.
LEMMA PrepareStep ==
  ASSUME IInv, NEW t \in Others, NEW plan \in planned, Prepare(t, plan)
  PROVE  IInv'
<1> USE ScoringConstants, SlotConstants DEF IInv, Prepare, versionVars, deployVars, Tasks
<1>1. TypeOK'
  <2>1. plan.version \in Versions /\ plan.bundle \in Bundles /\ 0 \in 0..Len(deployed)
    BY DEF TypeOK
  <2>2. task \in [Tasks -> InHand] /\ task[t] \in InHand
    BY DEF TypeOK
  <2>3. task' = [task EXCEPT ![t] = [Idle EXCEPT !.pc = "metadata", !.use = "prepare",
                                      !.version = plan.version, !.deployment = 0,
                                      !.names = plan.bundle]]
    BY <2>2 DEF Begin, Loaded
  <2>4. [Idle EXCEPT !.pc = "metadata", !.use = "prepare",
                                      !.version = plan.version, !.deployment = 0,
                                      !.names = plan.bundle] \in InHand
    BY <2>2, <2>1 DEF InHand, Idle
  <2>5. task' \in [Tasks -> InHand]
    BY <2>2, <2>3, <2>4
  <2>9. InHand' = InHand /\ Traces' = Traces /\ Numbers' = Numbers
    BY DEF InHand, Traces, Numbers
  <2> QED
    BY <2>5, <2>9 DEF TypeOK
<1>2. Coherent(slot)'
  BY DEF TypeOK
<1>3. VersionInv'
  BY DEF TypeOK, VersionInv, InHand, LockInv, TaskInv, Jobs, Slots, Begin
<1>4. LockInv'
  BY DEF TypeOK, LockInv, Jobs, InHand, Unlock, Idle, IdleJob, Begin, RowFree, TaskInv
<1>5. DeployInv'
  BY DEF TypeOK, DeployInv, Numbers, LockInv, TaskInv
<1>6. TaskInv'
  <2>1. \A u \in Tasks : u # t => task'[u] = task[u]
    BY DEF Begin, TypeOK
  <2>2. /\ task'[t].pc = "metadata" /\ task'[t].use = "prepare"
        /\ task'[t].version = plan.version /\ task'[t].deployment = 0
        /\ task'[t].degraded = FALSE
    BY DEF Begin, TypeOK, Idle
  <2>3. plan.version \in Versions
    BY DEF TypeOK
  <2>4. task[t].pc = "idle" /\ UNCHANGED <<past, deployed, trace>>
    BY DEF Begin
  <2> HIDE DEF Prepare
  <2> QED
    BY <2>1, <2>2, <2>3, <2>4 DEF TaskInv, TraceOf
<1>10. PrepareInv'
  <2>1. \A u \in Tasks : u # t => task'[u] = task[u]
    BY DEF Begin, TypeOK
  <2>2. /\ task'[t].pc = "metadata" /\ task'[t].version = plan.version
        /\ task'[t].names = plan.bundle
    BY DEF Begin, TypeOK, Idle
  <2>3. plan = [version |-> plan.version, bundle |-> plan.bundle]
    BY DEF TypeOK
  <2>4. planned' = planned
    OBVIOUS
  <2> HIDE DEF Prepare
  <2> QED
    BY <2>1, <2>2, <2>3, <2>4 DEF PrepareInv
<1> QED
  BY <1>1, <1>2, <1>3, <1>4, <1>5, <1>6, <1>10

\* A comparison names no Deployment.
LEMMA CompareStep ==
  ASSUME IInv, NEW t \in Others, NEW v \in Versions, Compare(t, v)
  PROVE  IInv'
<1> USE ScoringConstants, SlotConstants DEF IInv, Compare, versionVars, deployVars, Tasks
<1>1. TypeOK'
  <2>1. 0 \in 0..Len(deployed)
    BY DEF TypeOK
  <2>2. task \in [Tasks -> InHand] /\ task[t] \in InHand
    BY DEF TypeOK
  <2>3. task' = [task EXCEPT ![t] = [Idle EXCEPT !.pc = "metadata", !.use = "compare",
                                      !.version = v, !.deployment = 0,
                                      !.names = None]]
    BY <2>2 DEF Begin, Loaded
  <2>4. [Idle EXCEPT !.pc = "metadata", !.use = "compare",
                                      !.version = v, !.deployment = 0,
                                      !.names = None] \in InHand
    BY <2>2, <2>1 DEF InHand, Idle
  <2>5. task' \in [Tasks -> InHand]
    BY <2>2, <2>3, <2>4
  <2>9. InHand' = InHand /\ Traces' = Traces /\ Numbers' = Numbers
    BY DEF InHand, Traces, Numbers
  <2> QED
    BY <2>5, <2>9 DEF TypeOK
<1>2. Coherent(slot)'
  BY DEF TypeOK
<1>3. VersionInv'
  BY DEF TypeOK, VersionInv, InHand, LockInv, TaskInv, Jobs, Slots, Begin
<1>4. LockInv'
  BY DEF TypeOK, LockInv, Jobs, InHand, Unlock, Idle, IdleJob, Begin, RowFree, TaskInv
<1>5. DeployInv'
  BY DEF TypeOK, DeployInv, Numbers, LockInv, TaskInv
<1>6. TaskInv'
  BY DEF TypeOK, TaskInv, TraceOf, InHand, VersionInv, DeployInv, Numbers, Idle, Begin, Loaded,
     Traces
<1>10. PrepareInv'
  BY DEF TypeOK, PrepareInv, InHand, Idle, Begin
<1> QED
  BY <1>1, <1>2, <1>3, <1>4, <1>5, <1>6, <1>10

\* A gate has its draft's row.
LEMMA SubmitForReviewStep ==
  ASSUME IInv, NEW t \in Others, NEW v \in Versions, SubmitForReview(t, v)
  PROVE  IInv'
<1> USE ScoringConstants, SlotConstants DEF IInv, SubmitForReview, versionVars, deployVars, Tasks
<1>1. TypeOK'
  <2>1. 0 \in 0..Len(deployed)
    BY DEF TypeOK
  <2>2. task \in [Tasks -> InHand] /\ task[t] \in InHand
    BY DEF TypeOK
  <2>3. task' = [task EXCEPT ![t] = [Idle EXCEPT !.pc = "metadata", !.use = "gate",
                                      !.version = v, !.deployment = 0,
                                      !.names = None]]
    BY <2>2 DEF Begin, Loaded
  <2>4. [Idle EXCEPT !.pc = "metadata", !.use = "gate",
                                      !.version = v, !.deployment = 0,
                                      !.names = None] \in InHand
    BY <2>2, <2>1 DEF InHand, Idle
  <2>5. task' \in [Tasks -> InHand]
    BY <2>2, <2>3, <2>4
  <2>6. lock' \in [Versions -> Compiles \cup Others \cup {None}]
    BY DEF TypeOK
  <2>9. InHand' = InHand /\ Traces' = Traces /\ Numbers' = Numbers
    BY DEF InHand, Traces, Numbers
  <2> QED
    BY <2>5, <2>9, <2>6 DEF TypeOK
<1>2. Coherent(slot)'
  BY DEF TypeOK
<1>3. VersionInv'
  BY DEF TypeOK, VersionInv, InHand, LockInv, TaskInv, Jobs, Slots, Begin
<1>4. LockInv'
  BY DEF TypeOK, LockInv, Jobs, InHand, Unlock, Idle, IdleJob, Begin, RowFree, TaskInv
<1>5. DeployInv'
  BY DEF TypeOK, DeployInv, Numbers, LockInv, TaskInv
<1>6. TaskInv'
  BY DEF TypeOK, TaskInv, TraceOf, InHand, VersionInv, DeployInv, Numbers, Idle, Begin, Loaded,
     Traces
<1>10. PrepareInv'
  BY DEF TypeOK, PrepareInv, InHand, Idle, Begin
<1> QED
  BY <1>1, <1>2, <1>3, <1>4, <1>5, <1>6, <1>10

\* A held bundle is used under the row's hash.
LEMMA ReadHeldStep ==
  ASSUME IInv, NEW t \in Tasks, ReadHeld(t)
  PROVE  IInv'
<1> USE ScoringConstants, SlotConstants DEF IInv, ReadHeld, versionVars, deployVars, Tasks
<1>0. /\ task[t].version \in Versions
      /\ bundle[task[t].version] \in Bundles
      /\ bundle[task[t].version] \in past[task[t].version]
      /\ slot \in Slots
  BY DEF VersionInv, TaskInv, TypeOK, Held, Slots
<1>7. /\ slot' \in Slots
      /\ Coherent(slot')
      /\ \A w \in Versions :
           slot'.memo[w] \in {None, IF w = task[t].version THEN bundle[task[t].version]
                                   ELSE slot.memo[w]}
  BY <1>0, PutKeeps DEF Keep
<1>1. TypeOK'
  <2>2. task \in [Tasks -> InHand] /\ task[t] \in InHand
    BY DEF TypeOK
  <2>3. task' = [task EXCEPT ![t] = [task[t] EXCEPT !.pc = "loaded", !.hash = bundle[task[t].version], !.degraded = FALSE]]
    BY <2>2 DEF Begin, Loaded
  <2>4. [task[t] EXCEPT !.pc = "loaded", !.hash = bundle[task[t].version], !.degraded = FALSE] \in InHand
    BY <2>2, <1>0 DEF InHand
  <2>5. task' \in [Tasks -> InHand]
    BY <2>2, <2>3, <2>4
  <2>9. InHand' = InHand /\ Traces' = Traces /\ Numbers' = Numbers
    BY DEF InHand, Traces, Numbers
  <2> QED
    BY <1>7, <2>5, <2>9 DEF TypeOK
<1>2. Coherent(slot)'
  BY <1>7
<1>3. VersionInv'
  BY <1>0, <1>7 DEF VersionInv
<1>4. LockInv'
  <2>1. \A u \in Tasks : task'[u].use = task[u].use /\ task'[u].version = task[u].version
    BY DEF Loaded, TypeOK, InHand
  <2> QED
    BY <2>1 DEF LockInv
<1>5. DeployInv'
  BY DEF TypeOK, DeployInv, Numbers, LockInv, TaskInv
<1>8. /\ UNCHANGED <<past, deployed, trace>>
  OBVIOUS
<1>6. TaskInv'
  <2>1. \A u \in Tasks : u # t => task'[u] = task[u]
    BY DEF Loaded, TypeOK
  <2>2. /\ task'[t].pc = "loaded" /\ task'[t].hash = bundle[task[t].version]
        /\ task'[t].degraded = FALSE
        /\ task'[t].use = task[t].use
        /\ task'[t].version = task[t].version
        /\ task'[t].deployment = task[t].deployment
    BY DEF Loaded, TypeOK, InHand
  <2>3. task[t].pc \in {"metadata", "blob"}
    BY DEF Unanswered
  <2>4. task[t].deployment # 0 /\ ~FALSE => deployed[task[t].deployment].bundle = bundle[task[t].version]
    BY DEF DeployInv, TaskInv, TypeOK, InHand, Numbers
  <2> HIDE DEF ReadHeld
  <2> QED
    BY <1>0, <2>1, <2>2, <2>3, <2>4, <1>8 DEF TaskInv, TraceOf
<1>10. PrepareInv'
  <2>1. \A u \in Tasks : u # t => task'[u] = task[u]
    BY DEF Loaded, TypeOK
  <2>2. /\ task'[t].hash = bundle[task[t].version] /\ task'[t].use = task[t].use
        /\ task'[t].version = task[t].version /\ task'[t].names = task[t].names
    BY DEF Loaded, TypeOK, InHand
  <2>3. task[t].use = "prepare" => bundle[task[t].version] = task[t].names
    BY DEF PrepareInv, DeployInv
  <2>4. planned' = planned
    OBVIOUS
  <2> HIDE DEF ReadHeld
  <2> QED
    BY <2>1, <2>2, <2>3, <2>4 DEF PrepareInv
<1> QED
  BY <1>1, <1>2, <1>3, <1>4, <1>5, <1>6, <1>10

\* A bundle to fetch is one the version has.
LEMMA ReadUnheldStep ==
  ASSUME IInv, NEW t \in Tasks, ReadUnheld(t)
  PROVE  IInv'
<1> USE ScoringConstants, SlotConstants DEF IInv, ReadUnheld, versionVars, deployVars, Tasks
<1>1. TypeOK'
  <2>1. bundle[task[t].version] \in Bundles
    BY DEF TypeOK, TaskInv
  <2>2. task \in [Tasks -> InHand] /\ task[t] \in InHand
    BY DEF TypeOK
  <2>3. task' = [task EXCEPT ![t] = [task[t] EXCEPT !.pc = "blob", !.hash = bundle[task[t].version]]]
    BY <2>2 DEF Begin, Loaded
  <2>4. [task[t] EXCEPT !.pc = "blob", !.hash = bundle[task[t].version]] \in InHand
    BY <2>2, <2>1 DEF InHand
  <2>5. task' \in [Tasks -> InHand]
    BY <2>2, <2>3, <2>4
  <2>9. InHand' = InHand /\ Traces' = Traces /\ Numbers' = Numbers
    BY DEF InHand, Traces, Numbers
  <2> QED
    BY <2>5, <2>9 DEF TypeOK
<1>2. Coherent(slot)'
  BY DEF TypeOK
<1>3. VersionInv'
  BY DEF TypeOK, VersionInv, InHand, LockInv, TaskInv, Jobs, Slots, Begin
<1>4. LockInv'
  BY DEF TypeOK, LockInv, Jobs, InHand, Unlock, Idle, IdleJob, Begin, RowFree, TaskInv
<1>5. DeployInv'
  BY DEF TypeOK, DeployInv, Numbers, LockInv, TaskInv
<1>6. TaskInv'
  BY DEF TypeOK, TaskInv, TraceOf, InHand, VersionInv, DeployInv, Numbers, Idle, Begin, Loaded,
     Traces
<1>10. PrepareInv'
  <2>1. \A u \in Tasks : u # t => task'[u] = task[u]
    BY DEF ReadUnheld, TypeOK
  <2>2. /\ task'[t].hash = bundle[task[t].version] /\ task'[t].use = task[t].use
        /\ task'[t].version = task[t].version /\ task'[t].names = task[t].names
    BY DEF ReadUnheld, TypeOK, InHand
  <2>3. task[t].use = "prepare" => bundle[task[t].version] = task[t].names
    BY DEF PrepareInv, DeployInv
  <2>4. planned' = planned
    OBVIOUS
  <2> HIDE DEF ReadUnheld
  <2> QED
    BY <2>1, <2>2, <2>3, <2>4 DEF PrepareInv
<1> QED
  BY <1>1, <1>2, <1>3, <1>4, <1>5, <1>6, <1>10

\* A fetched bundle enters the slot under its version.
LEMMA ReadBlobStep ==
  ASSUME IInv, NEW t \in Tasks, ReadBlob(t)
  PROVE  IInv'
<1> USE ScoringConstants, SlotConstants DEF IInv, ReadBlob, versionVars, deployVars, Tasks
<1>0. /\ task[t].version \in Versions
      /\ task[t].hash \in Bundles
      /\ task[t].hash \in past[task[t].version]
      /\ slot \in Slots
  BY DEF VersionInv, TaskInv, TypeOK
<1>7. /\ slot' \in Slots
      /\ Coherent(slot')
      /\ \A w \in Versions :
           slot'.memo[w] \in {None, IF w = task[t].version THEN task[t].hash
                                   ELSE slot.memo[w]}
  BY <1>0, PutKeeps DEF Keep
<1>1. TypeOK'
  <2>2. task \in [Tasks -> InHand] /\ task[t] \in InHand
    BY DEF TypeOK
  <2>3. task' = [task EXCEPT ![t] = [task[t] EXCEPT !.pc = "loaded", !.hash = task[t].hash, !.degraded = FALSE]]
    BY <2>2 DEF Begin, Loaded
  <2>4. [task[t] EXCEPT !.pc = "loaded", !.hash = task[t].hash, !.degraded = FALSE] \in InHand
    BY <2>2, <1>0 DEF InHand
  <2>5. task' \in [Tasks -> InHand]
    BY <2>2, <2>3, <2>4
  <2>9. InHand' = InHand /\ Traces' = Traces /\ Numbers' = Numbers
    BY DEF InHand, Traces, Numbers
  <2> QED
    BY <1>7, <2>5, <2>9 DEF TypeOK
<1>2. Coherent(slot)'
  BY <1>7
<1>3. VersionInv'
  BY <1>0, <1>7 DEF VersionInv
<1>4. LockInv'
  <2>1. \A u \in Tasks : task'[u].use = task[u].use /\ task'[u].version = task[u].version
    BY DEF Loaded, TypeOK, InHand
  <2> QED
    BY <2>1 DEF LockInv
<1>5. DeployInv'
  BY DEF TypeOK, DeployInv, Numbers, LockInv, TaskInv
<1>8. /\ UNCHANGED <<past, deployed, trace>>
  OBVIOUS
<1>6. TaskInv'
  <2>1. \A u \in Tasks : u # t => task'[u] = task[u]
    BY DEF Loaded, TypeOK
  <2>2. /\ task'[t].pc = "loaded" /\ task'[t].hash = task[t].hash
        /\ task'[t].degraded = FALSE
        /\ task'[t].use = task[t].use
        /\ task'[t].version = task[t].version
        /\ task'[t].deployment = task[t].deployment
    BY DEF Loaded, TypeOK, InHand
  <2>3. task[t].pc \in {"metadata", "blob"}
    BY DEF Unanswered
  <2>4. task[t].deployment # 0 /\ ~FALSE => deployed[task[t].deployment].bundle = task[t].hash
    BY DEF TaskInv, Unanswered
  <2> HIDE DEF ReadBlob
  <2> QED
    BY <1>0, <2>1, <2>2, <2>3, <2>4, <1>8 DEF TaskInv, TraceOf
<1>10. PrepareInv'
  <2>1. \A u \in Tasks : u # t => task'[u] = task[u]
    BY DEF Loaded, TypeOK
  <2>2. /\ task'[t].hash = task[t].hash /\ task'[t].use = task[t].use
        /\ task'[t].version = task[t].version /\ task'[t].names = task[t].names
    BY DEF Loaded, TypeOK, InHand
  <2>3. task[t].use = "prepare" => task[t].hash = task[t].names
    BY DEF PrepareInv
  <2>4. planned' = planned
    OBVIOUS
  <2> HIDE DEF ReadBlob
  <2> QED
    BY <2>1, <2>2, <2>3, <2>4 DEF PrepareInv
<1> QED
  BY <1>1, <1>2, <1>3, <1>4, <1>5, <1>6, <1>10

\* A degraded quote uses a bundle its version once had.
LEMMA DegradeStep ==
  ASSUME IInv, NEW t \in Tasks, Degrade(t)
  PROVE  IInv'
<1> USE ScoringConstants, SlotConstants DEF IInv, Degrade, versionVars, deployVars, Tasks
<1>0. PICK h \in LastKnown(task[t].version) :
        slot' = Get(slot, h) /\ Loaded(t, h, TRUE)
  OBVIOUS
<1>9. /\ task[t].version \in Versions
      /\ h \in Bundles
      /\ h \in past[task[t].version]
      /\ h \in Held(slot)
      /\ slot \in Slots
  BY DEF VersionInv, TaskInv, TypeOK, LastKnown, Held, Slots, Unanswered
<1>7. slot' \in Slots /\ Coherent(slot') /\ slot'.memo = slot.memo
  BY <1>0, <1>9, GetKeeps
<1>1. TypeOK'
  <2>2. task \in [Tasks -> InHand] /\ task[t] \in InHand
    BY DEF TypeOK
  <2>3. task' = [task EXCEPT ![t] = [task[t] EXCEPT !.pc = "loaded", !.hash = h, !.degraded = TRUE]]
    BY <1>0, <2>2 DEF Loaded
  <2>4. [task[t] EXCEPT !.pc = "loaded", !.hash = h, !.degraded = TRUE] \in InHand
    BY <2>2, <1>9 DEF InHand
  <2>5. task' \in [Tasks -> InHand]
    BY <2>2, <2>3, <2>4
  <2>9. InHand' = InHand /\ Traces' = Traces /\ Numbers' = Numbers
    BY DEF InHand, Traces, Numbers
  <2> QED
    BY <1>7, <2>5, <2>9 DEF TypeOK
<1>2. Coherent(slot)'
  BY <1>7
<1>3. VersionInv'
  BY <1>7 DEF VersionInv
<1>4. LockInv'
  <2>1. \A u \in Tasks : task'[u].use = task[u].use /\ task'[u].version = task[u].version
    BY <1>0 DEF Loaded, TypeOK, InHand
  <2> QED
    BY <2>1 DEF LockInv
<1>5. DeployInv'
  BY DEF TypeOK, DeployInv, Numbers, LockInv, TaskInv
<1>8. /\ UNCHANGED <<past, deployed, trace>>
  OBVIOUS
<1>6. TaskInv'
  <2>1. \A u \in Tasks : u # t => task'[u] = task[u]
    BY <1>0 DEF Loaded, TypeOK
  <2>2. /\ task'[t].pc = "loaded" /\ task'[t].hash = h
        /\ task'[t].degraded = TRUE
        /\ task'[t].use = task[t].use
        /\ task'[t].version = task[t].version
        /\ task'[t].deployment = task[t].deployment
    BY <1>0 DEF Loaded, TypeOK, InHand
  <2>3. task[t].pc \in {"metadata", "blob"}
    BY DEF Unanswered
  <2>4. task[t].deployment # 0 /\ ~TRUE => deployed[task[t].deployment].bundle = h
    OBVIOUS
  <2> HIDE DEF Degrade
  <2> QED
    BY <1>9, <2>1, <2>2, <2>3, <2>4, <1>8 DEF TaskInv, TraceOf
<1>10. PrepareInv'
  <2>1. \A u \in Tasks : u # t => task'[u] = task[u]
    BY <1>0 DEF Loaded, TypeOK
  <2>2. /\ task'[t].hash = h /\ task'[t].use = task[t].use
        /\ task'[t].version = task[t].version /\ task'[t].names = task[t].names
    BY <1>0 DEF Loaded, TypeOK, InHand
  <2>3. task[t].use = "prepare" => h = task[t].names
    BY DEF Degrades
  <2>4. planned' = planned
    OBVIOUS
  <2> HIDE DEF Degrade
  <2> QED
    BY <2>1, <2>2, <2>3, <2>4 DEF PrepareInv
<1> QED
  BY <1>1, <1>2, <1>3, <1>4, <1>5, <1>6, <1>10

\* A task that ends lets go of the row.
LEMMA LeaveStep ==
  ASSUME IInv, NEW t \in Tasks, task[t].pc # "answered", Leave(t)
  PROVE  IInv'
<1> USE ScoringConstants, SlotConstants DEF IInv, Leave, versionVars, deployVars, Tasks
<1>1. TypeOK'
  BY DEF TypeOK, InHand, Jobs, Traces, Idle, IdleJob, Numbers, Unlock, Begin
<1>2. Coherent(slot)'
  BY DEF TypeOK
<1>3. VersionInv'
  BY DEF TypeOK, VersionInv, InHand, LockInv, TaskInv, Jobs, Slots, Begin
<1>4. LockInv'
  BY DEF TypeOK, LockInv, Jobs, InHand, Unlock, Idle, IdleJob, Begin, RowFree, TaskInv
<1>5. DeployInv'
  BY DEF TypeOK, DeployInv, Numbers, LockInv, TaskInv
<1>6. TaskInv'
  BY DEF TypeOK, TaskInv, TraceOf, InHand, VersionInv, DeployInv, Numbers, Idle, Begin, Loaded,
     Traces
<1>10. PrepareInv'
  BY DEF TypeOK, PrepareInv, InHand, Idle, Begin
<1> QED
  BY <1>1, <1>2, <1>3, <1>4, <1>5, <1>6, <1>10

\* An answer has what its quote loaded.
LEMMA AnswerStep ==
  ASSUME IInv, NEW q \in Quotes, Answer(q)
  PROVE  IInv'
<1> USE ScoringConstants, SlotConstants DEF IInv, Answer, versionVars, deployVars, Tasks
<1>1. TypeOK'
  <2>2. task \in [Tasks -> InHand] /\ task[q] \in InHand
    BY DEF TypeOK
  <2>3. task' = [task EXCEPT ![q] = [task[q] EXCEPT !.pc = "answered"]]
    BY <2>2 DEF Begin, Loaded
  <2>4. [task[q] EXCEPT !.pc = "answered"] \in InHand
    BY <2>2 DEF InHand
  <2>5. task' \in [Tasks -> InHand]
    BY <2>2, <2>3, <2>4
  <2>9. InHand' = InHand /\ Traces' = Traces /\ Numbers' = Numbers
    BY DEF InHand, Traces, Numbers
  <2> QED
    BY <2>5, <2>9 DEF TypeOK
<1>2. Coherent(slot)'
  BY DEF TypeOK
<1>3. VersionInv'
  BY DEF TypeOK, VersionInv, InHand, LockInv, TaskInv, Jobs, Slots, Begin
<1>4. LockInv'
  BY DEF TypeOK, LockInv, Jobs, InHand, Unlock, Idle, IdleJob, Begin, RowFree, TaskInv
<1>5. DeployInv'
  BY DEF TypeOK, DeployInv, Numbers, LockInv, TaskInv
<1>6. TaskInv'
  BY DEF TypeOK, TaskInv, TraceOf, InHand, VersionInv, DeployInv, Numbers, Idle, Begin, Loaded,
     Traces
<1>10. PrepareInv'
  BY DEF TypeOK, PrepareInv, InHand, Idle, Begin
<1> QED
  BY <1>1, <1>2, <1>3, <1>4, <1>5, <1>6, <1>10

\* A pending trace pins the hash of its answer.
LEMMA SampleStep ==
  ASSUME IInv, NEW q \in Quotes, Sample(q)
  PROVE  IInv'
<1> USE ScoringConstants, SlotConstants DEF IInv, Sample, versionVars, deployVars, Tasks
<1>1. TypeOK'
  <2> DEFINE new == [state |-> "pending", version |-> task[q].version,
                     pinned |-> task[q].hash, body |-> None,
                     deployment |-> task[q].deployment]
  <2>1. task[q].version \in Versions /\ task[q].hash \in Bundles
    BY DEF TaskInv, TypeOK
  <2>2. task[q].deployment \in 0..Len(deployed)
    BY DEF TypeOK, InHand
  <2>3. new \in Traces
    BY <2>1, <2>2 DEF Traces
  <2>4. trace' \in [Quotes -> Traces \cup {None}]
    BY <2>3 DEF TypeOK
  <2>9. InHand' = InHand /\ Traces' = Traces /\ Numbers' = Numbers
    BY DEF InHand, Traces, Numbers
  <2> QED
    BY <2>4, <2>9 DEF TypeOK
<1>2. Coherent(slot)'
  BY DEF TypeOK
<1>3. VersionInv'
  BY DEF TypeOK, VersionInv, InHand, LockInv, TaskInv, Jobs, Slots, Begin
<1>4. LockInv'
  BY DEF TypeOK, LockInv, Jobs, InHand, Unlock, Idle, IdleJob, Begin, RowFree, TaskInv
<1>5. DeployInv'
  BY DEF TypeOK, DeployInv, Numbers, LockInv, TaskInv
<1>6. TaskInv'
  BY DEF TypeOK, TaskInv, TraceOf, InHand, VersionInv, DeployInv, Numbers, Idle, Begin, Loaded,
     Traces
<1>10. PrepareInv'
  BY DEF TypeOK, PrepareInv, InHand, Idle, Begin
<1> QED
  BY <1>1, <1>2, <1>3, <1>4, <1>5, <1>6, <1>10

\* A trace has its body from the bundle it pins, or has none.
LEMMA ProduceStep ==
  ASSUME IInv, NEW q \in Quotes, NEW same \in BOOLEAN, Produce(q, same)
  PROVE  IInv'
<1> USE ScoringConstants, SlotConstants DEF IInv, Produce, versionVars, deployVars, Tasks
<1>1. TypeOK'
  <2> DEFINE h == bundle[trace[q].version]
  <2>1. trace[q] \in Traces
    BY DEF TypeOK
  <2>2. h \in Bundles \cup {None} /\ (Reproduced(q, h) => h \in Bundles)
    BY <2>1 DEF TypeOK, Traces, Reproduced
  <2> DEFINE new == [trace[q] EXCEPT !.state = IF Reproduced(q, h) /\ same THEN "complete"
                                               ELSE "mismatch",
                                     !.body = IF Reproduced(q, h) THEN h ELSE None]
  <2>3. new \in Traces
    <3> HIDE DEF h, Produce
    <3> QED
      BY <2>1, <2>2 DEF Traces
  <2>4. trace' = [trace EXCEPT ![q] = new]
    BY <2>1 DEF TypeOK
  <2>5. trace' \in [Quotes -> Traces \cup {None}]
    <3>1. trace \in [Quotes -> Traces \cup {None}]
      BY DEF TypeOK
    <3> HIDE DEF new, h, Produce
    <3> QED
      BY <2>3, <2>4, <3>1
  <2>9. InHand' = InHand /\ Traces' = Traces /\ Numbers' = Numbers
    BY DEF InHand, Traces, Numbers
  <2> QED
    BY <2>5, <2>9 DEF TypeOK
<1>2. Coherent(slot)'
  BY DEF TypeOK
<1>3. VersionInv'
  BY DEF TypeOK, VersionInv, InHand, LockInv, TaskInv, Jobs, Slots, Begin
<1>4. LockInv'
  BY DEF TypeOK, LockInv, Jobs, InHand, Unlock, Idle, IdleJob, Begin, RowFree, TaskInv
<1>5. DeployInv'
  BY DEF TypeOK, DeployInv, Numbers, LockInv, TaskInv
<1>6. TaskInv'
  <2> DEFINE h == bundle[trace[q].version]
  <2>1. trace[q] \in Traces
    BY DEF TypeOK
  <2>2. h \in Bundles \cup {None} /\ (Reproduced(q, h) => h \in Bundles)
    BY <2>1 DEF TypeOK, Traces, Reproduced
  <2>3. /\ trace'[q].version = trace[q].version
        /\ trace'[q].pinned = trace[q].pinned
        /\ trace'[q].deployment = trace[q].deployment
        /\ trace'[q].body = IF Reproduced(q, h) THEN h ELSE None
        /\ trace'[q].state = "complete" => Reproduced(q, h)
    BY <2>1 DEF TypeOK, Traces
  <2>4. /\ task[q].pc = "answered"
        /\ trace[q].version = task[q].version
        /\ trace[q].pinned = task[q].hash
        /\ trace[q].deployment = task[q].deployment
    BY DEF TaskInv, TraceOf
  <2>5. task[q].deployment # 0 /\ ~task[q].degraded => h = task[q].hash
    <3>1. task[q] \in InHand
      BY DEF TypeOK
    <3> SUFFICES ASSUME task[q].deployment # 0, ~task[q].degraded
                 PROVE  h = task[q].hash
      OBVIOUS
    <3>2. task[q].deployment \in Numbers
      BY <3>1 DEF InHand, Numbers, TypeOK
    <3>3. /\ deployed[task[q].deployment].version = task[q].version
          /\ deployed[task[q].deployment].bundle = task[q].hash
      BY <2>4 DEF TaskInv, TraceOf
    <3> QED
      BY <2>4, <3>2, <3>3 DEF DeployInv
  <2>6. \A p \in Quotes : p # q => trace'[p] = trace[p]
    BY DEF TypeOK
  <2>7. UNCHANGED <<task, past, deployed>> /\ trace[q] # None
    OBVIOUS
  <2> HIDE DEF Produce, h
  <2>8. /\ trace'[q].body # None => trace'[q].body = task[q].hash
        /\ trace'[q].state = "complete" => trace'[q].body # None
        /\ trace'[q].body = None => task[q].deployment = 0 \/ task[q].degraded
    <3>1. Reproduced(q, h) <=> h = task[q].hash
      BY <2>4 DEF Reproduced
    <3>2. task[q].degraded \in BOOLEAN
      BY DEF TypeOK, InHand
    <3>3. Reproduced(q, h) => h # None
      BY <2>2
    <3> QED
      BY <2>3, <2>5, <3>1, <3>2, <3>3
  <2> QED
    BY <2>3, <2>4, <2>6, <2>7, <2>8 DEF TaskInv, TraceOf
<1>10. PrepareInv'
  BY DEF TypeOK, PrepareInv, InHand, Idle, Begin
<1> QED
  BY <1>1, <1>2, <1>3, <1>4, <1>5, <1>6, <1>10

\* Evidence and status commit under the lock.
LEMMA CommitSubmitStep ==
  ASSUME IInv, NEW t \in Others, CommitSubmit(t)
  PROVE  IInv'
<1> USE ScoringConstants, SlotConstants DEF IInv, CommitSubmit, versionVars, deployVars, Tasks
<1>1. TypeOK'
  <2>1. /\ task[t].version \in Versions
        /\ task[t].hash \in Bundles \cup {None}
    BY DEF TypeOK, TaskInv, InHand
  <2>2. task \in [Tasks -> InHand] /\ task[t] \in InHand
    BY DEF TypeOK
  <2>3. task' = [task EXCEPT ![t] = Idle]
    BY <2>2 DEF Begin, Loaded
  <2>4. Idle \in InHand
    BY <2>2 DEF InHand, Idle, TypeOK
  <2>5. task' \in [Tasks -> InHand]
    BY <2>2, <2>3, <2>4
  <2>6. /\ checked' \in [Versions -> Bundles \cup {None}]
        /\ status' \in [Versions -> {"draft", "review", "approved"}]
        /\ lock' \in [Versions -> Compiles \cup Others \cup {None}]
    BY <2>1 DEF TypeOK, Unlock
  <2>9. InHand' = InHand /\ Traces' = Traces /\ Numbers' = Numbers
    BY DEF InHand, Traces, Numbers
  <2> QED
    BY <2>5, <2>9, <2>6 DEF TypeOK
<1>2. Coherent(slot)'
  BY DEF TypeOK
<1>3. VersionInv'
  BY DEF TypeOK, VersionInv, InHand, LockInv, TaskInv, Jobs, Slots, Begin
<1>4. LockInv'
  BY DEF TypeOK, LockInv, Jobs, InHand, Unlock, Idle, IdleJob, Begin, RowFree, TaskInv
<1>5. DeployInv'
  <2>1. status[task[t].version] = "draft"
    BY DEF LockInv
  <2>2. \A v \in Versions : status[v] = "approved" => status'[v] = "approved"
    BY <2>1 DEF TypeOK
  <2>3. /\ \A d \in Numbers : deployed[d].version \in Versions
        /\ \A plan \in planned : plan.version \in Versions
    <3>1. deployed \in Seq([version : Versions, bundle : Bundles])
      BY DEF TypeOK
    <3>2. \A d \in Numbers : deployed[d] \in [version : Versions, bundle : Bundles]
      BY <3>1, ElementOfSeq DEF Numbers
    <3>3. planned \subseteq [version : Versions, bundle : Bundles]
      BY DEF TypeOK
    <3> QED
      BY <3>2, <3>3
  <2>4. UNCHANGED <<bundle, deployed, planned>>
    OBVIOUS
  <2> HIDE DEF CommitSubmit
  <2> QED
    BY <2>2, <2>3, <2>4 DEF DeployInv, Numbers
<1>6. TaskInv'
  BY DEF TypeOK, TaskInv, TraceOf, InHand, VersionInv, DeployInv, Numbers, Idle, Begin, Loaded,
     Traces
<1>10. PrepareInv'
  BY DEF TypeOK, PrepareInv, InHand, Idle, Begin
<1> QED
  BY <1>1, <1>2, <1>3, <1>4, <1>5, <1>6, <1>10

\* A process that restarts keeps nothing but its answers.
LEMMA RestartStep ==
  ASSUME IInv, Restart
  PROVE  IInv'
<1> USE ScoringConstants, SlotConstants DEF IInv, Restart, versionVars, deployVars, Tasks
<1>1. TypeOK'
  <2>1. slot' \in Slots
    BY EmptySeq DEF Empty, Slots
  <2>2. Idle \in InHand
    BY DEF Idle, InHand, TypeOK
  <2>3. task' \in [Tasks -> InHand]
    BY <2>2 DEF TypeOK
  <2>4. lock' \in [Versions -> Compiles \cup Others \cup {None}] /\ live' \in 0..Len(deployed)
    BY DEF TypeOK
  <2>9. InHand' = InHand /\ Traces' = Traces /\ Numbers' = Numbers
    BY DEF InHand, Traces, Numbers
  <2> QED
    BY <2>1, <2>3, <2>4, <2>9 DEF TypeOK
<1>2. Coherent(slot)'
  BY EmptySeq DEF Coherent, Empty
<1>3. VersionInv'
  <2>1. \A v \in Versions : slot'.memo[v] = None
    BY DEF Empty
  <2> QED
    BY <2>1 DEF VersionInv
<1>4. LockInv'
  BY DEF TypeOK, LockInv, Jobs, InHand, Unlock, Idle, IdleJob, Begin, RowFree, TaskInv
<1>5. DeployInv'
  BY DEF TypeOK, DeployInv, Numbers, LockInv, TaskInv
<1>6. TaskInv'
  BY DEF TypeOK, TaskInv, TraceOf, InHand, VersionInv, DeployInv, Numbers, Idle, Begin, Loaded,
     Traces
<1>10. PrepareInv'
  BY DEF TypeOK, PrepareInv, InHand, Idle, Begin
<1> QED
  BY <1>1, <1>2, <1>3, <1>4, <1>5, <1>6, <1>10

-----------------------------------------------------------------------------
(* The theorems.                                                           *)

\* A process starts over compiled versions and Deployments that agree.
LEMMA InitIInv == Init => IInv
<1> SUFFICES ASSUME Init
             PROVE  IInv
  OBVIOUS
<1> USE ScoringConstants, SlotConstants DEF Init, Tasks
<1>1. /\ Earlier \subseteq Bundles
      /\ \A v \in Versions : Released[v] # None => Released[v] \in Bundles \cap Earlier
  BY DEF Earlier
<1>2. /\ Len(Served) \in Nat /\ Len(deployed) = Len(Served)
      /\ \A d \in 1..Len(Served) :
           /\ Served[d] \in Versions /\ Released[Served[d]] # None
           /\ deployed[d] = [version |-> Served[d], bundle |-> Released[Served[d]]]
      /\ deployed \in Seq([version : Versions, bundle : Bundles])
  <2>1. /\ Len(Served) \in Nat
        /\ \A d \in 1..Len(Served) : Served[d] \in {v \in Versions : Released[v] # None}
    BY ElementOfSeq, LenProperties
  <2>2. \A d \in 1..Len(Served) : deployed[d] \in [version : Versions, bundle : Bundles]
    BY <1>1, <2>1
  <2>3. deployed \in Seq([version : Versions, bundle : Bundles])
    BY <2>1, <2>2, IsASeq
  <2>4. Len(deployed) = Len(Served)
    BY <2>1, <2>3, LenProperties
  <2> QED
    BY <2>1, <2>3, <2>4
<1>3. TypeOK
  <2>1. slot \in Slots
    BY EmptySeq DEF Empty, Slots
  <2>2. task \in [Tasks -> InHand] /\ job \in [Compiles -> Jobs]
    BY <1>2 DEF InHand, Idle, Jobs, IdleJob
  <2>3. trace \in [Quotes -> Traces \cup {None}]
    OBVIOUS
  <2>4. live \in 0..Len(deployed) /\ Len(deployed) <= MaxDeployments
    BY <1>2
  <2>5. /\ status \in [Versions -> {"draft", "review", "approved"}]
        /\ past \in [Versions -> SUBSET Bundles]
        /\ blobs \in [rows : SUBSET Bundles, objects : SUBSET Bundles]
    BY <1>1
  <2>6. planned \subseteq [version : Versions, bundle : Bundles]
    BY <1>1, <1>2
  <2> QED
    BY <1>2, <2>1, <2>2, <2>3, <2>4, <2>5, <2>6 DEF TypeOK
<1>4. Coherent(slot)
  BY EmptySeq DEF Coherent, Empty
<1>5. VersionInv
  BY <1>1 DEF VersionInv, Empty
<1>6. LockInv /\ TaskInv /\ PrepareInv
  BY DEF LockInv, TaskInv, PrepareInv, IdleJob, Idle
<1>7. DeployInv
  <2>1. \A d \in 1..Len(Served) :
          status[Served[d]] = "approved" /\ bundle[Served[d]] = Released[Served[d]]
    BY <1>2
  <2>2. \A d \in Numbers : status[deployed[d].version] = "approved"
                           /\ bundle[deployed[d].version] = deployed[d].bundle
    BY <1>2, <2>1 DEF Numbers
  <2>3. \A plan \in planned : \E d \in 1..Len(Served) :
          plan.version = Served[d] /\ plan.bundle = Released[Served[d]]
    OBVIOUS
  <2>4. \A plan \in planned : status[plan.version] = "approved"
                             /\ bundle[plan.version] = plan.bundle
    <3> HIDE DEF Init
    <3> QED
      BY <2>1, <2>3
  <2> QED
    BY <2>2, <2>4 DEF DeployInv
<1> QED
  BY <1>3, <1>4, <1>5, <1>6, <1>7 DEF IInv

\* A quote begins with no Deployment, or with one of the version it names.
LEMMA AskedStep ==
  ASSUME IInv, NEW q \in Quotes,
         (\E v \in Versions : AskFor(q, v)) \/ AskLive(q) \/ AskRouted(q)
  PROVE  IInv'
<1>1. /\ Len(deployed) \in Nat /\ live \in 0..Len(deployed)
      /\ \A d \in Numbers : deployed[d].version \in Versions
      /\ rule # None => rule.version \in Versions /\ rule.deployment \in Numbers
  <2>1. deployed \in Seq([version : Versions, bundle : Bundles])
    BY DEF IInv, TypeOK
  <2>2. \A d \in Numbers : deployed[d] \in [version : Versions, bundle : Bundles]
    BY <2>1, ElementOfSeq DEF Numbers
  <2> QED
    BY <2>1, <2>2, LenProperties DEF IInv, TypeOK
<1>2. CASE \E v \in Versions : AskFor(q, v)
  <2>1. PICK v \in Versions : Ask(q, v, ServedBy(v))
    BY <1>2 DEF AskFor
  <2>2. ServedBy(v) \in 0..Len(deployed)
    BY <1>1 DEF ServedBy
  <2>3. ServedBy(v) # 0 => deployed[ServedBy(v)].version = v
    BY DEF ServedBy
  <2> QED
    BY <2>1, <2>2, <2>3, AskStep
<1>3. CASE AskLive(q)
  <2>1. live \in Numbers
    BY <1>1, <1>3 DEF AskLive, Numbers
  <2> QED
    BY <1>1, <1>3, <2>1, AskStep DEF AskLive, Numbers
<1>4. CASE AskRouted(q)
  BY <1>1, <1>4, AskStep DEF AskRouted, Numbers
<1> QED
  BY <1>2, <1>3, <1>4

\* A task that is refused or has finished was not an answer.
LEMMA EndStep ==
  ASSUME IInv, NEW t \in Tasks, Refuse(t) \/ Finish(t)
  PROVE  IInv'
<1>1. Leave(t) /\ task[t].pc # "answered"
  BY DEF Refuse, Finish, Unanswered
<1> QED
  BY <1>1, LeaveStep

LEMMA StepIInv == IInv /\ [Next]_vars => IInv'
<1> SUFFICES ASSUME IInv, [Next]_vars
             PROVE  IInv'
  OBVIOUS
<1>1. CASE CompileNext
  BY <1>1, ReadVersionStep, CompileStep, UploadStep, CommitCompileStep,
     AbandonCompileStep DEF CompileNext
<1>2. CASE VersionNext
  BY <1>2, DecideStep, SubmitUncheckedStep, BeginDeployStep, WriteRuleStep DEF VersionNext
<1>3. CASE FetchNext
  BY <1>3, ReadHeldStep, ReadUnheldStep, ReadBlobStep, DegradeStep, EndStep
     DEF FetchNext
<1>4. CASE QuoteNext
  BY <1>4, AskedStep, AnswerStep, SampleStep, ProduceStep DEF QuoteNext
<1>5. CASE OtherNext
  BY <1>5, PrepareStep, CompareStep, SubmitForReviewStep, CommitSubmitStep
     DEF OtherNext
<1>6. CASE (\E d \in Numbers : GoLive(d)) \/ \E plan \in planned : Deploy(plan)
  BY <1>6, GoLiveStep, DeployStep
<1>7. CASE Restart
  BY <1>7, RestartStep
<1>8. CASE UNCHANGED vars
  <2>1. /\ UNCHANGED <<status, bundle, checked, lock, job, blobs, past>>
        /\ UNCHANGED <<planned, deployed, live, rule, slot, task, trace>>
    BY <1>8 DEF vars, versionVars, deployVars
  <2>2. TypeOK'
    BY <2>1 DEF IInv, TypeOK, InHand, Traces, Numbers
  <2>3. Coherent(slot)' /\ VersionInv' /\ LockInv' /\ DeployInv' /\ PrepareInv' /\ TaskInv'
    BY <2>1 DEF IInv, Coherent, VersionInv, LockInv, DeployInv, PrepareInv, TaskInv, TraceOf,
       Numbers
  <2> QED
    BY <2>2, <2>3 DEF IInv
<1> QED
  BY <1>1, <1>2, <1>3, <1>4, <1>5, <1>6, <1>7, <1>8 DEF Next

\* The inductive invariant of rating_versions.py, score.py and bundle_slot.py.
THEOREM Inductive == Spec => []IInv
<1> QED
  BY InitIInv, StepIInv, PTL DEF Spec

\* Every row and every task of the process has its shape.
THEOREM TypeCorrect == Spec => []TypeOK
<1>1. IInv => TypeOK
  BY DEF IInv
<1> QED
  BY <1>1, Inductive, PTL

\* The slot (bundle_slot.py) knows no reference whose bundle it has evicted.
THEOREM SlotStaysCoherent == Spec => []SlotCoherent
<1>1. IInv => SlotCoherent
  BY DEF IInv, SlotCoherent
<1> QED
  BY <1>1, Inductive, PTL

\* What is loaded for a Deployment while storage answers is the bundle it
\* recorded (score.py, deployments.py).
THEOREM PricedByItsDeployment == Spec => []PricedAsRecorded
<1>1. IInv => PricedAsRecorded
  BY DEF IInv, TaskInv, PrepareInv, PricedAsRecorded
<1> QED
  BY <1>1, Inductive, PTL

\* Golden-quote evidence stays about the bundle under review
\* (rating_versions.py, submit_for_review).
THEOREM EvidenceStands == Spec => []ReviewedAsChecked
<1>1. IInv => ReviewedAsChecked
  BY DEF IInv, VersionInv, ReviewedAsChecked
<1> QED
  BY <1>1, Inductive, PTL

\* A trace is of the Deployment and the bundle of its answer
\* (worker/trace_handlers.py).
THEOREM TracesTell == Spec => []TraceTellsPrice
<1>1. IInv => TraceTellsPrice
  BY DEF IInv, TaskInv, TraceTellsPrice
<1> QED
  BY <1>1, Inductive, PTL

-----------------------------------------------------------------------------
(* The refinement.                                                         *)

\* A step that touches no answer and answers no quote.
LEMMA SameAnswers ==
  ASSUME \A q \in Quotes :
           task[q].pc = "answered" \/ task'[q].pc = "answered" => task'[q] = task[q]
  PROVE  Answers' = Answers
BY DEF Answers

\* Only an answer is answered: what fetches, ends or restarts is not.
LEMMA OthersKeepAnswers ==
  ASSUME IInv, FetchNext \/ OtherNext \/ Restart
         \/ \E q \in Quotes : (\E v \in Versions : AskFor(q, v)) \/ AskLive(q) \/ AskRouted(q)
  PROVE  Answers' = Answers
<1>1. task \in [Tasks -> InHand]
  BY DEF IInv, TypeOK
<1>2. /\ Idle.pc = "idle"
      /\ \A use, v, d, names : [Idle EXCEPT !.pc = "metadata", !.use = use, !.version = v,
                                     !.deployment = d, !.names = names].pc = "metadata"
  BY DEF Idle
<1>3. ASSUME NEW t \in Tasks, task[t].pc # "answered", NEW r,
             task' = [task EXCEPT ![t] = r], r.pc # "answered"
      PROVE  Answers' = Answers
  <2>1. \A q \in Quotes : q # t => task'[q] = task[q]
    BY <1>1, <1>3 DEF Tasks
  <2>2. task'[t].pc # "answered"
    BY <1>1, <1>3
  <2> QED
    BY <1>3, <2>1, <2>2, SameAnswers
<1>4. ASSUME NEW t \in Tasks, NEW use, NEW v, NEW d, NEW names, Begin(t, use, v, d, names)
      PROVE  Answers' = Answers
  BY <1>2, <1>3, <1>4 DEF Begin
<1>5. ASSUME NEW t \in Tasks, task[t].pc # "answered", NEW h, NEW degraded,
             Loaded(t, h, degraded)
      PROVE  Answers' = Answers
  <2>1. task' = [task EXCEPT ![t] = [task[t] EXCEPT !.pc = "loaded", !.hash = h,
                                                  !.degraded = degraded]]
    BY <1>1, <1>5 DEF Loaded
  <2>2. [task[t] EXCEPT !.pc = "loaded", !.hash = h, !.degraded = degraded].pc = "loaded"
    BY <1>1 DEF InHand
  <2> QED
    BY <1>3, <1>5, <2>1, <2>2
<1>6. ASSUME NEW t \in Tasks, task[t].pc # "answered", Leave(t)
      PROVE  Answers' = Answers
  BY <1>2, <1>3, <1>6 DEF Leave
<1>7. CASE FetchNext
  <2>1. PICK t \in Tasks : \/ ReadHeld(t) \/ ReadBlob(t) \/ Degrade(t)
                           \/ ReadUnheld(t) \/ Refuse(t) \/ Finish(t)
    BY <1>7 DEF FetchNext
  <2>2. CASE ReadHeld(t) \/ ReadBlob(t) \/ Degrade(t)
    BY <1>5, <2>2 DEF ReadHeld, ReadBlob, Degrade, Unanswered
  <2>3. CASE ReadUnheld(t)
    <3>1. task' = [task EXCEPT ![t] = [task[t] EXCEPT !.pc = "blob",
                                       !.hash = bundle[task[t].version]]]
      BY <1>1, <2>3 DEF ReadUnheld
    <3> QED
      BY <1>1, <1>3, <2>3, <3>1 DEF ReadUnheld, InHand
  <2>4. CASE Refuse(t) \/ Finish(t)
    BY <1>6, <2>4 DEF Refuse, Finish, Unanswered
  <2> QED
    BY <2>1, <2>2, <2>3, <2>4
<1>8. CASE OtherNext
  <2>1. PICK t \in Others : \/ \E plan \in planned : Prepare(t, plan)
                            \/ \E v \in Versions : Compare(t, v) \/ SubmitForReview(t, v)
                            \/ CommitSubmit(t)
    BY <1>8 DEF OtherNext
  <2>2. CASE CommitSubmit(t)
    BY <1>2, <1>3, <2>2 DEF CommitSubmit, Tasks
  <2>3. CASE ~CommitSubmit(t)
    BY <1>4, <2>1, <2>3 DEF Prepare, Compare, SubmitForReview, Tasks
  <2> QED
    BY <2>2, <2>3
<1>9. CASE Restart
  BY <1>1, <1>2, <1>9, SameAnswers DEF Restart, Tasks
<1>10. CASE \E q \in Quotes : (\E v \in Versions : AskFor(q, v)) \/ AskLive(q) \/ AskRouted(q)
  BY <1>4, <1>10 DEF AskFor, AskLive, AskRouted, Ask, Tasks
<1> QED
  BY <1>7, <1>8, <1>9, <1>10

\* A compile's commit, a Deployment and an answer are steps of PricedQuotes,
\* and nothing else is seen there.
LEMMA PricedStep == IInv /\ [Next]_vars => [Priced!Next]_Priced!vars
<1> SUFFICES ASSUME IInv, [Next]_vars
             PROVE  [Priced!Next]_Priced!vars
  OBVIOUS
<1> DEFINE Unseen == UNCHANGED <<past, deployed>> /\ Answers' = Answers
<1>1. Unseen => UNCHANGED Priced!vars
  BY DEF Priced!vars
<1>2. (task' = task) => Answers' = Answers
  BY SameAnswers
<1>3. ASSUME NEW c \in Compiles, CommitCompile(c)
      PROVE  Priced!Next
  <2> DEFINE v == job[c].version
             h == job[c].hash
  <2>1. v \in Versions /\ h \in Bundles /\ status[v] = "draft"
    BY <1>3 DEF IInv, LockInv, CommitCompile
  <2>2. \A d \in 1..Len(deployed) : deployed[d].version # v
    BY <2>1 DEF IInv, DeployInv, Numbers
  <2>3. /\ past' = [past EXCEPT ![v] = @ \cup {h}]
        /\ deployed' = deployed /\ Answers' = Answers
    BY <1>2, <1>3 DEF CommitCompile, deployVars
  <2>4. Priced!Compile(v, h)
    BY <2>2, <2>3 DEF Priced!Compile
  <2> QED
    BY <2>1, <2>4 DEF Priced!Next
<1>4. ASSUME NEW plan \in planned, Deploy(plan)
      PROVE  Priced!Next
  <2> DEFINE v == plan.version
             h == plan.bundle
  <2>1. /\ v \in Versions /\ h \in Bundles /\ plan = [version |-> v, bundle |-> h]
        /\ bundle[v] = h
    BY DEF IInv, TypeOK, DeployInv
  <2>2. h \in past[v]
    BY <2>1, SlotConstants DEF IInv, VersionInv
  <2>3. \A d \in 1..Len(deployed) : deployed[d].version = v => deployed[d].bundle = h
    BY <2>1 DEF IInv, DeployInv, Numbers
  <2>4. /\ deployed' = Append(deployed, [version |-> v, bundle |-> h])
        /\ past' = past /\ Answers' = Answers
    BY <1>2, <1>4, <2>1 DEF Deploy, versionVars
  <2>5. Priced!Deploy(v, h)
    BY <2>2, <2>3, <2>4 DEF Priced!Deploy
  <2> QED
    BY <2>1, <2>5 DEF Priced!Next
<1>5. ASSUME NEW q \in Quotes, Answer(q)
      PROVE  Priced!Next
  <2> DEFINE of == task[q]
  <2>1. of \in InHand /\ of.pc = "loaded"
    BY <1>5 DEF IInv, TypeOK, Answer, Tasks
  <2>2. /\ of.version \in Versions /\ of.hash \in past[of.version]
        /\ of.deployment # 0 => deployed[of.deployment].version = of.version
        /\ of.deployment # 0 /\ ~of.degraded => deployed[of.deployment].bundle = of.hash
    BY <2>1 DEF IInv, TaskInv, Tasks
  <2>3. of.hash \in Bundles /\ of.deployment \in 0..Len(deployed) /\ of.degraded \in BOOLEAN
    BY <2>1, <2>2 DEF IInv, TypeOK, InHand
  <2>4. /\ \A p \in Quotes : p # q => task'[p] = task[p]
        /\ task'[q] = [of EXCEPT !.pc = "answered"]
    BY <1>5 DEF IInv, TypeOK, Answer, Tasks
  <2> DEFINE told == [version |-> of.version, deployment |-> of.deployment,
                      bundle |-> of.hash, degraded |-> of.degraded]
  <2>5. /\ task'[q].pc = "answered" /\ task'[q].version = of.version
        /\ task'[q].deployment = of.deployment
        /\ task'[q].hash = of.hash /\ task'[q].degraded = of.degraded
    BY <2>1, <2>4 DEF InHand
  <2>6. Answers' = [Answers EXCEPT ![q] = told] /\ Answers[q] = None
    BY <2>1, <2>4, <2>5 DEF Answers
  <2>7. past' = past /\ deployed' = deployed
    BY <1>5 DEF Answer, versionVars, deployVars
  <2> HIDE DEF of
  <2>8. Priced!Price(q, of.version, of.deployment, of.hash, of.degraded)
    BY <2>2, <2>6, <2>7 DEF Priced!Price
  <2> QED
    BY <2>2, <2>3, <2>8 DEF Priced!Next
<1>6. CASE CompileNext
  <2>1. PICK c \in Compiles : \/ \E v \in Versions : ReadVersion(c, v)
                              \/ \E h \in Bundles : Compile(c, h)
                              \/ Upload(c) \/ CommitCompile(c) \/ AbandonCompile(c)
    BY <1>6 DEF CompileNext
  <2>2. CASE ~CommitCompile(c)
    <3>1. UNCHANGED <<past, deployed, task>>
      BY <2>1, <2>2 DEF ReadVersion, Compile, Upload, AbandonCompile, deployVars
    <3> QED
      BY <1>1, <1>2, <3>1
  <2> QED
    BY <1>3, <2>2
<1>7. CASE VersionNext
  <2>1. UNCHANGED <<past, deployed, task>>
    BY <1>7 DEF VersionNext, Decide, SubmitUnchecked, BeginDeploy, WriteRule, versionVars,
       deployVars
  <2> QED
    BY <1>1, <1>2, <2>1
<1>8. CASE FetchNext \/ OtherNext \/ Restart
  <2>1. Answers' = Answers
    BY <1>8, OthersKeepAnswers
  <2>2. UNCHANGED <<past, deployed>>
    BY <1>8 DEF FetchNext, OtherNext, Restart, ReadHeld, ReadUnheld, ReadBlob, Degrade,
       Refuse, Finish, Leave, Prepare, Compare, SubmitForReview, CommitSubmit,
       versionVars, deployVars
  <2> QED
    BY <1>1, <2>1, <2>2
<1>9. CASE QuoteNext
  <2>1. PICK q \in Quotes : \/ \E v \in Versions : AskFor(q, v)
                            \/ AskLive(q) \/ AskRouted(q)
                            \/ Answer(q) \/ Sample(q)
                            \/ \E same \in BOOLEAN : Produce(q, same)
    BY <1>9 DEF QuoteNext
  <2>2. CASE Answer(q)
    BY <1>5, <2>2
  <2>3. CASE Sample(q) \/ \E same \in BOOLEAN : Produce(q, same)
    <3>1. UNCHANGED <<past, deployed, task>>
      BY <2>3 DEF Sample, Produce, versionVars, deployVars
    <3> QED
      BY <1>1, <1>2, <3>1
  <2>4. CASE (\E v \in Versions : AskFor(q, v)) \/ AskLive(q) \/ AskRouted(q)
    <3>1. Answers' = Answers
      BY <2>4, OthersKeepAnswers
    <3>2. UNCHANGED <<past, deployed>>
      BY <2>4 DEF AskFor, AskLive, AskRouted, Ask, versionVars, deployVars
    <3> QED
      BY <1>1, <3>1, <3>2
  <2> QED
    BY <2>1, <2>2, <2>3, <2>4
<1>10. CASE \E d \in Numbers : GoLive(d)
  <2>1. UNCHANGED <<past, deployed, task>>
    BY <1>10 DEF GoLive, versionVars
  <2> QED
    BY <1>1, <1>2, <2>1
<1>11. CASE UNCHANGED vars
  <2>1. UNCHANGED <<past, deployed, task>>
    BY <1>11 DEF vars, versionVars, deployVars
  <2> QED
    BY <1>1, <1>2, <2>1
<1> QED
  BY <1>4, <1>6, <1>7, <1>8, <1>9, <1>10, <1>11 DEF Next

\* Compiles, Deployments and answers (score.py, deployments.py) are those of
\* PricedQuotes: even a quote answered through an outage is priced by a bundle
\* its version was compiled to.
THEOREM QuotesImplementPriced == Spec => ImplementsPricedQuotes
<1>1. Init => Priced!Init
  <2> SUFFICES ASSUME Init
               PROVE  Priced!Init
    OBVIOUS
  <2>1. \A q \in Quotes : task[q].pc = "idle"
    BY DEF Init, Tasks, Idle
  <2>2. Answers = [q \in Quotes |-> None]
    BY <2>1 DEF Answers
  <2> QED
    BY <2>2 DEF Init, Priced!Init
<1> QED
  BY <1>1, PricedStep, Inductive, PTL DEF Spec, Priced!Spec, ImplementsPricedQuotes

-----------------------------------------------------------------------------
(* The window of a claim that the code breaks: outside it the claim holds. *)

\* No two compile Jobs of one version are under way together.
OneCompileEach ==
  \A b, c \in Compiles :
    job[b].pc # "idle" /\ job[c].pc # "idle" /\ job[b].version = job[c].version => b = c

\* What a compile has read as the bundle it replaces is the version's.
PriorInv ==
  \A c \in Compiles : job[c].pc # "idle" =>
    job[c].version \in Versions /\ job[c].prior = bundle[job[c].version]

\* Every step keeps it: only the commit of a compile writes a bundle.
LEMMA PriorStep ==
  ASSUME TypeOK, OneCompileEach, PriorInv, [Next]_vars
  PROVE  PriorInv'
<1>0. bundle \in [Versions -> Bundles \cup {None}] /\ job \in [Compiles -> Jobs]
  BY DEF TypeOK
<1>1. ASSUME NEW c \in Compiles, NEW v \in Versions, ReadVersion(c, v) PROVE PriorInv'
  BY <1>0, <1>1 DEF ReadVersion, PriorInv
<1>2. ASSUME NEW c \in Compiles, (\E h \in Bundles : Compile(c, h)) \/ Upload(c) PROVE PriorInv'
  <2>1. /\ UNCHANGED bundle /\ job[c].pc # "idle"
        /\ job'[c].version = job[c].version /\ job'[c].prior = job[c].prior
        /\ \A b \in Compiles \ {c} : job'[b] = job[b]
    BY <1>0, <1>2 DEF Compile, Upload, Jobs
  <2> QED BY <2>1 DEF PriorInv
<1>3. ASSUME NEW c \in Compiles, CommitCompile(c) PROVE PriorInv'
  <2>1. /\ job[c].pc # "idle" /\ job'[c].pc = "idle"
        /\ \A b \in Compiles \ {c} : job'[b] = job[b]
        /\ bundle' = [bundle EXCEPT ![job[c].version] = job[c].hash]
    BY <1>0, <1>3 DEF CommitCompile, IdleJob
  <2>2. \A b \in Compiles \ {c} : job[b].pc # "idle" => job[b].version # job[c].version
    BY <2>1 DEF OneCompileEach
  <2> QED BY <1>0, <2>1, <2>2 DEF PriorInv
<1>4. ASSUME NEW c \in Compiles, AbandonCompile(c) PROVE PriorInv'
  <2>1. /\ UNCHANGED bundle /\ job'[c].pc = "idle"
        /\ \A b \in Compiles \ {c} : job'[b] = job[b]
    BY <1>0, <1>4 DEF AbandonCompile, IdleJob
  <2> QED BY <2>1 DEF PriorInv
<1>5. CASE UNCHANGED <<bundle, job>>
  BY <1>5 DEF PriorInv
<1>6. CompileNext \/ UNCHANGED <<bundle, job>>
  <2> USE DEF versionVars
  <2>1. CASE VersionNext
    BY <2>1 DEF VersionNext, Decide, SubmitUnchecked, BeginDeploy, WriteRule
  <2>2. CASE FetchNext
    BY <2>2 DEF FetchNext, ReadHeld, ReadUnheld, ReadBlob, Degrade, Refuse, Finish, Leave
  <2>3. CASE QuoteNext
    BY <2>3 DEF QuoteNext, AskFor, AskLive, AskRouted, Ask, Answer, Sample, Produce
  <2>4. CASE OtherNext
    BY <2>4 DEF OtherNext, Prepare, Compare, SubmitForReview, CommitSubmit
  <2>5. CASE \/ (\E plan \in planned : Deploy(plan)) \/ (\E d \in Numbers : GoLive(d))
             \/ Restart \/ UNCHANGED vars
    BY <2>5 DEF Deploy, GoLive, Restart, vars
  <2> QED BY <2>1, <2>2, <2>3, <2>4, <2>5 DEF Next
<1> QED BY <1>1, <1>2, <1>3, <1>4, <1>5, <1>6 DEF CompileNext

\* The Audit Event of a compile names the bundle that it replaced (rating_handlers.py), provided
\* that the compiles of one version follow one another: the handler reads it before the lock.
THEOREM SerialEventsTellBefore == Spec /\ []OneCompileEach => EventTellsBefore
<1> DEFINE Told == \A c \in Compiles :
                     job[c].pc = "uploaded" /\ job'[c].pc = "idle"
                       /\ past'[job[c].version] # past[job[c].version]
                     => job[c].prior = bundle[job[c].version]
<1>1. Init => PriorInv
  BY DEF Init, PriorInv, IdleJob
<1>2. TypeOK /\ OneCompileEach /\ PriorInv /\ [Next]_vars => PriorInv'
  BY PriorStep
<1>3. PriorInv => [Told]_vars
  BY DEF PriorInv
<1>4. EventTellsBefore <=> [][Told]_vars
  BY DEF EventTellsBefore
<1> HIDE DEF Told
<1> QED BY <1>1, <1>2, <1>3, <1>4, TypeCorrect, PTL DEF Spec
=============================================================================
