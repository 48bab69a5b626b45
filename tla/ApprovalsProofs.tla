-------------------------- MODULE ApprovalsProofs --------------------------
(***************************************************************************)
(* What Approvals guarantees for any number of principals, versions and    *)
(* requests, any policies and any authors of evidence.                     *)
(***************************************************************************)
EXTENDS Approvals, FiniteSetTheorems, TLAPS

-----------------------------------------------------------------------------
(* Operators.                                                              *)

\* _resolve_status leaves a request open or decides it one of three ways, and approves it
\* exactly when the approvals are enough.
LEMMA OutcomeKinds ==
  ASSUME NEW r, NEW decision \in Decisions, NEW n
  PROVE  /\ Outcome(r, decision, n) \in {"review", "approved", "changes_requested", "rejected"}
         /\ Outcome(r, decision, n) = "approved" => decision = "approve" /\ n >= required[r]
         /\ Outcome(r, decision, n) = "review" => decision = "approve" /\ ~(n >= required[r])
         /\ decision # "approve" => Outcome(r, decision, n) \in {"changes_requested", "rejected"}
BY DEF Outcome, Decisions

\* The hook does nothing for a request still open, approves a version in review, and returns
\* one in review to draft or leaves one in draft.
LEMMA CarryMoves ==
  ASSUME NEW v \in Versions, NEW outcome \in {"review"} \cup Closed, Carry(v, outcome)
  PROVE  \/ outcome = "review" /\ UNCHANGED version
         \/ /\ outcome = "approved" /\ version[v] = "review"
            /\ version' = [version EXCEPT ![v] = "approved"]
         \/ /\ outcome \in Closed \ {"approved"} /\ version[v] = "draft"
            /\ UNCHANGED version
         \/ /\ outcome \in Closed \ {"approved"} /\ version[v] = "review"
            /\ version' = [version EXCEPT ![v] = "draft"]
<1>1. CASE outcome = "review"
  <2>1. Target(outcome) = None
    BY <1>1 DEF Target
  <2> QED BY <1>1, <2>1, ApprovalConstants DEF Carry
<1>2. CASE outcome = "approved"
  <2>1. Target(outcome) = "approved"
    BY <1>2 DEF Target
  <2> QED BY <1>2, <2>1, ApprovalConstants DEF Carry, Closed
<1>3. CASE outcome \in Closed \ {"approved"}
  <2>1. Target(outcome) = "draft"
    BY <1>3 DEF Target, Closed
  <2> QED BY <1>3, <2>1, ApprovalConstants DEF Carry
<1> QED BY <1>1, <1>2, <1>3 DEF Closed

-----------------------------------------------------------------------------
(* Type correctness.                                                       *)

\* What a decision does to a request and its version.
LEMMA DecideMoves ==
  ASSUME TypeOK, NEW p \in Deciders, NEW r \in Requests, NEW decision \in Decisions,
         Decide(p, r, decision)
  PROVE  \E outcome \in {"review", "approved", "changes_requested", "rejected"},
            approved \in SUBSET Principals :
           /\ approved = IF decision = "approve" THEN approvals[r] \cup {p} ELSE approvals[r]
           /\ outcome = Outcome(r, decision, Cardinality(approved))
           /\ status' = [status EXCEPT ![r] = outcome]
           /\ approvals' = [approvals EXCEPT ![r] = approved]
           /\ subject[r] \in Versions
           /\ Carry(subject[r], outcome)
<1> DEFINE approved == IF decision = "approve" THEN approvals[r] \cup {p} ELSE approvals[r]
           outcome == Outcome(r, decision, Cardinality(approved))
<1>1. approved \in SUBSET Principals
  BY ApprovalConstants DEF TypeOK
<1>2. outcome \in {"review", "approved", "changes_requested", "rejected"}
  BY OutcomeKinds
<1>3. subject[r] \in Versions
  BY DEF TypeOK, Decide
<1>4. /\ status' = [status EXCEPT ![r] = outcome]
      /\ approvals' = [approvals EXCEPT ![r] = approved]
      /\ Carry(subject[r], outcome)
  BY DEF Decide
<1> HIDE DEF outcome
<1>5. outcome = Outcome(r, decision, Cardinality(approved))
  BY DEF outcome
<1> QED BY <1>1, <1>2, <1>3, <1>4, <1>5

\* No version or request is ill typed before anything is submitted.
LEMMA TypeInit == Init => TypeOK
BY ApprovalConstants DEF Init, TypeOK

\* No step breaks a type.
LEMMA TypeStep == TypeOK /\ [Next]_vars => TypeOK'
<1> SUFFICES ASSUME TypeOK, [Next]_vars PROVE TypeOK'
  OBVIOUS
<1> USE ApprovalConstants
<1>1. ASSUME NEW p \in Submitters, NEW v \in Versions, NEW route \in Routes, Ask(p, v, route)
      PROVE  TypeOK'
  <2>1. policy.required \in Nat \ {0}
    BY <1>1 DEF Ask, TypeOK
  <2>2. [route |-> route, version |-> v, required |-> policy.required] \in Asks
    BY <2>1 DEF Asks
  <2> QED BY <1>1, <2>2 DEF Ask, TypeOK, requestVars, versionVars
<1>2. ASSUME NEW p \in Submitters, NEW r \in Requests, NEW v \in Versions,
             asking[p] # None, Create(p, r, v)
      PROVE  /\ status' \in [Requests -> {"absent", "review"} \cup Closed]
             /\ subject' \in [Requests -> Versions \cup {None}]
             /\ submitter' \in [Requests -> Principals \cup {None}]
             /\ required' \in [Requests -> Nat]
             /\ asking' \in [Principals -> Asks \cup {None}]
             /\ \A s \in Requests : status'[s] # "absent" =>
                  subject'[s] \in Versions /\ submitter'[s] \in Principals
  <2>1. p \in Principals
    OBVIOUS
  <2>2. asking[p].required \in Nat
    BY <1>2, <2>1 DEF TypeOK, Asks
  <2> QED BY <1>2, <2>1, <2>2 DEF Create, TypeOK
<1>3. ASSUME NEW p \in Submitters, NEW r \in Requests, NEW v \in Versions, InsertOwn(p, r, v)
      PROVE  TypeOK'
  <2>1. \E authors \in EvidenceAuthors : evidence' = [evidence EXCEPT ![v] = authors]
    BY <1>3 DEF InsertOwn
  <2>2. evidence' \in [Versions -> SUBSET Principals]
    BY <2>1 DEF TypeOK
  <2>3. /\ version' \in [Versions -> {"draft", "review", "approved"}]
        /\ pinned' \in [Versions -> Requests \cup {None}]
    BY <1>3 DEF InsertOwn, TypeOK
  <2>4. asking[p] # None /\ Create(p, r, v)
    BY <1>3 DEF InsertOwn
  <2>5. UNCHANGED <<policy, deployed, approvals, withdrawing>>
    BY <2>4 DEF Create
  <2> QED BY <1>2, <2>2, <2>3, <2>4, <2>5 DEF TypeOK
<1>4. ASSUME NEW p \in Submitters, NEW r \in Requests, NEW v \in Versions,
             InsertGeneric(p, r, v)
      PROVE  TypeOK'
  BY <1>2, <1>4 DEF InsertGeneric, Create, TypeOK, versionVars
<1>5. ASSUME NEW p \in Submitters, Abandon(p) PROVE TypeOK'
  BY <1>5 DEF Abandon, TypeOK, requestVars, versionVars
<1>6. ASSUME NEW p \in Deciders, NEW r \in Requests, NEW decision \in Decisions,
             Decide(p, r, decision)
      PROVE  TypeOK'
  <2>1. PICK outcome \in {"review", "approved", "changes_requested", "rejected"},
             approved \in SUBSET Principals :
          /\ approved = IF decision = "approve" THEN approvals[r] \cup {p} ELSE approvals[r]
          /\ outcome = Outcome(r, decision, Cardinality(approved))
          /\ status' = [status EXCEPT ![r] = outcome]
          /\ approvals' = [approvals EXCEPT ![r] = approved]
          /\ subject[r] \in Versions
          /\ Carry(subject[r], outcome)
    BY <1>6, DecideMoves
  <2>2. version' \in [Versions -> {"draft", "review", "approved"}]
    BY <2>1, CarryMoves DEF TypeOK, Closed
  <2> QED BY <1>6, <2>1, <2>2 DEF Decide, TypeOK, Closed
<1>7. ASSUME NEW r \in Requests, Withdraw(r) PROVE TypeOK'
  <2>1. version' \in [Versions -> {"draft", "review", "approved"}]
    BY <1>7, CarryMoves DEF Withdraw, Withdrawable, TypeOK, Closed
  <2> QED BY <1>7, <2>1 DEF Withdraw, Withdrawable, TypeOK, Closed
<1>8. ASSUME NEW r \in Requests, CheckNotLive(r) PROVE TypeOK'
  BY <1>8 DEF CheckNotLive, TypeOK, requestVars, versionVars
<1>9. ASSUME NEW new \in Policies \cup {None}, ChangePolicy(new) PROVE TypeOK'
  BY <1>9 DEF ChangePolicy, TypeOK, requestVars, versionVars
<1>10. ASSUME NEW v \in Versions, Deploy(v) PROVE TypeOK'
  BY <1>10 DEF Deploy, TypeOK, requestVars, versionVars
<1>11. CASE UNCHANGED vars
  BY <1>11 DEF vars, TypeOK, requestVars, versionVars
<1> QED
  BY <1>1, <1>3, <1>4, <1>5, <1>6, <1>7, <1>8, <1>9, <1>10, <1>11
     DEF Next, AskOwn, AskGeneric, Routes

\* Every reachable state of the versions, the requests and the submissions in flight is well
\* typed: in particular a version is only ever in draft, in review or approved, whatever its
\* requests come to (_target_status).
THEOREM TypeCorrect == Spec => []TypeOK
BY TypeInit, TypeStep, PTL DEF Spec

-----------------------------------------------------------------------------
(* Versions and their requests.                                            *)

\* A version's own submission holds its row: the version is in draft, and no other
\* submission of it is past its first statement.
OwnHoldsDraft ==
  \A p \in Principals : asking[p] # None /\ asking[p].route = "own" =>
    /\ version[asking[p].version] = "draft"
    /\ \A q \in Principals :
         asking[q] # None /\ asking[q].route = "own"
           /\ asking[q].version = asking[p].version => q = p

\* What a version remembers of its last submission is a request of that version.
PinnedIsOwn ==
  \A v \in Versions : pinned[v] # None =>
    status[pinned[v]] # "absent" /\ subject[pinned[v]] = v

\* The request a version in review has pinned is open, and a version is approved as long as
\* that request is.  (A request withdrawn again returns the version and leaves the one it has
\* pinned open, so a draft may have it open.)
PinnedAgrees ==
  \A v \in Versions :
    /\ version[v] # "draft" => pinned[v] # None
    /\ version[v] = "review" => status[pinned[v]] = "review"
    /\ pinned[v] # None => (version[v] = "approved" <=> status[pinned[v]] = "approved")

\* A request open on a version in review is the one the version pinned, and the version of an
\* approved request is approved.
OpenIsPinned ==
  \A r \in Requests :
    /\ status[r] = "review" /\ version[subject[r]] = "review" => pinned[subject[r]] = r
    /\ status[r] = "approved" => version[subject[r]] = "approved"

DeployedIsApproved == \A v \in deployed : version[v] = "approved"

VersionInv ==
  OwnHoldsDraft /\ PinnedIsOwn /\ PinnedAgrees /\ OpenIsPinned /\ DeployedIsApproved

\* No version has been submitted.
LEMMA VersionInit == Init => VersionInv
BY DEF Init, VersionInv, OwnHoldsDraft, PinnedIsOwn, PinnedAgrees, OpenIsPinned,
       DeployedIsApproved

\* A request that is decided or withdrawn takes its version along.
LEMMA VersionCarried ==
  ASSUME TypeOK, VersionInv, NEW r \in Requests,
         NEW outcome \in {"review"} \cup Closed,
         status[r] = "review" \/ (status[r] \in {"approved", "withdrawn"} /\ outcome = "withdrawn"),
         status' = [status EXCEPT ![r] = outcome],
         Carry(subject[r], outcome),
         UNCHANGED <<pinned, subject, asking, deployed>>
  PROVE  VersionInv'
<1> DEFINE v == subject[r]
<1> USE DEF VersionInv, OwnHoldsDraft, PinnedIsOwn, PinnedAgrees, OpenIsPinned,
            DeployedIsApproved
<1>0. /\ v \in Versions /\ None \notin Requests
      /\ version \in [Versions -> {"draft", "review", "approved"}]
      /\ status \in [Requests -> {"absent", "review"} \cup Closed]
      /\ pinned \in [Versions -> Requests \cup {None}]
      /\ subject \in [Requests -> Versions \cup {None}]
      /\ asking \in [Principals -> Asks \cup {None}]
      /\ deployed \subseteq Versions
  BY ApprovalConstants DEF TypeOK
<1>1. CASE outcome = "review" /\ UNCHANGED version
  <2>1. status' = status
    BY <1>0, <1>1 DEF Closed
  <2> QED BY <1>0, <1>1, <2>1
<1>2. CASE /\ outcome = "approved" /\ version[v] = "review"
           /\ version' = [version EXCEPT ![v] = "approved"]
  <2>1. pinned[v] = r
    BY <1>0, <1>2
  <2>2. OwnHoldsDraft' /\ PinnedIsOwn' /\ DeployedIsApproved'
    BY <1>0, <1>2 DEF Asks
  <2>3. PinnedAgrees'
    BY <1>0, <1>2, <2>1
  <2>4. OpenIsPinned'
    BY <1>0, <1>2, <2>1
  <2> QED BY <2>2, <2>3, <2>4
<1>3. CASE outcome \in Closed \ {"approved"} /\ version[v] = "draft" /\ UNCHANGED version
  <2>1. status[r] # "approved"
    BY <1>0, <1>3
  <2>2. \A w \in Versions : pinned[w] = r => w = v
    BY <1>0
  <2>3. PinnedIsOwn' /\ PinnedAgrees'
    BY <1>0, <1>3, <2>1, <2>2 DEF Closed
  <2> QED BY <1>0, <1>3, <2>1, <2>3 DEF Closed
<1>4. CASE /\ outcome \in Closed \ {"approved"} /\ version[v] = "review"
           /\ version' = [version EXCEPT ![v] = "draft"]
  <2>1. /\ status[r] # "approved"
        /\ \A w \in Versions : pinned[w] = r => w = v
    BY <1>0, <1>4
  <2>2. OwnHoldsDraft' /\ PinnedIsOwn' /\ DeployedIsApproved'
    BY <1>0, <1>4 DEF Asks, Closed
  <2>3. PinnedAgrees'
    BY <1>0, <1>4, <2>1 DEF Closed
  <2>4. OpenIsPinned'
    BY <1>0, <1>4, <2>1 DEF Closed
  <2> QED BY <2>2, <2>3, <2>4
<1> QED BY <1>0, <1>1, <1>2, <1>3, <1>4, CarryMoves

\* A version's own submission puts it in review with the only open request it has.
LEMMA VersionInsertOwn ==
  ASSUME TypeOK, VersionInv, NEW p \in Submitters, NEW r \in Requests, NEW v \in Versions,
         InsertOwn(p, r, v)
  PROVE  VersionInv'
<1> USE DEF VersionInv, OwnHoldsDraft, PinnedIsOwn, PinnedAgrees, OpenIsPinned,
            DeployedIsApproved
<1>0. /\ p \in Principals /\ None \notin Requests
      /\ version \in [Versions -> {"draft", "review", "approved"}]
      /\ status \in [Requests -> {"absent", "review"} \cup Closed]
      /\ pinned \in [Versions -> Requests \cup {None}]
      /\ subject \in [Requests -> Versions \cup {None}]
      /\ asking \in [Principals -> Asks \cup {None}]
      /\ deployed \subseteq Versions
      /\ \A s \in Requests : status[s] # "absent" => subject[s] \in Versions
  BY ApprovalConstants DEF TypeOK
<1>1. /\ asking[p] # None /\ asking[p].route = "own" /\ asking[p].version = v
      /\ status[r] = "absent" /\ Open(v) = {}
      /\ status' = [status EXCEPT ![r] = "review"]
      /\ subject' = [subject EXCEPT ![r] = v]
      /\ asking' = [asking EXCEPT ![p] = None]
      /\ version' = [version EXCEPT ![v] = "review"]
      /\ pinned' = [pinned EXCEPT ![v] = r]
      /\ UNCHANGED deployed
  BY DEF InsertOwn, Create, NoneOpen
<1>2. version[v] = "draft" /\ \A s \in Requests : status[s] = "review" => subject[s] # v
  BY <1>0, <1>1 DEF Open
<1>3. \A w \in Versions : pinned[w] # r
  BY <1>0, <1>1
<1>4. OwnHoldsDraft'
  BY <1>0, <1>1 DEF Asks
<1>5. PinnedIsOwn' /\ DeployedIsApproved'
  BY <1>0, <1>1, <1>2, <1>3
<1>6. PinnedAgrees'
  BY <1>0, <1>1, <1>2, <1>3
<1>7. OpenIsPinned'
  BY <1>0, <1>1, <1>2, <1>3
<1> QED BY <1>4, <1>5, <1>6, <1>7

\* Every step keeps versions and requests in agreement.
LEMMA VersionNext == TypeOK /\ VersionInv /\ [Next]_vars => VersionInv'
<1> SUFFICES ASSUME TypeOK, VersionInv, [Next]_vars PROVE VersionInv'
  OBVIOUS
<1>0. /\ Submitters \subseteq Principals /\ None \notin Requests
      /\ version \in [Versions -> {"draft", "review", "approved"}]
      /\ status \in [Requests -> {"absent", "review"} \cup Closed]
      /\ pinned \in [Versions -> Requests \cup {None}]
      /\ subject \in [Requests -> Versions \cup {None}]
      /\ asking \in [Principals -> Asks \cup {None}]
      /\ deployed \subseteq Versions
  BY ApprovalConstants DEF TypeOK
<1>1. ASSUME NEW p \in Submitters, NEW r \in Requests, NEW v \in Versions, InsertOwn(p, r, v)
      PROVE  VersionInv'
  BY <1>1, VersionInsertOwn
<1>2. ASSUME NEW p \in Deciders, NEW r \in Requests, NEW decision \in Decisions,
             Decide(p, r, decision)
      PROVE  VersionInv'
  <2>1. PICK outcome \in {"review", "approved", "changes_requested", "rejected"},
             approved \in SUBSET Principals :
          /\ approved = IF decision = "approve" THEN approvals[r] \cup {p} ELSE approvals[r]
          /\ outcome = Outcome(r, decision, Cardinality(approved))
          /\ status' = [status EXCEPT ![r] = outcome]
          /\ approvals' = [approvals EXCEPT ![r] = approved]
          /\ subject[r] \in Versions
          /\ Carry(subject[r], outcome)
    BY <1>2, DecideMoves
  <2>2. outcome \in {"review"} \cup Closed
    BY DEF Closed
  <2>3. status[r] = "review" /\ UNCHANGED <<pinned, subject, asking, deployed>>
    BY <1>2 DEF Decide
  <2> QED BY <2>1, <2>2, <2>3, VersionCarried
<1>3. ASSUME NEW r \in Requests, Withdraw(r) PROVE VersionInv'
  <2>1. /\ status[r] \in {"review", "approved", "withdrawn"}
        /\ status' = [status EXCEPT ![r] = "withdrawn"]
        /\ Carry(subject[r], "withdrawn")
        /\ UNCHANGED <<pinned, subject, asking, deployed>>
    BY <1>3 DEF Withdraw, Withdrawable
  <2> QED BY <2>1, VersionCarried DEF Closed
<1> USE DEF VersionInv, OwnHoldsDraft, PinnedIsOwn, PinnedAgrees, OpenIsPinned,
            DeployedIsApproved
<1>4. ASSUME NEW p \in Submitters, NEW v \in Versions, AskOwn(p, v) PROVE VersionInv'
  <2>1. /\ \A q \in Principals : ~(asking[q] # None /\ asking[q].route = "own"
                                     /\ asking[q].version = v)
        /\ version[v] = "draft"
        /\ asking' = [asking EXCEPT ![p] =
                        [route |-> "own", version |-> v, required |-> policy.required]]
        /\ UNCHANGED <<version, pinned, status, subject, deployed>>
    BY <1>4 DEF AskOwn, Ask, Locked, requestVars, versionVars
  <2>2. OwnHoldsDraft'
    BY <1>0, <2>1
  <2> QED BY <2>1, <2>2
<1>5. ASSUME NEW p \in Submitters, NEW v \in Versions, AskGeneric(p, v) PROVE VersionInv'
  <2>1. /\ asking' = [asking EXCEPT ![p] =
                        [route |-> "generic", version |-> v, required |-> policy.required]]
        /\ UNCHANGED <<version, pinned, status, subject, deployed>>
    BY <1>5 DEF AskGeneric, Ask, requestVars, versionVars
  <2>2. OwnHoldsDraft'
    BY <1>0, <2>1
  <2> QED BY <2>1, <2>2
<1>6. ASSUME NEW p \in Submitters, NEW r \in Requests, NEW v \in Versions,
             InsertGeneric(p, r, v)
      PROVE  VersionInv'
  <2>1. /\ status[r] = "absent" /\ Open(v) = {}
        /\ status' = [status EXCEPT ![r] = "review"]
        /\ subject' = [subject EXCEPT ![r] = v]
        /\ asking' = [asking EXCEPT ![p] = None]
        /\ UNCHANGED <<version, pinned, deployed>>
    BY <1>6 DEF InsertGeneric, Create, NoneOpen, versionVars
  <2>2. \A w \in Versions : pinned[w] # r
    BY <1>0, <2>1
  <2>3. version[v] # "review"
    BY <1>0, <2>1 DEF Open
  <2>4. OwnHoldsDraft'
    BY <1>0, <2>1
  <2> QED BY <1>0, <2>1, <2>2, <2>3, <2>4
<1>7. ASSUME NEW p \in Submitters, Abandon(p) PROVE VersionInv'
  BY <1>0, <1>7 DEF Abandon, requestVars, versionVars
<1>8. ASSUME NEW v \in Versions, Deploy(v) PROVE VersionInv'
  BY <1>0, <1>8 DEF Deploy, requestVars, versionVars
<1>9. CASE \/ \E r \in Requests : CheckNotLive(r)
           \/ \E new \in Policies \cup {None} : ChangePolicy(new)
           \/ UNCHANGED vars
  BY <1>9 DEF CheckNotLive, ChangePolicy, vars, requestVars, versionVars
<1> QED BY <1>1, <1>2, <1>3, <1>4, <1>5, <1>6, <1>7, <1>8, <1>9 DEF Next

-----------------------------------------------------------------------------
(* Approvals.                                                              *)

\* A request has no decisions before it exists; while it is open or approved no party to it
\* has approved it; and it is approved on enough approvals.
ApprovalInv ==
  \A r \in Requests :
    /\ status[r] = "absent" => approvals[r] = {}
    /\ status[r] \in {"review", "approved"} =>
         /\ submitter[r] \notin approvals[r]
         /\ AuthorOf[subject[r]] \notin approvals[r]
         /\ evidence[subject[r]] \cap approvals[r] = {}
    /\ status[r] = "approved" => Cardinality(approvals[r]) >= required[r]

\* There are no requests yet.
LEMMA ApprovalInit == Init => ApprovalInv
BY DEF Init, ApprovalInv

\* A new request has no decisions, and the evidence of a version with an open or an approved
\* request is not pinned again.
LEMMA ApprovalInsert ==
  ASSUME TypeOK, VersionInv, ApprovalInv,
         NEW p \in Submitters, NEW r \in Requests, NEW v \in Versions,
         InsertOwn(p, r, v) \/ InsertGeneric(p, r, v)
  PROVE  ApprovalInv'
<1>0. /\ status \in [Requests -> {"absent", "review"} \cup Closed]
      /\ version \in [Versions -> {"draft", "review", "approved"}]
      /\ evidence \in [Versions -> SUBSET Principals]
      /\ subject \in [Requests -> Versions \cup {None}]
      /\ submitter \in [Requests -> Principals \cup {None}]
      /\ required \in [Requests -> Nat]
      /\ p \in Principals /\ asking \in [Principals -> Asks \cup {None}]
  BY ApprovalConstants DEF TypeOK
<1>1. /\ asking[p] # None /\ asking[p].version = v
      /\ status[r] = "absent" /\ Open(v) = {}
      /\ status' = [status EXCEPT ![r] = "review"]
      /\ subject' = [subject EXCEPT ![r] = v]
      /\ submitter' = [submitter EXCEPT ![r] = p]
      /\ required' = [required EXCEPT ![r] = asking[p].required]
      /\ UNCHANGED approvals
  BY DEF InsertOwn, InsertGeneric, Create, NoneOpen
<1>2. ASSUME NEW s \in Requests, s # r, status[s] \in {"review", "approved"}
      PROVE  evidence'[subject[s]] = evidence[subject[s]]
  <2>1. CASE UNCHANGED evidence
    BY <2>1
  <2>2. CASE InsertOwn(p, r, v)
    <3>1. version[v] = "draft"
      BY <1>0, <1>1, <2>2 DEF InsertOwn, VersionInv, OwnHoldsDraft
    <3>2. subject[s] # v
      BY <1>1, <1>2, <3>1 DEF Open, VersionInv, OpenIsPinned
    <3>3. PICK authors : evidence' = [evidence EXCEPT ![v] = authors]
      BY <2>2 DEF InsertOwn
    <3>4. subject[s] \in Versions
      BY <1>2 DEF TypeOK
    <3> QED BY <1>0, <3>2, <3>3, <3>4
  <2> QED BY <2>1, <2>2 DEF InsertGeneric, versionVars
<1>3. ASSUME NEW s \in Requests, s # r
      PROVE  /\ status'[s] = status[s] /\ subject'[s] = subject[s]
             /\ submitter'[s] = submitter[s] /\ required'[s] = required[s]
  BY <1>0, <1>1, <1>3
<1>4. status'[r] = "review" /\ approvals'[r] = {}
  BY <1>0, <1>1 DEF ApprovalInv
<1>5. ASSUME NEW s \in Requests, s # r
      PROVE  /\ status'[s] = "absent" => approvals'[s] = {}
             /\ status'[s] \in {"review", "approved"} =>
                  /\ submitter'[s] \notin approvals'[s]
                  /\ AuthorOf[subject'[s]] \notin approvals'[s]
                  /\ evidence'[subject'[s]] \cap approvals'[s] = {}
             /\ status'[s] = "approved" => Cardinality(approvals'[s]) >= required'[s]
  BY <1>1, <1>2, <1>3, <1>5 DEF ApprovalInv
<1> QED BY <1>4, <1>5 DEF ApprovalInv

\* A decision is by nobody with an interest, and approves on enough approvals.
LEMMA ApprovalDecide ==
  ASSUME TypeOK, ApprovalInv, NEW p \in Deciders, NEW r \in Requests,
         NEW decision \in Decisions, Decide(p, r, decision)
  PROVE  ApprovalInv'
<1>1. PICK outcome \in {"review", "approved", "changes_requested", "rejected"},
           approved \in SUBSET Principals :
        /\ approved = IF decision = "approve" THEN approvals[r] \cup {p} ELSE approvals[r]
        /\ outcome = Outcome(r, decision, Cardinality(approved))
        /\ status' = [status EXCEPT ![r] = outcome]
        /\ approvals' = [approvals EXCEPT ![r] = approved]
        /\ subject[r] \in Versions
        /\ Carry(subject[r], outcome)
  BY DecideMoves
<1>2. /\ status[r] = "review" /\ p \notin Interested(r)
      /\ UNCHANGED <<evidence, subject, submitter, required>>
  BY DEF Decide
<1>3. /\ status \in [Requests -> {"absent", "review"} \cup Closed]
      /\ approvals \in [Requests -> SUBSET Principals]
  BY DEF TypeOK
<1>4. outcome = "approved" => Cardinality(approved) >= required[r]
  BY <1>1, OutcomeKinds
<1>5. /\ submitter[r] \notin approved /\ AuthorOf[subject[r]] \notin approved
      /\ evidence[subject[r]] \cap approved = {}
  BY <1>1, <1>2 DEF Interested, ApprovalInv
<1>6. /\ status'[r] = outcome /\ approvals'[r] = approved
      /\ \A s \in Requests : s # r => status'[s] = status[s] /\ approvals'[s] = approvals[s]
  BY <1>1, <1>3
<1> QED BY <1>2, <1>4, <1>5, <1>6 DEF ApprovalInv

\* No step lets a party to a request approve it.
LEMMA ApprovalNext == TypeOK /\ VersionInv /\ ApprovalInv /\ [Next]_vars => ApprovalInv'
<1> SUFFICES ASSUME TypeOK, VersionInv, ApprovalInv, [Next]_vars PROVE ApprovalInv'
  OBVIOUS
<1>1. ASSUME NEW r \in Requests, Withdraw(r) PROVE ApprovalInv'
  <2>1. status \in [Requests -> {"absent", "review"} \cup Closed]
    BY DEF TypeOK
  <2>2. /\ status' = [status EXCEPT ![r] = "withdrawn"]
        /\ UNCHANGED <<evidence, subject, submitter, required, approvals>>
    BY <1>1 DEF Withdraw, Withdrawable
  <2> QED BY <2>1, <2>2 DEF ApprovalInv
<1>2. CASE UNCHANGED <<status, subject, submitter, required, approvals, evidence>>
  BY <1>2 DEF ApprovalInv
<1>3. ASSUME NEW p \in Submitters, NEW v \in Versions, AskOwn(p, v) \/ AskGeneric(p, v)
      PROVE  UNCHANGED <<status, subject, submitter, required, approvals, evidence>>
  BY <1>3 DEF AskOwn, AskGeneric, Ask, requestVars, versionVars
<1>4. ASSUME \/ \E p \in Submitters : Abandon(p)
             \/ \E r \in Requests : CheckNotLive(r)
             \/ \E new \in Policies \cup {None} : ChangePolicy(new)
             \/ \E v \in Versions : Deploy(v)
             \/ UNCHANGED vars
      PROVE  UNCHANGED <<status, subject, submitter, required, approvals, evidence>>
  BY <1>4 DEF Abandon, CheckNotLive, ChangePolicy, Deploy, vars, requestVars, versionVars
<1> QED BY <1>1, <1>2, <1>3, <1>4, ApprovalInsert, ApprovalDecide DEF Next

-----------------------------------------------------------------------------
(* The theorems.                                                           *)

\* R1 and FR-353 (approvals.py, decide): an approved request has as many approvals as its
\* submission asked for, none by its submitter, by the version's author or by an author of
\* the evidence, for any number of rounds, approvers and changes of policy.
THEOREM FourEyesAlways == Spec => []FourEyes
<1> DEFINE IInv == TypeOK /\ VersionInv /\ ApprovalInv
<1>1. Init => IInv
  BY TypeInit, VersionInit, ApprovalInit
<1>2. IInv /\ [Next]_vars => IInv'
  BY TypeStep, VersionNext, ApprovalNext
<1>3. IInv => FourEyes
  BY DEF ApprovalInv, FourEyes
<1> QED BY <1>1, <1>2, <1>3, PTL DEF Spec

\* api/approvals.py, decide_request: a version in review has exactly one open request, the
\* one its own submission opened.
THEOREM ReviewHasItsRequest == Spec => []ReviewMatchesRequest
<1> DEFINE IInv == TypeOK /\ VersionInv
<1>1. Init => IInv
  BY TypeInit, VersionInit
<1>2. IInv /\ [Next]_vars => IInv'
  BY TypeStep, VersionNext
<1>3. IInv => ReviewMatchesRequest
  BY DEF TypeOK, VersionInv, PinnedIsOwn, PinnedAgrees, OpenIsPinned, ReviewMatchesRequest, Open
<1> QED BY <1>1, <1>2, <1>3, PTL DEF Spec

\* FR-357 (approvals.py, withdraw): whatever a withdrawal read before it locked the request,
\* no deployed version is left with no approval behind it.
THEOREM LiveVersionsAreApproved == Spec => []LiveHasApproval
<1> DEFINE IInv == TypeOK /\ VersionInv
<1>1. Init => IInv
  BY TypeInit, VersionInit
<1>2. IInv /\ [Next]_vars => IInv'
  BY TypeStep, VersionNext
<1>3. IInv => LiveHasApproval
  BY DEF TypeOK, VersionInv, PinnedIsOwn, PinnedAgrees, DeployedIsApproved, LiveHasApproval
<1> QED BY <1>1, <1>2, <1>3, PTL DEF Spec

-----------------------------------------------------------------------------
(* The refinement.                                                         *)

AbstractVars ==
  <<version, OfPinned(required, 0), [v \in Versions |-> InterestedIn(v)],
    OfPinned(approvals, {})>>

\* Nothing shows of a step that changes neither a version nor the request it pinned.
LEMMA AbstractSame ==
  ASSUME UNCHANGED <<version, pinned, evidence>>,
         \A v \in Versions : version[v] # "draft" =>
           /\ required'[pinned[v]] = required[pinned[v]]
           /\ approvals'[pinned[v]] = approvals[pinned[v]]
           /\ submitter'[pinned[v]] = submitter[pinned[v]]
  PROVE  UNCHANGED AbstractVars
<1>1. OfPinned(required, 0)' = OfPinned(required, 0)
  BY DEF OfPinned
<1>2. OfPinned(approvals, {})' = OfPinned(approvals, {})
  BY DEF OfPinned
<1>3. \A v \in Versions : InterestedIn(v)' = InterestedIn(v)
  BY DEF InterestedIn
<1>4. [v \in Versions |-> InterestedIn(v)]' = [v \in Versions |-> InterestedIn(v)]
  BY <1>3
<1> QED BY <1>1, <1>2, <1>4 DEF AbstractVars

\* A version's own submission starts it from no approvals.
LEMMA AbstractInsertOwn ==
  ASSUME TypeOK, VersionInv, ApprovalInv,
         NEW p \in Submitters, NEW r \in Requests, NEW v \in Versions,
         InsertOwn(p, r, v)
  PROVE  Abstract!Submit(v)
<1> DEFINE needed == OfPinned(required, 0)
           endorsed == OfPinned(approvals, {})
           interested == [w \in Versions |-> InterestedIn(w)]
<1>0. /\ p \in Principals /\ None \notin Requests
      /\ version \in [Versions -> {"draft", "review", "approved"}]
      /\ evidence \in [Versions -> SUBSET Principals]
      /\ status \in [Requests -> {"absent", "review"} \cup Closed]
      /\ pinned \in [Versions -> Requests \cup {None}]
      /\ submitter \in [Requests -> Principals \cup {None}]
      /\ required \in [Requests -> Nat]
      /\ approvals \in [Requests -> SUBSET Principals]
      /\ asking \in [Principals -> Asks \cup {None}]
      /\ AuthorOf \in [Versions -> Principals]
      /\ EvidenceAuthors \subseteq SUBSET Principals
  BY ApprovalConstants DEF TypeOK
<1>1. /\ asking[p] # None /\ asking[p].route = "own" /\ asking[p].version = v
      /\ status[r] = "absent"
      /\ submitter' = [submitter EXCEPT ![r] = p]
      /\ required' = [required EXCEPT ![r] = asking[p].required]
      /\ version' = [version EXCEPT ![v] = "review"]
      /\ pinned' = [pinned EXCEPT ![v] = r]
      /\ UNCHANGED approvals
  BY DEF InsertOwn, Create
<1>2. PICK authors \in SUBSET Principals : evidence' = [evidence EXCEPT ![v] = authors]
  BY <1>0 DEF InsertOwn
<1>3. version[v] = "draft"
  BY <1>0, <1>1 DEF VersionInv, OwnHoldsDraft
<1>4. \A w \in Versions : pinned[w] # r
  BY <1>0, <1>1 DEF VersionInv, PinnedIsOwn
<1>5. asking[p].required \in Nat \ {0}
  BY <1>0, <1>1 DEF Asks
<1>6. /\ needed' = [needed EXCEPT ![v] = needed'[v]]
      /\ needed'[v] \in Nat \ {0}
  <2>1. \A w \in Versions : w # v =>
          /\ pinned'[w] = pinned[w] /\ version'[w] = version[w]
          /\ version[w] # "draft" => required'[pinned[w]] = required[pinned[w]]
    BY <1>0, <1>1, <1>4 DEF VersionInv, PinnedAgrees
  <2>2. pinned'[v] = r /\ required'[r] = asking[p].required /\ version'[v] = "review"
    BY <1>0, <1>1
  <2>3. /\ needed'[v] = required'[r]
        /\ \A w \in Versions : w # v => needed'[w] = needed[w]
    BY <2>1, <2>2 DEF OfPinned
  <2>4. needed \in [Versions -> {needed[w] : w \in Versions}] /\ DOMAIN needed' = Versions
    BY DEF OfPinned
  <2> HIDE DEF needed
  <2>5. needed' = [needed EXCEPT ![v] = needed'[v]]
    BY <2>3, <2>4 DEF needed, OfPinned
  <2> QED BY <1>5, <2>2, <2>3, <2>5
<1>7. endorsed' = [endorsed EXCEPT ![v] = {}]
  <2>1. approvals[r] = {}
    BY <1>1 DEF ApprovalInv
  <2> QED BY <1>0, <1>1, <1>3, <2>1 DEF OfPinned
<1>8. /\ interested' = [interested EXCEPT ![v] = interested'[v]]
      /\ interested'[v] \in (SUBSET Principals) \ {{}}
  <2>1. \A w \in Versions \ {v} : InterestedIn(w)' = InterestedIn(w)
    <3> SUFFICES ASSUME NEW w \in Versions \ {v} PROVE InterestedIn(w)' = InterestedIn(w)
      OBVIOUS
    <3>1. pinned'[w] = pinned[w] /\ evidence'[w] = evidence[w] /\ version'[w] = version[w]
      BY <1>0, <1>1, <1>2
    <3>2. version[w] # "draft" => submitter'[pinned[w]] = submitter[pinned[w]]
      BY <1>0, <1>1, <1>4 DEF VersionInv, PinnedAgrees
    <3> QED BY <3>1, <3>2 DEF InterestedIn
  <2>2. InterestedIn(v)' = {p, AuthorOf[v]} \cup authors
    <3>1. /\ pinned'[v] = r /\ submitter'[r] = p /\ evidence'[v] = authors
          /\ version'[v] = "review"
      BY <1>0, <1>1, <1>2
    <3> QED BY <3>1 DEF InterestedIn
  <2>3. interested'[v] = InterestedIn(v)'
    OBVIOUS
  <2>4. interested' = [interested EXCEPT ![v] = interested'[v]]
    BY <2>1
  <2> QED BY <1>0, <2>2, <2>3, <2>4
<1> QED BY <1>1, <1>3, <1>6, <1>7, <1>8 DEF Abstract!Submit

\* Where a version in review is the subject, its pinned request is decided.
LEMMA AbstractCarry ==
  ASSUME TypeOK, VersionInv, NEW r \in Requests,
         NEW outcome \in {"review"} \cup Closed,
         status[r] = "review" \/ (status[r] \in {"approved", "withdrawn"} /\ outcome = "withdrawn"),
         Carry(subject[r], outcome),
         UNCHANGED <<pinned, evidence, submitter, required, approvals>>,
         outcome \notin {"review", "approved"}
  PROVE  Abstract!Return(subject[r]) \/ UNCHANGED AbstractVars
<1>1. subject[r] \in Versions
  BY DEF TypeOK
<1>2. CASE UNCHANGED version
  BY <1>2, AbstractSame
<1>3. CASE /\ version[subject[r]] = "review"
           /\ version' = [version EXCEPT ![subject[r]] = "draft"]
  <2> PICK v \in Versions : v = subject[r]
    BY <1>1
  <2>0. /\ version[v] = "review" /\ version'[v] = "draft"
        /\ \A w \in Versions \ {v} : version'[w] = version[w]
    BY <1>3 DEF TypeOK
  <2>1. /\ OfPinned(required, 0)' = [OfPinned(required, 0) EXCEPT ![v] = 0]
        /\ OfPinned(approvals, {})' = [OfPinned(approvals, {}) EXCEPT ![v] = {}]
    BY <2>0 DEF OfPinned
  <2>2. /\ InterestedIn(v)' = {}
        /\ \A w \in Versions \ {v} : InterestedIn(w)' = InterestedIn(w)
    BY <2>0 DEF InterestedIn
  <2>3. [w \in Versions |-> InterestedIn(w)]' =
          [[w \in Versions |-> InterestedIn(w)] EXCEPT ![v] = {}]
    BY <2>2
  <2> QED BY <1>3, <2>1, <2>3 DEF Abstract!Return
<1> QED BY <1>1, <1>2, <1>3, CarryMoves

\* An approval is one more endorsement, or one of a request no version goes by.
LEMMA AbstractApprove ==
  ASSUME TypeOK, VersionInv, NEW p \in Deciders, NEW r \in Requests,
         Decide(p, r, "approve")
  PROVE  Abstract!Endorse(subject[r], p) \/ UNCHANGED AbstractVars
<1> DEFINE v == subject[r]
<1>1. PICK outcome \in {"review", "approved", "changes_requested", "rejected"},
           approved \in SUBSET Principals :
        /\ approved = IF "approve" = "approve" THEN approvals[r] \cup {p} ELSE approvals[r]
        /\ outcome = Outcome(r, "approve", Cardinality(approved))
        /\ status' = [status EXCEPT ![r] = outcome]
        /\ approvals' = [approvals EXCEPT ![r] = approved]
        /\ subject[r] \in Versions
        /\ Carry(subject[r], outcome)
  BY DecideMoves DEF Decisions
<1>2. /\ status[r] = "review" /\ p \notin Interested(r) /\ p \notin approvals[r]
      /\ UNCHANGED <<evidence, pinned, submitter, required>>
  BY DEF Decide, DecidedBefore
<1>3. /\ version \in [Versions -> {"draft", "review", "approved"}]
      /\ pinned \in [Versions -> Requests \cup {None}]
      /\ approvals \in [Requests -> SUBSET Principals]
      /\ None \notin Requests
  BY ApprovalConstants DEF TypeOK
<1>4. outcome = IF Cardinality(approved) >= required[r] THEN "approved" ELSE "review"
  BY <1>1 DEF Outcome
<1>5. CASE version[v] = "review"
  <2>0. pinned[v] = r
    BY <1>1, <1>2, <1>3, <1>5 DEF VersionInv, OpenIsPinned
  <2>1. version[v] = "review"
    BY <1>5
  <2>2. \A w \in Versions : w # v => pinned[w] # r
    BY <1>3, <2>0 DEF VersionInv, PinnedIsOwn
  <2>3. \A w \in Versions : version'[w] = "draft" <=> version[w] = "draft"
    BY <1>1, <1>3, <1>4, <1>5, CarryMoves DEF Closed
  <2>4. /\ OfPinned(required, 0)' = OfPinned(required, 0)
        /\ OfPinned(required, 0)[v] = required[r]
    <3>1. UNCHANGED <<required, pinned>>
      BY <1>2
    <3> QED BY <1>1, <1>5, <2>0, <2>3, <3>1 DEF OfPinned
  <2>5. /\ OfPinned(approvals, {})[v] = approvals[r]
        /\ OfPinned(approvals, {})' =
             [OfPinned(approvals, {}) EXCEPT ![v] = approvals[r] \cup {p}]
    <3>1. /\ approvals'[r] = approvals[r] \cup {p} /\ pinned' = pinned
          /\ \A w \in Versions : w # v => approvals'[pinned[w]] = approvals[pinned[w]]
      BY <1>1, <1>2, <1>3, <2>2
    <3>2. \A w \in Versions : OfPinned(approvals, {})'[w] =
            IF w = v THEN approvals[r] \cup {p} ELSE OfPinned(approvals, {})[w]
      BY <1>5, <2>0, <2>3, <3>1 DEF OfPinned
    <3>3. OfPinned(approvals, {})[v] = approvals[r]
      BY <1>1, <1>5, <2>0 DEF OfPinned
    <3> QED BY <3>2, <3>3 DEF OfPinned
  <2>6. /\ [w \in Versions |-> InterestedIn(w)]' = [w \in Versions |-> InterestedIn(w)]
        /\ p \notin [w \in Versions |-> InterestedIn(w)][v]
    <3>1. InterestedIn(v) = Interested(r)
      BY <1>5, <2>0 DEF InterestedIn, Interested
    <3> QED BY <1>1, <1>2, <2>3, <3>1 DEF InterestedIn
  <2>7. version' = [version EXCEPT ![v] =
          IF Cardinality(approvals[r] \cup {p}) >= required[r] THEN "approved" ELSE @]
    BY <1>1, <1>3, <1>4, <2>1, CarryMoves DEF Closed
  <2>8. Abstract!Cardinality(approvals[r] \cup {p}) = Cardinality(approvals[r] \cup {p})
    BY DEF Abstract!Cardinality, Cardinality
  <2> QED BY <1>2, <2>1, <2>4, <2>5, <2>6, <2>7, <2>8 DEF Abstract!Endorse
<1>6. CASE version[v] # "review"
  <2>1. UNCHANGED version
    BY <1>1, <1>4, <1>6, CarryMoves DEF Closed
  <2>2. \A w \in Versions : version[w] # "draft" => pinned[w] # r
    BY <1>1, <1>2, <1>3, <1>6 DEF VersionInv, PinnedIsOwn, PinnedAgrees
  <2>3. \A w \in Versions :
          version[w] # "draft" => approvals'[pinned[w]] = approvals[pinned[w]]
    BY <1>1, <1>3, <2>2
  <2> QED BY <1>2, <2>1, <2>3, AbstractSame
<1> QED BY <1>5, <1>6

\* Every step is one of the promised ones, or shows nothing.
LEMMA AbstractStep ==
  ASSUME TypeOK, VersionInv, ApprovalInv, [Next]_vars
  PROVE  Abstract!Next \/ UNCHANGED AbstractVars
<1>1. ASSUME NEW p \in Submitters, NEW r \in Requests, NEW v \in Versions, InsertOwn(p, r, v)
      PROVE  Abstract!Next
  BY <1>1, AbstractInsertOwn DEF Abstract!Next
<1>2. ASSUME NEW p \in Submitters, NEW r \in Requests, NEW v \in Versions,
             InsertGeneric(p, r, v)
      PROVE  UNCHANGED AbstractVars
  <2>1. /\ status[r] = "absent" /\ UNCHANGED <<version, pinned, evidence, approvals>>
        /\ submitter' = [submitter EXCEPT ![r] = p]
        /\ required' = [required EXCEPT ![r] = asking[p].required]
    BY <1>2 DEF InsertGeneric, Create, versionVars
  <2>2. /\ submitter \in [Requests -> Principals \cup {None}]
        /\ required \in [Requests -> Nat]
        /\ pinned \in [Versions -> Requests \cup {None}]
    BY DEF TypeOK
  <2>3. \A w \in Versions : version[w] # "draft" => pinned[w] # r
    BY <2>1 DEF VersionInv, PinnedIsOwn, PinnedAgrees
  <2> QED BY <2>1, <2>2, <2>3, AbstractSame
<1>3. ASSUME NEW p \in Deciders, NEW r \in Requests, Decide(p, r, "approve")
      PROVE  Abstract!Next \/ UNCHANGED AbstractVars
  <2>1. subject[r] \in Versions /\ p \in Principals
    BY <1>3, ApprovalConstants DEF TypeOK, Decide
  <2> QED BY <1>3, <2>1, AbstractApprove DEF Abstract!Next
<1>4. ASSUME NEW p \in Deciders, NEW r \in Requests, NEW decision \in Decisions \ {"approve"},
             Decide(p, r, decision)
      PROVE  Abstract!Next \/ UNCHANGED AbstractVars
  <2>1. PICK outcome \in {"review", "approved", "changes_requested", "rejected"},
             approved \in SUBSET Principals :
          /\ approved = IF decision = "approve" THEN approvals[r] \cup {p} ELSE approvals[r]
          /\ outcome = Outcome(r, decision, Cardinality(approved))
          /\ status' = [status EXCEPT ![r] = outcome]
          /\ approvals' = [approvals EXCEPT ![r] = approved]
          /\ subject[r] \in Versions
          /\ Carry(subject[r], outcome)
    BY <1>4, DecideMoves
  <2>2. outcome \in {"review"} \cup Closed /\ outcome \notin {"review", "approved"}
    BY <2>1, OutcomeKinds DEF Closed
  <2>3. approvals \in [Requests -> SUBSET Principals]
    BY DEF TypeOK
  <2>4. /\ status[r] = "review"
        /\ UNCHANGED <<pinned, evidence, submitter, required, approvals>>
    BY <1>4, <2>1, <2>3 DEF Decide
  <2> QED BY <2>1, <2>2, <2>4, AbstractCarry DEF Abstract!Next
<1>5. ASSUME NEW r \in Requests, Withdraw(r) PROVE Abstract!Next \/ UNCHANGED AbstractVars
  <2>1. /\ status[r] \in {"review", "approved", "withdrawn"} /\ Carry(subject[r], "withdrawn")
        /\ UNCHANGED <<pinned, evidence, submitter, required, approvals>>
    BY <1>5 DEF Withdraw, Withdrawable
  <2>2. subject[r] \in Versions /\ "withdrawn" \in {"review"} \cup Closed
    BY <2>1 DEF TypeOK, Closed
  <2> QED BY <2>1, <2>2, AbstractCarry DEF Abstract!Next
<1>6. ASSUME NEW p \in Submitters, NEW v \in Versions, AskOwn(p, v) \/ AskGeneric(p, v)
      PROVE  UNCHANGED <<versionVars, requestVars>>
  BY <1>6 DEF AskOwn, AskGeneric, Ask
<1>7. ASSUME \/ \E p \in Submitters : Abandon(p)
             \/ \E r \in Requests : CheckNotLive(r)
             \/ \E new \in Policies \cup {None} : ChangePolicy(new)
             \/ \E v \in Versions : Deploy(v)
             \/ UNCHANGED vars
      PROVE  UNCHANGED <<versionVars, requestVars>>
  BY <1>7 DEF Abandon, CheckNotLive, ChangePolicy, Deploy, vars
<1>8. CASE UNCHANGED <<versionVars, requestVars>>
  BY <1>8, AbstractSame DEF versionVars, requestVars
<1> QED BY <1>1, <1>2, <1>3, <1>4, <1>5, <1>6, <1>7, <1>8 DEF Next, Decisions

\* Requests, routes, policies and the statements of a submission implement ReviewedVersions:
\* a version is approved by enough distinct principals without an interest in it, a returned
\* version starts from none, an approved one never changes, and requests of the generic route
\* that outlive a review change nothing.
THEOREM ApprovalsImplementReviewedVersions == Spec => ImplementsReviewedVersions
<1> DEFINE IInv == TypeOK /\ VersionInv /\ ApprovalInv
<1>1. Init => IInv
  BY TypeInit, VersionInit, ApprovalInit
<1>2. IInv /\ [Next]_vars => IInv'
  BY TypeStep, VersionNext, ApprovalNext
<1>3. Init => Abstract!Init
  BY DEF Init, Abstract!Init, OfPinned, InterestedIn
<1>4. UNCHANGED AbstractVars <=> UNCHANGED Abstract!vars
  BY DEF AbstractVars, Abstract!vars
<1>5. IInv /\ [Next]_vars => [Abstract!Next]_(Abstract!vars)
  BY <1>4, AbstractStep
<1> QED BY <1>1, <1>2, <1>3, <1>5, PTL DEF Spec, ImplementsReviewedVersions, Abstract!Spec

-----------------------------------------------------------------------------
(* The window of a claim that the code breaks: outside it the claim holds. *)

\* No request of the generic route is inserted for a version that was approved since the
\* submission found it in review.
InsertedInTime ==
  [][\A p \in Submitters, r \in Requests, v \in Versions :
       InsertGeneric(p, r, v) => version[v] # "approved"]_vars

\* A version becomes approved only with the one request that is open on it.
LEMMA ClosableCarried ==
  ASSUME TypeOK, VersionInv, OpenStaysClosable, NEW r \in Requests,
         NEW outcome \in {"review"} \cup Closed,
         status[r] = "review" \/ (status[r] \in {"approved", "withdrawn"} /\ outcome = "withdrawn"),
         status' = [status EXCEPT ![r] = outcome],
         Carry(subject[r], outcome), UNCHANGED subject
  PROVE  OpenStaysClosable'
<1> DEFINE v == subject[r]
<1>0. /\ v \in Versions
      /\ version \in [Versions -> {"draft", "review", "approved"}]
      /\ status \in [Requests -> {"absent", "review"} \cup Closed]
      /\ \A s \in Requests : status[s] = "review" => subject[s] \in Versions
  BY DEF TypeOK
<1>1. \/ UNCHANGED version
      \/ /\ outcome = "approved" /\ version[v] = "review"
         /\ version' = [version EXCEPT ![v] = "approved"]
      \/ version' = [version EXCEPT ![v] = "draft"]
  BY <1>0, CarryMoves
<1> SUFFICES ASSUME NEW s \in Requests, status'[s] = "review"
             PROVE  version'[subject[s]] \in {"draft", "review"}
  BY DEF OpenStaysClosable, CarriesBack
<1>2. status[s] = "review"
  BY <1>0 DEF Closed
<1>3. version[subject[s]] \in {"draft", "review"} /\ subject[s] \in Versions
  BY <1>0, <1>2 DEF OpenStaysClosable, CarriesBack
<1>4. CASE outcome = "approved" /\ version[v] = "review"
  <2>1. s # r /\ status[r] = "review"
    BY <1>0, <1>4
  <2>2. subject[s] # v
    BY <1>2, <1>4, <2>1 DEF VersionInv, OpenIsPinned
  <2> QED BY <1>0, <1>1, <1>3, <2>2
<1>5. CASE ~(outcome = "approved" /\ version[v] = "review")
  BY <1>0, <1>1, <1>3, <1>5
<1> QED BY <1>4, <1>5

\* Every step but a late insert keeps open requests closable.
LEMMA ClosableNext ==
  ASSUME TypeOK, VersionInv, OpenStaysClosable, [Next]_vars,
         \A p \in Submitters, r \in Requests, v \in Versions :
           InsertGeneric(p, r, v) => version[v] # "approved"
  PROVE  OpenStaysClosable'
<1>0. /\ version \in [Versions -> {"draft", "review", "approved"}]
      /\ status \in [Requests -> {"absent", "review"} \cup Closed]
      /\ subject \in [Requests -> Versions \cup {None}]
      /\ \A s \in Requests : status[s] = "review" => subject[s] \in Versions
  BY DEF TypeOK
<1>1. ASSUME NEW p \in Deciders, NEW r \in Requests, NEW decision \in Decisions,
             Decide(p, r, decision)
      PROVE  OpenStaysClosable'
  <2>1. PICK outcome \in {"review", "approved", "changes_requested", "rejected"},
             approved \in SUBSET Principals :
          status' = [status EXCEPT ![r] = outcome] /\ Carry(subject[r], outcome)
    BY <1>1, DecideMoves
  <2>2. outcome \in {"review"} \cup Closed
    BY DEF Closed
  <2>3. status[r] = "review" /\ UNCHANGED subject
    BY <1>1 DEF Decide
  <2> QED BY <2>1, <2>2, <2>3, ClosableCarried
<1>2. ASSUME NEW r \in Requests, Withdraw(r) PROVE OpenStaysClosable'
  <2>1. /\ status[r] \in {"review", "approved", "withdrawn"} /\ UNCHANGED subject
        /\ status' = [status EXCEPT ![r] = "withdrawn"]
        /\ Carry(subject[r], "withdrawn")
    BY <1>2 DEF Withdraw, Withdrawable
  <2> QED BY <2>1, ClosableCarried DEF Closed
<1>3. ASSUME NEW p \in Submitters, NEW r \in Requests, NEW v \in Versions,
             InsertOwn(p, r, v) \/ InsertGeneric(p, r, v)
      PROVE  OpenStaysClosable'
  <2>1. /\ status' = [status EXCEPT ![r] = "review"]
        /\ subject' = [subject EXCEPT ![r] = v]
    BY <1>3 DEF InsertOwn, InsertGeneric, Create
  <2>2. /\ version'[v] \in {"draft", "review"}
        /\ \A w \in Versions \ {v} : version'[w] = version[w]
    BY <1>0, <1>3 DEF InsertOwn, InsertGeneric, versionVars
  <2> SUFFICES ASSUME NEW s \in Requests, status'[s] = "review"
               PROVE  version'[subject'[s]] \in {"draft", "review"}
    BY DEF OpenStaysClosable, CarriesBack
  <2>3. CASE s = r
    BY <1>0, <2>1, <2>2, <2>3
  <2>4. CASE s # r
    <3>1. status[s] = "review" /\ subject'[s] = subject[s] /\ subject[s] \in Versions
      BY <1>0, <2>1, <2>4
    <3>2. version[subject[s]] \in {"draft", "review"}
      BY <3>1 DEF OpenStaysClosable, CarriesBack
    <3> QED BY <2>2, <3>1, <3>2
  <2> QED BY <2>3, <2>4
<1>4. CASE UNCHANGED <<version, status, subject>>
  BY <1>4 DEF OpenStaysClosable, CarriesBack
<1>5. \/ \E p \in Deciders, r \in Requests, decision \in Decisions : Decide(p, r, decision)
      \/ \E r \in Requests : Withdraw(r)
      \/ \E p \in Submitters, r \in Requests, v \in Versions :
           InsertOwn(p, r, v) \/ InsertGeneric(p, r, v)
      \/ UNCHANGED <<version, status, subject>>
  BY DEF Next, vars, versionVars, requestVars, AskOwn, AskGeneric, Ask, Abandon, CheckNotLive,
     ChangePolicy, Deploy
<1> QED BY <1>1, <1>2, <1>3, <1>4, <1>5

\* An open request can be closed (rating_versions.py, "must stay closable"), provided that no
\* generic submission inserts its request after the version it found in review was approved.
THEOREM InsertedInTimeStaysClosable == Spec /\ InsertedInTime => []OpenStaysClosable
<1> DEFINE Timely == \A p \in Submitters, r \in Requests, v \in Versions :
                       InsertGeneric(p, r, v) => version[v] # "approved"
<1>1. Init => OpenStaysClosable
  BY DEF Init, OpenStaysClosable
<1>2. TypeOK /\ VersionInv /\ OpenStaysClosable /\ [Next]_vars /\ [Timely]_vars
        => OpenStaysClosable'
  <2>1. TypeOK /\ VersionInv /\ OpenStaysClosable /\ [Next]_vars /\ Timely => OpenStaysClosable'
    BY ClosableNext
  <2>2. OpenStaysClosable /\ UNCHANGED vars => OpenStaysClosable'
    BY DEF OpenStaysClosable, CarriesBack, vars, versionVars, requestVars
  <2> HIDE DEF Timely
  <2> QED BY <2>1, <2>2
<1>3. InsertedInTime <=> [][Timely]_vars
  BY DEF InsertedInTime
<1>4. Spec => []VersionInv
  BY VersionInit, VersionNext, TypeCorrect, PTL DEF Spec
<1> HIDE DEF Timely
<1> QED BY <1>1, <1>2, <1>3, <1>4, TypeCorrect, PTL DEF Spec
=============================================================================
