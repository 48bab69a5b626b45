-------------------------- MODULE PromotionLadder --------------------------
(***************************************************************************)
(* What promotion promises (FR-267, FR-429; deploy, rollback and           *)
(* submit_request in backend/src/app/platform/deployments.py), without     *)
(* transactions, locks, a policy or the switch: an append-only record of   *)
(* Deployments, in which a Rating Version climbs from Environment to       *)
(* Environment.                                                            *)
(***************************************************************************)
CONSTANTS
  Environments,
  Versions,
  Requests,
  Deployments,
  Prior,   \* requires_prior_environment of each Environment, or None
  None

VARIABLES
  asked,   \* of a request: its rung, and the evidence it pinned; or None
  placed   \* of a Deployment: its rung and the request it executed; or None

vars == <<asked, placed>>

Init ==
  /\ asked = [r \in Requests |-> None]
  /\ placed = [d \in Deployments |-> None]

Placed == {d \in Deployments : placed[d] # None}

Reached(e, v) == \E d \in Placed : placed[d].env = e /\ placed[d].version = v

\* The rung below is reached.
Supported(e, v) == Prior[e] = None \/ Reached(Prior[e], v)

\* What a request asks is fixed once, and one that skips nothing has its support.
Ask(r, e, v, pinned) ==
  /\ asked[r] = None
  /\ pinned = "skip" \/ Supported(e, v)
  /\ asked' = [asked EXCEPT ![r] = [env |-> e, version |-> v, pinned |-> pinned]]
  /\ UNCHANGED placed

Place(d, e, v, r) ==
  /\ placed[d] = None
  /\ placed' = [placed EXCEPT ![d] = [env |-> e, version |-> v, request |-> r]]
  /\ UNCHANGED asked

\* A first deploy of an ungated target, or a return to what was there before.
Climb(d, e, v) == Place(d, e, v, None) /\ (Supported(e, v) \/ Reached(e, v))

\* A deploy by a request made for this rung, which nothing has executed.
ClimbAsAsked(d, e, v, r) ==
  /\ Place(d, e, v, r)
  /\ asked[r] # None
  /\ asked[r].env = e
  /\ asked[r].version = v
  /\ \A other \in Placed : placed[other].request # r
  /\ asked[r].pinned = "skip" \/ Supported(e, v)

Next ==
  \/ \E r \in Requests, e \in Environments, v \in Versions, pinned \in {"deployment", "skip"} :
       Ask(r, e, v, pinned)
  \/ \E d \in Deployments, e \in Environments, v \in Versions :
       \/ Climb(d, e, v)
       \/ \E r \in Requests : ClimbAsAsked(d, e, v, r)

Spec == Init /\ [][Next]_vars
=============================================================================
