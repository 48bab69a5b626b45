------------------------- MODULE ServedDeployments -------------------------
(***************************************************************************)
(* What the deployment switch promises, without messages, rosters,         *)
(* acknowledgements or reads in flight: Deployments are recorded, running  *)
(* processes move their `live` references only to recorded Deployments     *)
(* they hold the bundle of, and a repair from the record never moves one   *)
(* backwards.                                                              *)
(* (The promises of backend/src/app/platform/deployment_switch.py:9-23 and *)
(* of LiveRefs.reconcile.)                                                 *)
(***************************************************************************)
EXTENDS Naturals

CONSTANTS Processes, Deploys, Keys, KeyOf, None

VARIABLES rows, stamp, clock, live,
          held  \* the Deployments whose bundle a process hydrated and has not swapped to
vars == <<rows, stamp, clock, live, held>>

Init ==
  /\ rows = {}
  /\ stamp = [d \in Deploys |-> 0]
  /\ clock = 0
  /\ live = [p \in Processes |-> [k \in Keys |-> None]]
  /\ held = [p \in Processes |-> {}]

\* A deploy begins: the place it will have in the order of Deployments.
Begin(d) ==
  /\ d \notin rows
  /\ clock' = clock + 1
  /\ stamp' = [stamp EXCEPT ![d] = clock + 1]
  /\ UNCHANGED <<rows, live, held>>

Record(d) ==
  /\ d \notin rows
  /\ rows' = rows \cup {d}
  /\ UNCHANGED <<stamp, clock, live, held>>

\* A process hydrates a bundle; what it holds is bounded, and it may drop older ones.
Hydrate(p, d) ==
  /\ \E S \in SUBSET (held[p] \cup {d}) : held' = [held EXCEPT ![p] = S]
  /\ UNCHANGED <<rows, stamp, clock, live>>

\* A process switches one key to a recorded Deployment of that key that it holds.
Swap(p, d) ==
  /\ d \in rows \cap held[p]
  /\ \E S \in SUBSET held[p] : held' = [held EXCEPT ![p] = S]
  /\ live' = [live EXCEPT ![p][KeyOf[d]] = d]
  /\ UNCHANGED <<rows, stamp, clock>>

\* A process repairs its references from the record: each key keeps its entry or moves
\* forward.
Repairs(old, new) ==
  \A k \in Keys :
    \/ new[k] = old[k]
    \/ /\ new[k] \in rows /\ KeyOf[new[k]] = k
       /\ old[k] # None => stamp[old[k]] <= stamp[new[k]]

Reload(p) ==
  \E new \in [Keys -> Deploys \cup {None}] :
    /\ Repairs(live[p], new)
    /\ live' = [live EXCEPT ![p] = new]
    /\ UNCHANGED <<rows, stamp, clock, held>>

\* A process is gone, and what it held with it.
Forget(p) ==
  /\ live' = [live EXCEPT ![p] = [k \in Keys |-> None]]
  /\ held' = [held EXCEPT ![p] = {}]
  /\ UNCHANGED <<rows, stamp, clock>>

Next ==
  \/ \E d \in Deploys : Begin(d) \/ Record(d)
  \/ \E p \in Processes, d \in Deploys : Hydrate(p, d) \/ Swap(p, d)
  \/ \E p \in Processes : Reload(p) \/ Forget(p)

Spec == Init /\ [][Next]_vars
=============================================================================
