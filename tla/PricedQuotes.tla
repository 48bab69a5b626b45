---------------------------- MODULE PricedQuotes ----------------------------
(***************************************************************************)
(* What an Environment's quotes are priced with (03-rating FR-239, FR-250, *)
(* NFR-497; backend/src/app/api/score.py), without slots, blobs or         *)
(* reviews: a Deployment records one bundle its version was compiled to,   *)
(* an answer that names a Deployment was priced by its bundle, and one     *)
(* given through an outage by a bundle its version once had.               *)
(***************************************************************************)
EXTENDS Sequences, Naturals

CONSTANTS Versions, Bundles, Quotes, Released, Served, None

VARIABLES compiled, deployed, answer

vars == <<compiled, deployed, answer>>

Init ==
  /\ compiled = [v \in Versions |-> {Released[v]} \ {None}]
  /\ deployed = [d \in 1..Len(Served) |->
                   [version |-> Served[d], bundle |-> Released[Served[d]]]]
  /\ answer = [q \in Quotes |-> None]

\* Not once the version is deployed: its bundle is then what it is.
Compile(v, h) ==
  /\ \A d \in 1..Len(deployed) : deployed[d].version # v
  /\ compiled' = [compiled EXCEPT ![v] = @ \cup {h}]
  /\ UNCHANGED <<deployed, answer>>

\* Every Deployment of a version records the same bundle.
Deploy(v, h) ==
  /\ h \in compiled[v]
  /\ \A d \in 1..Len(deployed) :
       deployed[d].version = v => deployed[d].bundle = h
  /\ deployed' = Append(deployed, [version |-> v, bundle |-> h])
  /\ UNCHANGED <<compiled, answer>>

Price(q, v, d, h, degraded) ==
  /\ answer[q] = None
  /\ h \in compiled[v]
  /\ d # 0 => deployed[d].version = v
  /\ d # 0 /\ ~degraded => h = deployed[d].bundle
  /\ answer' = [answer EXCEPT ![q] = [version |-> v, deployment |-> d,
                                      bundle |-> h, degraded |-> degraded]]
  /\ UNCHANGED <<compiled, deployed>>

Next ==
  \/ \E v \in Versions, h \in Bundles : Compile(v, h) \/ Deploy(v, h)
  \/ \E q \in Quotes, v \in Versions, d \in 0..Len(deployed), h \in Bundles,
        degraded \in BOOLEAN : Price(q, v, d, h, degraded)

Spec == Init /\ [][Next]_vars
=============================================================================
