------------------------- MODULE ReviewedVersions --------------------------
(***************************************************************************)
(* What the approval machine promises of a Rating Version, without         *)
(* requests, routes, policies or transactions: it is approved by as many   *)
(* distinct principals as its submission asked for, none of whom has an    *)
(* interest in it; a version that is returned starts again from none; and  *)
(* an approved version never changes (docs/specs/06-governance.md, R1,     *)
(* FR-351, FR-353, FR-355).                                                *)
(***************************************************************************)
EXTENDS Naturals, FiniteSets

CONSTANTS Principals, Versions

VARIABLES version,     \* draft, review or approved
          needed,      \* approvals the submission asked for
          interested,  \* who may not approve: the submitter and the authors
          endorsed     \* who approved
vars == <<version, needed, interested, endorsed>>

Init ==
  /\ version = [v \in Versions |-> "draft"]
  /\ needed = [v \in Versions |-> 0]
  /\ interested = [v \in Versions |-> {}]
  /\ endorsed = [v \in Versions |-> {}]

Submit(v) ==
  /\ version[v] = "draft"
  /\ version' = [version EXCEPT ![v] = "review"]
  /\ needed'[v] \in Nat \ {0} /\ needed' = [needed EXCEPT ![v] = needed'[v]]
  /\ interested'[v] \in (SUBSET Principals) \ {{}}
  /\ interested' = [interested EXCEPT ![v] = interested'[v]]
  /\ endorsed' = [endorsed EXCEPT ![v] = {}]

\* One more principal approves; the version is approved when they are enough.
Endorse(v, p) ==
  /\ version[v] = "review"
  /\ p \notin interested[v] \cup endorsed[v]
  /\ endorsed' = [endorsed EXCEPT ![v] = @ \cup {p}]
  /\ version' = [version EXCEPT ![v] =
                   IF Cardinality(endorsed[v] \cup {p}) >= needed[v] THEN "approved" ELSE @]
  /\ UNCHANGED <<needed, interested>>

\* Nothing of the review is kept.
Return(v) ==
  /\ version[v] = "review"
  /\ version' = [version EXCEPT ![v] = "draft"]
  /\ needed' = [needed EXCEPT ![v] = 0]
  /\ interested' = [interested EXCEPT ![v] = {}]
  /\ endorsed' = [endorsed EXCEPT ![v] = {}]

Next == \E v \in Versions : Submit(v) \/ Return(v) \/ \E p \in Principals : Endorse(v, p)

Spec == Init /\ [][Next]_vars
=============================================================================
