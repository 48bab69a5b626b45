--------------------------- MODULE ModelStanding ---------------------------
(***************************************************************************)
(* What the Models of one family promise (02-modelling FR-202, FR-205, R1, *)
(* R2; backend/src/app/platform/modelling.py), without Jobs, reports or    *)
(* transactions: a Model is numbered and entered on data that has          *)
(* standing, given numbers once, and approved only while its data still    *)
(* has standing.                                                           *)
(***************************************************************************)
EXTENDS Naturals

CONSTANTS
  Models,   \* version numbers of the family
  Data,     \* Dataset Versions
  DataOf,   \* the one each Model names
  Results,  \* what a fit can produce
  None

VARIABLES standing, stage, numbers

vars == <<standing, stage, numbers>>

Init ==
  /\ standing = {}
  /\ stage = [m \in Models |-> "absent"]
  /\ numbers = [m \in Models |-> None]

\* Data gains its standing and loses it, whatever rests on it.
Regrade(v) ==
  /\ standing' = IF v \in standing THEN standing \ {v} ELSE standing \cup {v}
  /\ UNCHANGED <<stage, numbers>>

To(m, to) ==
  /\ stage' = [stage EXCEPT ![m] = to]
  /\ UNCHANGED <<standing, numbers>>

\* Versions are numbered from one, without gaps.
Enter(m) ==
  /\ stage[m] = "absent"
  /\ \A k \in Models : k < m => stage[k] # "absent"
  /\ DataOf[m] \in standing
  /\ To(m, "draft")

\* R2: numbers are written once.
Fit(m, result) ==
  /\ stage[m] \in {"draft", "archived"}
  /\ numbers[m] = None
  /\ numbers' = [numbers EXCEPT ![m] = result]
  /\ stage' = [stage EXCEPT ![m] = "fitted"]
  /\ UNCHANGED standing

\* Nothing is reviewed without its numbers.
Submit(m) == stage[m] = "fitted" /\ numbers[m] # None /\ To(m, "review")

Return(m) == stage[m] = "review" /\ To(m, "fitted")

\* FR-205, and the earlier versions in force give way in the same step.
Approve(m) ==
  /\ stage[m] = "review"
  /\ DataOf[m] \in standing
  /\ stage' = [k \in Models |->
       IF k = m THEN "approved"
       ELSE IF k < m /\ stage[k] = "approved" THEN "superseded"
       ELSE stage[k]]
  /\ UNCHANGED <<standing, numbers>>

\* A version under review or in force is not archived.
Archive(m) == stage[m] \in {"draft", "fitted", "superseded"} /\ To(m, "archived")

Next ==
  \/ \E v \in Data : Regrade(v)
  \/ \E m \in Models :
       \/ Enter(m) \/ Submit(m) \/ Return(m) \/ Approve(m) \/ Archive(m)
       \/ \E result \in Results : Fit(m, result)

Spec == Init /\ [][Next]_vars
=============================================================================
