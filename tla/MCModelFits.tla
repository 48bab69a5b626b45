---------------------------- MODULE MCModelFits ----------------------------
(***************************************************************************)
(* ModelFits on small instances: a Dataset Version, the part it was split  *)
(* into, and Models fitted on that part.                                   *)
(***************************************************************************)
EXTENDS ModelFits, TLC

CONSTANTS whole, part, r1, r2, w1, a1, c1, f1, f2, f3

SplitOfWhole == [v \in Versions |-> IF v = part THEN whole ELSE None]
WholeThenPart == [r \in Runs |-> IF r = r1 THEN whole ELSE part]
ToWhole == [c \in Corrections |-> whole]
OnWhole == [m \in Models |-> whole]
OnPart == [m \in Models |-> part]
TwoForFirst == [f \in Fits |-> IF f = f3 THEN 2 ELSE 1]

\* Two Jobs of one Model are only compared.
Alike == Permutations(Fits \ {f3})
=============================================================================
