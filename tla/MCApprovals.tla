---------------------------- MODULE MCApprovals ----------------------------
(***************************************************************************)
(* Approvals on a small instance.                                          *)
(***************************************************************************)
EXTENDS Approvals, TLC

CONSTANTS ann, bob, cal, dan, v1, r1, r2, r3

WrittenByAnn == [v \in Versions |-> ann]

\* A delta nobody wrote, or Bob did.
NobodyOrBob == {{}, {bob}}

\* Two approvers, as DEFAULT_POLICY asks for a Rating Version; roles not everyone holds.
TwoOfThree == {[required |-> 2, approvers |-> {bob, cal, dan}]}

\* A request id is only ever compared, and the properties are invariants or [][A]_v.
AlikeRequests == Permutations(Requests)
=============================================================================
