---------------------------- MODULE MCPromotions ----------------------------
(***************************************************************************)
(* Promotions on a small instance: uat, and prod after it.                 *)
(***************************************************************************)
EXTENDS Promotions, TLC

CONSTANTS uat, prod, v1, r1, r2, d1, d2, d3

UatThenProd == [e \in Environments |-> IF e = prod THEN uat ELSE None]

ProdHas(entries) == {[e \in Environments |-> IF e = prod THEN p ELSE "none"] : p \in entries}

\* prod ungated, or gated by an entry that lets uat be skipped.
ProdSkippable == ProdHas({"none", "skippable"})

\* Ids are only ever compared, and what is checked with them is [][A]_v or an invariant.
Alike == Permutations(Requests) \cup Permutations(Deployments)
=============================================================================
