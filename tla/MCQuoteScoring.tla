--------------------------- MODULE MCQuoteScoring ---------------------------
(***************************************************************************)
(* QuoteScoring on a small instance.                                       *)
(***************************************************************************)
EXTENDS QuoteScoring, TLC

CONSTANTS v1, v2, h1, h2, c1, c2, q1, q2, b1

\* The second version is approved, with one of the bundles the first may have.
SecondReleased == [v \in Versions |-> IF v = v2 THEN h2 ELSE None]
Second == <<v2>>

\* Jobs are only compared.
Alike == Permutations(Compiles)

\* No step reads a trace that has been produced: the behaviours beyond it are,
\* but for the trace, those of a quote whose trace is still pending.
Unproduced == \E q \in Quotes : trace[q] # None => trace[q].state = "pending"
=============================================================================
