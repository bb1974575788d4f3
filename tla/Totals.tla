------------------------------- MODULE Totals -------------------------------
(* Sums of natural numbers over finite sets, as SQL's SUM computes them.     *)
(* Total(c, S) counts the units of all c[x], x \in S: a definition by        *)
(* counting, not by recursion, so that theorems about it can be proved.      *)
EXTENDS Integers, FiniteSets

Parts(c, S) == UNION {{x} \X (1 .. c[x]) : x \in S}

Total(c, S) == Cardinality(Parts(c, S))

=============================================================================
