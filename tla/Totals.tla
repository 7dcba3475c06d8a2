------------------------------- MODULE Totals --------------------------------
(***************************************************************************)
(* Sums of amounts over a finite set, for the properties of Budget and      *)
(* Gateway.  The amounts are natural numbers: their sum is the number of    *)
(* units there are, which theorems about cardinalities speak of.            *)
(***************************************************************************)
EXTENDS Integers, FiniteSets

\* The units of the amounts amount[x], x in S, each marked with its x.
Units(amount, S) == UNION {{x} \X (1..amount[x]) : x \in S}

Total(amount, S) == Cardinality(Units(amount, S))
=============================================================================
