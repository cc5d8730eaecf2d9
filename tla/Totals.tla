------------------------------- MODULE Totals -------------------------------
(***************************************************************************)
(* Sums of natural numbers by counting: x contributes one unit for each of *)
(* 1, ..., f[x], and nothing where f[x] is not positive.  A sum is then    *)
(* the size of a finite set, which can be reasoned about.                  *)
(***************************************************************************)
EXTENDS Integers, FiniteSets

Units(f) == UNION {{x} \X (1 .. f[x]) : x \in DOMAIN f}
Total(f) == Cardinality(Units(f))
=============================================================================
