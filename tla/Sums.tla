-------------------------------- MODULE Sums --------------------------------
(***************************************************************************)
(* The sum of the values of a function into the natural numbers, as a      *)
(* count: the facts the proofs need of a sum are then facts about finite   *)
(* sets.                                                                   *)
(***************************************************************************)
EXTENDS Naturals, FiniteSets

\* f[x] units at each x.
Units(f) == UNION {{x} \X (1..f[x]) : x \in DOMAIN f}
SumOf(f) == Cardinality(Units(f))
=============================================================================
