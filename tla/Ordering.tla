------------------------------ MODULE Ordering ------------------------------
(***************************************************************************)
(* sorted() of Python for the sets this project orders. SetToSortSeq of    *)
(* the community modules does the same by an operator of the model         *)
(* checker that proofs cannot look into; here an element stands behind as  *)
(* many others as come before it.                                          *)
(***************************************************************************)
EXTENDS Integers, FiniteSets

\* The elements of a finite set in the order of R, a set of pairs <<earlier, later>>.
InOrder(S, R) == [i \in 1..Cardinality(S) |-> CHOOSE x \in S : Cardinality({y \in S : <<y, x>> \in R}) = i - 1]

\* Numbers by size.
Rising(S) == {p \in S \X S : p[1] < p[2]}
=============================================================================
