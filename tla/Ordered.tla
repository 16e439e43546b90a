------------------------------ MODULE Ordered ------------------------------
(***************************************************************************)
(* Sets of numbers in ascending order, and the elements of a sequence at a *)
(* set of positions: what the code sorts or filters.  They say what        *)
(* SetToSortSeq and SelectSeq say, without a recursion or a permutation    *)
(* to be chosen, so that theorems can be proved about them.                *)
(***************************************************************************)
EXTENDS Naturals, Sequences, FiniteSets

(* The i-th element is the one with i - 1 elements before it.              *)
Ascending(S) ==
  [i \in 1..Cardinality(S) |->
     CHOOSE k \in S : Cardinality({l \in S : l < k}) = i - 1]

(* The elements of s at these positions, in their order.                   *)
At(s, positions) ==
  LET at == Ascending(positions) IN [i \in DOMAIN at |-> s[at[i]]]

=============================================================================
