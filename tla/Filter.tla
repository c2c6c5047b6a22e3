------------------------------- MODULE Filter -------------------------------
(***************************************************************************)
(* Loops the code writes over slices: the one that copies some elements to *)
(* another, "for x in s, if x is one of them, append it", and the sum.     *)
(***************************************************************************)
EXTENDS Naturals, Sequences, SequencesExt

\* The elements of s that are in K, in their order.
Only(s, K) == FoldLeft(LAMBDA kept, x : IF x \in K THEN Append(kept, x) ELSE kept, <<>>, s)

Total(s) == FoldLeft(LAMBDA sum, n : sum + n, 0, s)
=============================================================================
