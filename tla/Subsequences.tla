---------------------------- MODULE Subsequences ----------------------------
(***************************************************************************)
(* The subsequence that a loop over a queue keeps: the entries at the      *)
(* places it does not drop, in their order.  SelectSeq computes the same   *)
(* by recursion; this form can be reasoned about.                          *)
(***************************************************************************)
EXTENDS Naturals, Sequences, FiniteSets

(* How many of the places in T are i or before it.                         *)
Rank(T, i) == Cardinality({j \in T : j <= i})

(* The entries of s at the places in T: the n-th of them at n.             *)
Picked(s, T) == [n \in 1 .. Cardinality(T) |-> s[CHOOSE i \in T : Rank(T, i) = n]]
=============================================================================
