------------------------------- MODULE Filters -------------------------------
(***************************************************************************)
(* Array.prototype.filter, and what iterating a Map or a Set and deleting  *)
(* from it leaves: the elements of a sequence that are in a set, in their  *)
(* order.  It is SelectSeq, counted instead of recursed, so that it can be *)
(* reasoned about: FilterProofs.  MCHelpers compares the two.              *)
(***************************************************************************)
EXTENDS Naturals, Sequences, FiniteSets

(* Where elements of T stand in s. *)
Places(s, T) == {i \in DOMAIN s : s[i] \in T}

(* How many of the places P there are up to i. *)
Rank(i, P) == Cardinality({j \in P : j <= i})

(* The n-th element kept is the one at the n-th place. *)
Kept(s, T) ==
  [n \in 1..Cardinality(Places(s, T)) |->
     s[CHOOSE i \in Places(s, T) : Rank(i, Places(s, T)) = n]]
=============================================================================
