------------------------------- MODULE Filters -------------------------------
(***************************************************************************)
(* What Array.filter leaves of a sequence.  It is said without recursion,  *)
(* so that what it keeps can be proved.                                    *)
(***************************************************************************)
EXTENDS Naturals, Sequences, FiniteSets

(* The elements of s at the indices I, in their order: the k-th is the one with
   k of these indices up to its own. *)
Kept(s, I) ==
    [k \in 1..Cardinality(I) |-> s[CHOOSE i \in I : Cardinality({j \in I : j <= i}) = k]]
==============================================================================
