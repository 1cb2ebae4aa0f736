------------------------------ MODULE MCBreaker ------------------------------
(* Finite instances of Breaker for TLC. *)
EXTENDS Breaker, TLC

Symmetry == Permutations(Calls)
=============================================================================
