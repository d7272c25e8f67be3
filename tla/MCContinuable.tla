----------------------------- MODULE MCContinuable -----------------------------
(* Interchangeable places and continuations. *)
EXTENDS Continuable, TLC

Symmetry == Permutations(Handle) \cup Permutations(Root)
===============================================================================
