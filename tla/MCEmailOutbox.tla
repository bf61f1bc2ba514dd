---------------------------- MODULE MCEmailOutbox ----------------------------
(* Model-checking instance of EmailOutbox.                                 *)
EXTENDS EmailOutbox, TLC

Symmetry == Permutations(Workers) \cup Permutations(Jobs)
=============================================================================
