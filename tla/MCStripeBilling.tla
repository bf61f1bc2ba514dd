-------------------------- MODULE MCStripeBilling ---------------------------
(* Model-checking instance of StripeBilling.                               *)
EXTENDS StripeBilling, TLC

OneSubscription  == 1 .. 1
TwoSubscriptions == 1 .. 2
ClockTimes       == 0 .. 12
Symmetry         == Permutations(Events) \cup Permutations(Workers)
=============================================================================
