------------------------- MODULE MCCheckoutAttempts -------------------------
(* Model-checking instance of CheckoutAttempts.                            *)
EXTENDS CheckoutAttempts, TLC

Symmetry == Permutations(Ids) \cup Permutations(Requests) \cup Permutations(Plans)
=============================================================================
