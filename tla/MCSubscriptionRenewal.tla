--------------------- MODULE MCSubscriptionRenewal ---------------------
(* Small instances of SubscriptionRenewal.                                *)
EXTENDS SubscriptionRenewal, TLC

\* workers are interchangeable (safety runs only)
Symmetry == Permutations(Workers)
=============================================================================
