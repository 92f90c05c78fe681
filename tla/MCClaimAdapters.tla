-------------------------- MODULE MCClaimAdapters --------------------------
(* Model-checking instances of ClaimAdapters. *)
EXTENDS ClaimAdapters, TLC

\* Callers and keys are interchangeable.
Symmetry == Permutations(Claimants) \cup Permutations(Keys)
===========================================================================
