---------------------------- MODULE MCConsumer ----------------------------
(* Model-checking instances of Consumer. *)
EXTENDS Consumer, TLC

\* Messages are interchangeable, and so are the sessions of a group.
Symmetry == Permutations(Msgs) \cup Permutations(Sessions)
===========================================================================
