---------------------------- MODULE MCPublication -----------------------------
(* Publication for TLC: the requests are interchangeable. *)
EXTENDS Publication, TLC

Symmetry == Permutations(Request)
==============================================================================
