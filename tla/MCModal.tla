------------------------------ MODULE MCModal ------------------------------
(* Model checking of Modal: requests and targets are interchangeable.       *)
EXTENDS Modal, TLC

Symmetry == Permutations(Request) \cup Permutations(Target) \cup Permutations(Page)
============================================================================
