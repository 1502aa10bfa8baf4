--------------------------- MODULE MCEngagement ---------------------------
(* Model checking of Engagement: requests are interchangeable.              *)
EXTENDS Engagement, TLC

Symmetry == Permutations(Request)
============================================================================
