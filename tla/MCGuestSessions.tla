-------------------------- MODULE MCGuestSessions --------------------------
(* Model checking of GuestSessions: requests are interchangeable.           *)
EXTENDS GuestSessions, TLC

Symmetry == Permutations(Request)
============================================================================
