---------------------------- MODULE MCAuthTokens -----------------------------
(* AuthTokens for TLC: one user, who is also the admin of the seed. *)
EXTENDS AuthTokens, TLC

Symmetry == Permutations(Proc)
==============================================================================
