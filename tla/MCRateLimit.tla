---------------------------- MODULE MCRateLimit ----------------------------
(* Model checking of RateLimit: requests are interchangeable.               *)
EXTENDS RateLimit, TLC

Symmetry == Permutations(Request)

(* The ten rules of the code satisfy what the checks and proofs assume of   *)
(* a rule, if no request takes more than thirty seconds to reach Redis.     *)
ASSUME \A name \in DOMAIN Rules : RuleFits(Rules[name].capacity, Rules[name].period, 30000)
============================================================================
