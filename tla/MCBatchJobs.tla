----------------------------- MODULE MCBatchJobs ------------------------------
(* BatchJobs for TLC: a run of the scheduler, with an owner of its own, and *)
(* the runs of the administration page, which share theirs.                 *)
EXTENDS BatchJobs, TLC

CONSTANTS r1, manual

PageOwner == [r \in Run |-> IF r = r1 THEN r ELSE manual]

Symmetry == Permutations(Run \ {r1})
==============================================================================
