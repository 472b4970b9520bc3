------------------------- MODULE MCSchedulerClaims -------------------------
(* Model values and symmetry for SchedulerClaims.                          *)
EXTENDS SchedulerClaims, TLC

MCSymmetry == Permutations(Workers) \cup Permutations(Runs)
============================================================================
