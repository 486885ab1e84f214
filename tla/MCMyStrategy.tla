---------------------------- MODULE MCMyStrategy ----------------------------
(***************************************************************************)
(* Model values for the decision core.  Skaters are interchangeable (the   *)
(* code never compares ids other than for equality) and no liveness is     *)
(* checked here, so permuting them is sound.                               *)
(***************************************************************************)
EXTENDS MyStrategy, TLC

SkaterSymmetry == Permutations(Skaters)
=============================================================================
