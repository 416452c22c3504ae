------------------------- MODULE MCCandidateRestore -------------------------
(***************************************************************************)
(* Constant values for TLC.                                                *)
(***************************************************************************)
EXTENDS CandidateRestore, TLC

BothMechanisms == {"logical", "physical"}

(* The worker and the operator's command call the same function.           *)
SymmetricCallers == Permutations(Caller)
=============================================================================
