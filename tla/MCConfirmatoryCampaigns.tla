---------------------- MODULE MCConfirmatoryCampaigns ----------------------
(***************************************************************************)
(* Constant values for TLC.                                                *)
(***************************************************************************)
EXTENDS ConfirmatoryCampaigns, TLC

Kinds == {"primary", "wave-b", "phase-b", "f4", "h25"}
AttemptIds == AttemptId
OneTry == [k \in Kind |-> 1]
Limit == [k \in Kind |-> 4]
OverlapKinds == Kind \ {"h25"}
First == {1}
Second == {2}
CallerSymmetry == Permutations(Caller)
=============================================================================
