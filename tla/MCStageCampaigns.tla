-------------------------- MODULE MCStageCampaigns --------------------------
(***************************************************************************)
(* Constant values for TLC.                                                *)
(***************************************************************************)
EXTENDS StageCampaigns, TLC

Kinds == {"screening", "recovery", "reference", "warmup", "phase2", "saturation", "soak"}
RunTrials == {<<s, 1>> : s \in Slot}
Lenient == {"screening", "recovery", "saturation"}
Tries == [k \in Kind |-> IF k \in {"screening", "recovery"} THEN 1 ELSE 2]
Limit == [k \in Kind |-> IF k \in Lenient THEN 4 ELSE 1]
OverlapKinds == Kind \ {"recovery", "phase2"}
Initial == {1, 2}
CallerSymmetry == Permutations(Caller)
=============================================================================
