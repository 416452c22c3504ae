-------------------------- MODULE SaturationPhase2 --------------------------
(***************************************************************************)
(* The trade-off probe (campaigns/saturation_phase2.py): one run for each  *)
(* configuration.  It has no block row: the campaign must be running, and  *)
(* a failed run pauses it.                                                 *)
(***************************************************************************)
EXTENDS RunLedger

Active == kind = "phase2"

Ready == block = "NONE"

InsertPlan(c) == InsertRuns(c, Slot, "PLANNED")

RunNext(c) ==
  /\ campaign.status = "RUNNING"
  /\ Begin(c, "reconcile")
  /\ UNCHANGED <<kind, campaign, block, trial, target, ledgerVars>>

Reconcile(c) ==
  /\ caller[c].at \in {"reconcile", "settle"}
  /\ ReconcileRun
  /\ CASE Filed \in Failures -> Proceed(c, "pause")
       [] Filed \notin Failures /\ caller[c].at = "settle" -> Leave(c)
       [] OTHER -> Proceed(c, IF Pending THEN "run_once" ELSE "select")
  /\ UNCHANGED <<kind, campaign, block, trial, target, overlapped, verdict, ladder,
                 passedOver>>

(* The campaign is stopped as completed when nothing is left to plan.      *)
SelectRun(c) ==
  \/ ChooseRun(c, Slot)
  \/ /\ caller[c].at = "select"
     /\ Planned(Slot) = {}
     /\ Proceed(c, "stop")
     /\ UNCHANGED <<kind, campaign, block, trial, target, overlapped, ledgerVars>>

Command(c) ==
  /\ Active
  /\ \/ CreateCampaign(c, Ready) \/ InsertPlan(c)
     \/ RunNext(c) \/ Reconcile(c) \/ SelectRun(c) \/ ExecuteRun(c)
=============================================================================
