------------------------- MODULE ScreeningRecovery -------------------------
(***************************************************************************)
(* The recovery of a screening that failed for an infrastructure reason    *)
(* (campaigns/screening_recovery.py): the restore is shown to be stable,   *)
(* if need be after the target database was rebuilt, and a new campaign    *)
(* repeats the two runs that were lost and goes on with the                *)
(* one-at-a-time runs.                                                     *)
(***************************************************************************)
EXTENDS RestoreValidation

Active == kind = "recovery"

(* The stability check is made once under each of two manifests: under the *)
(* first (RECOVERY_STAGE) as things are, under the second                  *)
(* (REMEDIATION_STAGE) after the rebuilding.                               *)
CreateStability ==
  /\ Idling
  /\ \/ validation = "NONE" /\ PlanSeries(FALSE)
     \/ remediation = "PASSED" /\ ~supersedes /\ PlanSeries(TRUE)

(* The campaign waits for the stability check of its manifest.  A check    *)
(* that is followed by another has failed, so only the latest can have     *)
(* passed.                                                                 *)
Ready == validation = "PASSED" /\ block = "NONE" /\ target = Default

Fatal == {"INFRA"}
Final == {"PASSED", "BLOCKED", "FAILED"}
Starts == [b \in {"RECOVERY_PLANNED", "OAT_PLANNED"} |->
  IF b = "RECOVERY_PLANNED" THEN "RECOVERY_RUNNING" ELSE "OAT_RUNNING"]

InsertPlan(c) == InsertRuns(c, First, "RECOVERY_PLANNED")

RunNext(c) ==
  /\ Begin(c, "reconcile")
  /\ UNCHANGED <<kind, campaign, block, trial, target, ledgerVars>>

Reconcile(c) ==
  ReconcileFirst(c, Fatal, Starts) \/ ReconcileLast(c, Fatal) \/ FailBlock(c, Final, "stop")

SelectRun(c) ==
  LET initial == caller[c].block = "RECOVERY_RUNNING"
      runs == IF initial THEN First ELSE Second
  IN ChooseRun(c, runs)
     \/ CompletePart(c, runs, IF initial THEN "INITIAL_COMPLETE" ELSE "OAT_COMPLETE", TRUE)

(* The points of the failed screening are part of what is analysed; they   *)
(* no longer change.                                                       *)
Analyze(c) ==
  \/ LoadRuns(c, {"INITIAL_COMPLETE", "OAT_COMPLETE"}, TRUE)
  \/ CommitVerdict(c, "INITIAL_COMPLETE", "OAT_PLANNED")

Campaign(c) ==
  /\ Active
  /\ \/ CreateCampaign(c, Ready) \/ InsertPlan(c)
     \/ RunNext(c) \/ Reconcile(c) \/ StartBlock(c, Starts) \/ SelectRun(c)
     \/ ExecuteRun(c) \/ Analyze(c)
  /\ UNCHANGED restoreVars

Restoration(c) ==
  /\ Active
  /\ \/ PlanRemediation \/ ClaimRemediation(c) \/ Rebuild(c)
     \/ CreateStability \/ Repetition(c)
=============================================================================
