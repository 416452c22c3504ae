-------------------------- MODULE DefaultReference --------------------------
(***************************************************************************)
(* The default reference (campaigns/default_reference.py): five runs of    *)
(* the default configuration, and five more if the first are not precise   *)
(* enough.  Any failed run ends the stage.                                 *)
(***************************************************************************)
EXTENDS RunLedger

Active == kind = "reference"

Ready == block = "NONE" /\ target = Default

Final == {"PASSED", "BLOCKED", "FAILED"}
Starts == [b \in {"INITIAL_PLANNED", "CONTINGENCY_PLANNED"} |->
  IF b = "INITIAL_PLANNED" THEN "INITIAL_RUNNING" ELSE "CONTINGENCY_RUNNING"]

InsertPlan(c) == InsertRuns(c, First, "INITIAL_PLANNED")

RunNext(c) ==
  /\ Begin(c, "reconcile")
  /\ UNCHANGED <<kind, campaign, block, trial, target, ledgerVars>>

Reconcile(c) ==
  \/ ReconcileFirst(c, Failures, Starts)
  \/ ReconcileLast(c, Failures)
  \/ FailBlock(c, Final, "stop")

SelectRun(c) ==
  LET initial == caller[c].block = "INITIAL_RUNNING"
      runs == IF initial THEN First ELSE Second
  IN ChooseRun(c, runs)
     \/ CompletePart(c, runs,
          IF initial THEN "INITIAL_COMPLETE" ELSE "CONTINGENCY_COMPLETE", TRUE)

(* Every run there is has completed.                                       *)
AllMeasured == \A s \in Slot : slot[s] \in {"ABSENT", "COMPLETED"}

Analyze(c) ==
  \/ LoadRuns(c, {"INITIAL_COMPLETE", "CONTINGENCY_COMPLETE"}, AllMeasured)
  \/ CommitVerdict(c, "INITIAL_COMPLETE", "CONTINGENCY_PLANNED")

Command(c) ==
  /\ Active
  /\ \/ CreateCampaign(c, Ready) \/ InsertPlan(c)
     \/ RunNext(c) \/ Reconcile(c) \/ StartBlock(c, Starts) \/ SelectRun(c)
     \/ ExecuteRun(c) \/ Analyze(c)
=============================================================================
