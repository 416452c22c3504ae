----------------------------- MODULE Screening -----------------------------
(***************************************************************************)
(* Parameter screening (campaigns/screening.py): a Sobol design with       *)
(* default controls, then one-at-a-time runs where the first part calls    *)
(* for them.  An infrastructure failure ends the stage; a candidate that   *)
(* fails is kept as an invalid point.                                      *)
(***************************************************************************)
EXTENDS RunLedger

Active == kind = "screening"

Ready == block = "NONE" /\ target = Default

Fatal == {"INFRA"}
Final == {"PASSED", "BLOCKED", "FAILED"}
Starts == [b \in {"INITIAL_PLANNED", "OAT_PLANNED"} |->
  IF b = "INITIAL_PLANNED" THEN "INITIAL_RUNNING" ELSE "OAT_RUNNING"]

InsertPlan(c) == InsertRuns(c, First, "INITIAL_PLANNED")

RunNext(c) ==
  /\ Begin(c, "reconcile")
  /\ UNCHANGED <<kind, campaign, block, trial, target, ledgerVars>>

Reconcile(c) ==
  ReconcileFirst(c, Fatal, Starts) \/ ReconcileLast(c, Fatal) \/ FailBlock(c, Final, "stop")

(* The phase is that of the status the command read.                       *)
SelectRun(c) ==
  LET initial == caller[c].block = "INITIAL_RUNNING"
      runs == IF initial THEN First ELSE Second
  IN ChooseRun(c, runs)
     \/ CompletePart(c, runs, IF initial THEN "INITIAL_COMPLETE" ELSE "OAT_COMPLETE", TRUE)

Analyze(c) ==
  \/ LoadRuns(c, {"INITIAL_COMPLETE", "OAT_COMPLETE"}, TRUE)
  \/ CommitVerdict(c, "INITIAL_COMPLETE", "OAT_PLANNED")

Command(c) ==
  /\ Active
  /\ \/ CreateCampaign(c, Ready) \/ InsertPlan(c)
     \/ RunNext(c) \/ Reconcile(c) \/ StartBlock(c, Starts) \/ SelectRun(c)
     \/ ExecuteRun(c) \/ Analyze(c)
=============================================================================
