---------------------------- MODULE WarmupPilot ----------------------------
(***************************************************************************)
(* The warm-up and duration pilot (campaigns/warmup_duration.py): four     *)
(* runs to choose the warm-up from, a decision that is frozen, and the     *)
(* runs that compare durations.  Any failed run ends the stage.            *)
(***************************************************************************)
EXTENDS RunLedger

Active == kind = "warmup"

(* A pilot that FAILED may be followed by another: that one has a campaign *)
(* and rows of its own, so a behaviour follows one pilot.                  *)
Ready == block = "NONE" /\ target = Default

Starts == [b \in {"WARMUP_PLANNED", "WARMUP_FROZEN"} |->
  IF b = "WARMUP_PLANNED" THEN "WARMUP_RUNNING" ELSE "DURATION_RUNNING"]

InsertPlan(c) == InsertRuns(c, First, "WARMUP_PLANNED")

RunNext(c) ==
  /\ Begin(c, "reconcile")
  /\ UNCHANGED <<kind, campaign, block, trial, target, ledgerVars>>

(* The campaign is only paused.                                            *)
Reconcile(c) ==
  \/ ReconcileFirst(c, Failures, Starts)
  \/ ReconcileLast(c, Failures)
  \/ FailBlock(c, {"COMPLETED", "FAILED"}, "pause")

(* The status is set without a look at what it is by now.                  *)
SelectRun(c) ==
  LET warmup == caller[c].block = "WARMUP_RUNNING"
      runs == IF warmup THEN First ELSE Second
  IN ChooseRun(c, runs)
     \/ CompletePart(c, runs, IF warmup THEN "WARMUP_COMPLETE" ELSE "COMPLETED", FALSE)

AllMeasured(p) == \A s \in Part(p) : slot[s] = "COMPLETED"

(* analyze_warmup keeps its result only while the decision is open.        *)
AnalyzeWarmup ==
  /\ block = "WARMUP_COMPLETE"
  /\ AllMeasured(1)
  /\ verdict' = [verdict EXCEPT ![1] = "MORE"]
  /\ UNCHANGED <<coreVars, slot, ladder, passedOver>>

(* freeze_warmup reads the status and the analysis...                      *)
Freeze(c) ==
  /\ campaign.status = "PAUSED"
  /\ block = "WARMUP_COMPLETE"
  /\ verdict[1] = "MORE"
  /\ Enter(c, [Idle EXCEPT !.at = "freeze"])
  /\ UNCHANGED <<kind, campaign, block, trial, target, ledgerVars>>

(* ...and inserts the runs, once, if the status is still the same.         *)
CommitFreeze(c) ==
  /\ caller[c].at = "freeze"
  /\ IF block = "WARMUP_COMPLETE" /\ \A s \in Second : slot[s] = "ABSENT"
       THEN /\ slot' = [s \in Slot |-> IF s \in Second THEN "PLANNED" ELSE slot[s]]
            /\ block' = "WARMUP_FROZEN"
       ELSE UNCHANGED <<slot, block>>
  /\ Leave(c)
  /\ UNCHANGED <<kind, campaign, trial, target, overlapped, verdict, ladder, passedOver>>

AnalyzeDuration ==
  /\ block = "COMPLETED"
  /\ AllMeasured(2)
  /\ verdict' \in {[verdict EXCEPT ![2] = v] : v \in Outcomes(2)}
  /\ UNCHANGED <<coreVars, slot, ladder, passedOver>>

Command(c) ==
  /\ Active
  /\ \/ CreateCampaign(c, Ready) \/ InsertPlan(c)
     \/ RunNext(c) \/ Reconcile(c) \/ StartBlock(c, Starts) \/ SelectRun(c)
     \/ ExecuteRun(c)
     \/ AnalyzeWarmup \/ Freeze(c) \/ CommitFreeze(c) \/ AnalyzeDuration
=============================================================================
