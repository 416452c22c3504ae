-------------------------- MODULE PrimaryCampaign --------------------------
(***************************************************************************)
(* The primary comparison (campaigns/primary.py), wave A, and the runner   *)
(* wave B shares with it.  The slots of the adaptive methods are inserted  *)
(* PLANNED and are given a configuration, from the observations of their   *)
(* own seed and method, when their turn comes.                             *)
(***************************************************************************)
EXTENDS AttemptLedger

CONSTANTS
  Adaptive,       \* the slots materialised at run time
  MinTraining     \* valid observations an adaptive slot needs

Active == kind = "primary"

Ready == block = "NONE" /\ target = Default

InsertPlan(c) ==
  InsertLedger(c, [s \in Slot |-> IF s \in Adaptive THEN "PLANNED" ELSE "PROPOSED"])

RunNext(c) ==
  /\ Begin(c, "reconcile")
  /\ UNCHANGED <<kind, campaign, block, trial, target, ledgerVars>>

PrimaryRunnable == Executable \cup {"PLANNED"}

SelectSlot(c) ==
  \/ Choose(c, PrimaryRunnable, [s \in Slot |->
       IF slot[s].status = "PLANNED" THEN "train" ELSE "trial"])
  \/ Finish(c, PrimaryRunnable)

(* Mutant: failed slots train, too.                                        *)
TrainingOnFailures(s) == {d \in Slot : d < s /\ slot[d].status \in Terminal}

(* _training_observations: completed slots before this one.  One seed and  *)
(* one method are modelled, so every earlier slot is in the training set.  *)
Training(s) == {d \in Slot : d < s /\ slot[d].status = "COMPLETED"}

Train(c) ==
  LET training == Training(caller[c].slot) IN
  Gather(c, "train", training, Cardinality(training) >= MinTraining, "materialize")

(* _materialize_adaptive_candidate: configuration, status and lineage in   *)
(* one transaction, which is rolled back when another call was first.  The *)
(* slot keeps its configuration on retries.                                *)
Materialize(c) ==
  LET s == caller[c].slot IN
  /\ caller[c].at = "materialize"
  /\ IF slot[s].status = "PLANNED"
       THEN /\ slot' = [slot EXCEPT ![s].status = "PROPOSED", ![s].given = caller[c].given]
            /\ caller' = [caller EXCEPT ![c].at = "trial", ![c].given = {}]
       ELSE UNCHANGED slot /\ Leave(c)
  /\ UNCHANGED <<kind, campaign, block, trial, target, overlapped, attempt>>

(* _execute_or_resume_attempt; the last reconciliation pauses, too.        *)
ReconcileAndPause(c) ==
  /\ caller[c].at = "settle"
  /\ ReconcileAttempt
  /\ caller' = [caller EXCEPT ![c] = IF Exhausts THEN [Idle EXCEPT !.at = "exhausted"] ELSE Idle]
  /\ UNCHANGED <<kind, campaign, block, trial, target, overlapped>>

ExecuteSlot(c) ==
  /\ \/ /\ caller[c].at = "trial"
        /\ CreateTrial(c, <<caller[c].slot, caller[c].number>>, "attach")
        /\ UNCHANGED ledgerVars
     \/ Attach(c)
     \/ Worker(c, "settle") /\ UNCHANGED ledgerVars
     \/ ReconcileAndPause(c)

Reconcile(c) == ReconcileFirst(c) \/ PauseBlock(c)

Analyze(c) == LoadRows(c, TRUE) \/ CommitAnalysis(c)

(* _run_primary_next_with_contract                                         *)
Runner(c) ==
  \/ RunNext(c) \/ Reconcile(c) \/ StartBlock(c) \/ SelectSlot(c)
  \/ Train(c) \/ Materialize(c) \/ ExecuteSlot(c)

Command(c) ==
  /\ Active
  /\ CreateCampaign(c, Ready) \/ InsertPlan(c) \/ Runner(c) \/ Analyze(c)
=============================================================================
