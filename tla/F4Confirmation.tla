-------------------------- MODULE F4Confirmation --------------------------
(***************************************************************************)
(* The F4 confirmation (campaigns/f4.py): repetitions of the finalists and *)
(* the default.  All slots are proposed when the block is inserted.        *)
(***************************************************************************)
EXTENDS AttemptLedger

Active == kind = "f4"

(* There is no block yet and the target is safe.                           *)
Ready == block = "NONE" /\ target = Default

InsertPlan(c) == InsertLedger(c, [s \in Slot |-> "PROPOSED"])

(* run_f4_next                                                             *)
RunNext(c) ==
  /\ Begin(c, "reconcile")
  /\ UNCHANGED <<kind, campaign, block, trial, target, ledgerVars>>

SelectSlot(c) ==
  Choose(c, Executable, [s \in Slot |-> "trial"]) \/ Finish(c, Executable)

(* _execute_slot: trial, attempt and slot, then the worker.                *)
ExecuteSlot(c) ==
  /\ \/ /\ caller[c].at = "trial"
        /\ CreateTrial(c, <<caller[c].slot, caller[c].number>>, "attach")
        /\ UNCHANGED ledgerVars
     \/ Attach(c)
     \/ Worker(c, "settle") /\ UNCHANGED ledgerVars
     \/ ReconcileLast(c)

(* Exhausted retries stop the call only where its own first reconciliation *)
(* finds them.                                                             *)
Reconcile(c) == ReconcileFirst(c) \/ PauseBlock(c)

(* _load_authenticated_rows; failed slots are accepted.                    *)
Evidence == Authenticated

Analyze(c) == LoadRows(c, Evidence) \/ CommitAnalysis(c)

Command(c) ==
  /\ Active
  /\ \/ CreateCampaign(c, Ready) \/ InsertPlan(c)
     \/ RunNext(c) \/ Reconcile(c) \/ StartBlock(c) \/ SelectSlot(c)
     \/ ExecuteSlot(c) \/ Analyze(c)
=============================================================================
