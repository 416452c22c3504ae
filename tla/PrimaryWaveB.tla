---------------------------- MODULE PrimaryWaveB ----------------------------
(***************************************************************************)
(* Wave B of the primary comparison (campaigns/primary_wave_b.py): wave    *)
(* A's runner, and the reconciliation of a slot whose one-attempt trial    *)
(* was cut off by a power loss of the host.                                *)
(***************************************************************************)
EXTENDS PrimaryCampaign

ActiveB == kind = "wave-b"

(* Wave A has been analysed, which its own campaign says.                  *)
ReadyB == block = "NONE" /\ target = Default

InsertPlanB(c) ==
  InsertLedger(c, [s \in Slot |-> IF s \in Adaptive THEN "PLANNED" ELSE "PROPOSED"])

AnalyzeB(c) == LoadRows(c, TRUE) \/ CommitAnalysis(c)

CommandB(c) ==
  /\ ActiveB
  /\ CreateCampaign(c, ReadyB) \/ InsertPlanB(c) \/ Runner(c) \/ AnalyzeB(c)
-----------------------------------------------------------------------------
(* The host loses power in a measurement: the target is left with the      *)
(* trial's configuration.                                                  *)
PowerLoss(c) ==
  LET t == caller[c].trial IN
  /\ caller[c].at = "measure"
  /\ trial[t].state = "RUNNING"
  /\ target \in {Default, t}
  /\ trial' = [trial EXCEPT ![t].state = "INTERRUPTED"]
  /\ target' = t
  /\ Leave(c)
  /\ UNCHANGED <<kind, campaign, block, overlapped, ledgerVars>>

(* The target restarted and is still at the configuration of the trial.    *)
TargetProvesInterruption(k) == target = k

(* wave_b_interruption_status: what must hold of campaign, attempt, trial, *)
(* later slots and target.                                                 *)
AwaitsReconciliation(k) ==
  /\ campaign.status = "PAUSED" /\ block = "RUNNING"
  /\ slot[k[1]].status = "CREATED" /\ attempt[k] = "CREATED"
  /\ trial[k].state = "INTERRUPTED"
  /\ \A s \in Slot : s > k[1] => slot[s].status \in {"PLANNED", "PROPOSED"}
  /\ k[2] < MaxAttempts
  /\ TargetProvesInterruption(k)

ReconcileInterruption(c) ==
  /\ \E k \in AttemptId :
       /\ AwaitsReconciliation(k)
       /\ Enter(c, [Idle EXCEPT !.at = "rollback", !.slot = k[1], !.number = k[2]])
  /\ UNCHANGED <<kind, campaign, block, trial, target, ledgerVars>>

(* The target goes back to its defaults before the ledger says so.         *)
RollbackInterrupted(c) ==
  /\ caller[c].at = "rollback"
  /\ target' = Default
  /\ Proceed(c, "interruption")
  /\ UNCHANGED <<kind, campaign, block, trial, overlapped, ledgerVars>>

(* One transaction under row locks: action, trial, attempt, slot and the   *)
(* campaign's failure count, which is not held against its limit.          *)
FileInterruption(c) ==
  LET k == <<caller[c].slot, caller[c].number>> IN
  /\ caller[c].at = "interruption"
  /\ IF /\ campaign.status = "PAUSED"
        /\ slot[k[1]].status = "CREATED" /\ attempt[k] = "CREATED"
        /\ trial[k].state = "INTERRUPTED"
       THEN /\ trial' = [trial EXCEPT ![k].state = "INFRA"]
            /\ attempt' = [attempt EXCEPT ![k] = "INFRASTRUCTURE_FAILED"]
            /\ slot' = [slot EXCEPT ![k[1]].status = "RETRY_PENDING",
                                    ![k[1]].attempts = k[2]]
            /\ campaign' = [campaign EXCEPT !.failures = @ + 1]
       ELSE UNCHANGED <<trial, campaign, ledgerVars>>
  /\ Leave(c)
  /\ UNCHANGED <<kind, block, target, overlapped>>

Interruption(c) ==
  /\ ActiveB
  /\ \/ PowerLoss(c) \/ ReconcileInterruption(c)
     \/ RollbackInterrupted(c) \/ FileInterruption(c)
=============================================================================
