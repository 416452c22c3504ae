----------------------------- MODULE Saturation -----------------------------
(***************************************************************************)
(* Phase one of the saturation (campaigns/saturation.py).  A ladder seeds  *)
(* the data, gives the target a configuration, probes it at rising         *)
(* concurrency and gives the target its defaults back; the probes leave    *)
(* the target alone.                                                       *)
(***************************************************************************)
EXTENDS RunLedger

Active == kind = "saturation"

Ready == block = "NONE"

Ladder == 1..2
Own(l) == <<0, l>>        \* the target has the configuration of ladder l
AtWork == {l \in Ladder : ladder[l] \in {"PREPARING", "READY", "RUNNING"}}
Waiting == {l \in Ladder : ladder[l] = "PLANNED"}

InsertPlan(c) == InsertRuns(c, Slot, "PLANNED")

RunNext(c) ==
  /\ campaign.status = "RUNNING"
  /\ Begin(c, "reconcile")
  /\ UNCHANGED <<kind, campaign, block, trial, target, ledgerVars>>

(* A failed probe is filed like a completed one; the ladder is what fails. *)
Reconcile(c) ==
  /\ caller[c].at \in {"reconcile", "settle"}
  /\ ReconcileRun
  /\ IF caller[c].at = "settle" THEN Leave(c)
     ELSE caller' = [caller EXCEPT ![c] =
            [Idle EXCEPT !.at = "finalize?", !.open = Pending]]
  /\ UNCHANGED <<kind, campaign, block, trial, target, overlapped, verdict, ladder,
                 passedOver>>

Finalizable(l) ==
  (\E s \in Part(l) : slot[s] = "FAILED") \/ (\A s \in Part(l) : slot[s] = "COMPLETED")
Outcome(l) == IF \E s \in Part(l) : slot[s] = "FAILED" THEN "FAILED" ELSE "COMPLETED"

(* The ladder at work is finalized if it can be; `number` is the ladder    *)
(* and `block` what its probes amount to.                                  *)
StartFinalize(c, l) ==
  caller' = [caller EXCEPT ![c] =
    [Idle EXCEPT !.at = "rollback", !.number = l, !.block = Outcome(l)]]

FinalizeFirst(c) ==
  /\ caller[c].at = "finalize?"
  /\ IF AtWork # {} /\ ladder[Min(AtWork)] = "RUNNING" /\ Finalizable(Min(AtWork))
       THEN StartFinalize(c, Min(AtWork))
       ELSE Proceed(c, IF caller[c].open THEN "run_once" ELSE "select")
  /\ UNCHANGED <<kind, campaign, block, trial, target, overlapped, ledgerVars>>

(* Mutant: the ladder is closed first and then rolled back.                *)
FinalizeBeforeRollback(c) ==
  LET l == caller[c].number IN
  \/ /\ caller[c].at = "rollback"
     /\ IF ladder[l] = "RUNNING"
          THEN /\ ladder' = [ladder EXCEPT ![l] = caller[c].block]
               /\ Proceed(c, "finalize")
          ELSE UNCHANGED ladder /\ Leave(c)
     /\ UNCHANGED <<kind, campaign, block, trial, target, overlapped, slot, verdict,
                    passedOver>>
  \/ /\ caller[c].at = "finalize"
     /\ target' = Default
     /\ IF caller[c].block = "FAILED" THEN Proceed(c, "pause") ELSE Leave(c)
     /\ UNCHANGED <<kind, campaign, block, trial, overlapped, ledgerVars>>

(* The target gets its defaults back before the ladder is closed; a failed *)
(* ladder pauses the campaign.                                             *)
FinalizeLadder(c) ==
  LET l == caller[c].number IN
  \/ /\ caller[c].at = "rollback"
     /\ target' = Default
     /\ Proceed(c, "finalize")
     /\ UNCHANGED <<kind, campaign, block, trial, overlapped, ledgerVars>>
  \/ /\ caller[c].at = "finalize"
     /\ IF ladder[l] = "RUNNING"
          THEN /\ ladder' = [ladder EXCEPT ![l] = caller[c].block]
               /\ IF caller[c].block = "FAILED" THEN Proceed(c, "pause") ELSE Leave(c)
          ELSE UNCHANGED ladder /\ Leave(c)
     /\ UNCHANGED <<kind, campaign, block, trial, target, overlapped, slot, verdict,
                    passedOver>>

(* The first ladder at work, else the first that waits, else the end.      *)
SelectLadder(c) ==
  LET l == IF AtWork # {} THEN Min(AtWork) ELSE Min(Waiting)
      probes == Planned(Part(l))
  IN
  /\ caller[c].at = "select"
  /\ IF AtWork \cup Waiting = {} THEN Proceed(c, "pause")
     ELSE IF ladder[l] \in {"PLANNED", "PREPARING"}
       THEN caller' = [caller EXCEPT ![c] = [Idle EXCEPT !.at = "prepare", !.number = l]]
     ELSE IF probes # {}
       THEN caller' = [caller EXCEPT ![c] =
              [Idle EXCEPT !.at = "drift?", !.slot = Min(probes), !.block = ladder[l]]]
     ELSE IF Finalizable(l) THEN StartFinalize(c, l)
     ELSE Leave(c)
  /\ UNCHANGED <<kind, campaign, block, trial, target, overlapped, ledgerVars>>

(* _prepare_ladder: it is taken, the target gets its configuration, and it *)
(* is ready if nobody else has made it so.                                 *)
PrepareLadder(c) ==
  LET l == caller[c].number IN
  \/ /\ caller[c].at = "prepare"
     /\ ladder' = [ladder EXCEPT ![l] = IF @ = "PLANNED" THEN "PREPARING" ELSE @]
     /\ Proceed(c, "apply")
     /\ UNCHANGED <<kind, campaign, block, trial, target, overlapped, slot, verdict,
                    passedOver>>
  \/ /\ caller[c].at = "apply"
     /\ target' = Own(l)
     /\ Proceed(c, "ready")
     /\ UNCHANGED <<kind, campaign, block, trial, overlapped, ledgerVars>>
  \/ /\ caller[c].at = "ready"
     /\ ladder' = [ladder EXCEPT ![l] = IF @ = "PREPARING" THEN "READY" ELSE @]
     /\ Leave(c)
     /\ UNCHANGED <<kind, campaign, block, trial, target, overlapped, slot, verdict,
                    passedOver>>

(* _create_probe_trial: if the target still has the configuration of the   *)
(* ladder, trial, probe and ladder change in one transaction.              *)
CreateProbe(c) ==
  LET s == caller[c].slot
      l == PartOf(s)
  IN
  \/ /\ caller[c].at = "drift?"
     /\ IF target = Own(l) THEN Proceed(c, "probe") ELSE Leave(c)
     /\ UNCHANGED <<kind, campaign, block, trial, target, overlapped, ledgerVars>>
  \/ /\ caller[c].at = "probe"
     /\ IF slot[s] = "PLANNED"
          THEN /\ trial' = [trial EXCEPT ![RunTrial(s)] =
                    IF @ = Absent THEN [state |-> "QUEUED", tries |-> 0] ELSE @]
               /\ slot' = [slot EXCEPT ![s] = "CREATED"]
               /\ ladder' = [ladder EXCEPT ![l] =
                    IF caller[c].block = "READY" /\ @ = "READY" THEN "RUNNING" ELSE @]
               /\ Proceed(c, "run_once")
          ELSE UNCHANGED <<trial, slot, ladder>> /\ Leave(c)
     /\ UNCHANGED <<kind, campaign, block, target, overlapped, verdict, passedOver>>

(* The worker verifies the configuration of the ladder.  A probe with      *)
(* benchmark failures ends in a state that nothing completes.              *)
Probed(c) ==
  LET t == caller[c].trial IN
  /\ caller[c].at = "measure"
  /\ trial[t].state = "RUNNING"
  /\ target = Own(PartOf(t[1]))
  /\ \E state \in {"COMPLETED", "UNFILED"} : trial' = [trial EXCEPT ![t].state = state]
  /\ caller' = [caller EXCEPT ![c].at = "settle", ![c].trial = NoTrial]
  /\ UNCHANGED <<kind, campaign, block, target, overlapped, ledgerVars>>

ExecuteProbe(c) ==
  \/ RunOnce(c, "settle") /\ UNCHANGED ledgerVars
  \/ Probed(c)
  \/ AttemptFails(c) /\ UNCHANGED ledgerVars
  \/ LeaseLost(c) /\ UNCHANGED ledgerVars

Command(c) ==
  /\ Active
  /\ \/ CreateCampaign(c, Ready) \/ InsertPlan(c)
     \/ RunNext(c) \/ Reconcile(c) \/ FinalizeFirst(c) \/ FinalizeLadder(c)
     \/ SelectLadder(c) \/ PrepareLadder(c) \/ CreateProbe(c) \/ ExecuteProbe(c)
=============================================================================
