---------------------------- MODULE H25Baseline ----------------------------
(***************************************************************************)
(* The H25 heuristic baseline (campaigns/h25.py).  It shares its target    *)
(* with the deployment of the champion, so every new slot first checks     *)
(* that the target has its canonical settings.  A block without a          *)
(* completed observation can be abandoned; a new one supersedes it.        *)
(***************************************************************************)
EXTENDS AttemptLedger

Active == kind = "h25"

Champion == <<0, 1>>     \* the target has the champion's configuration

(* A failed block does not stand in the way of a new one.                  *)
Ready == block \in {"NONE", "FAILED"} /\ target = Default

InsertPlan(c) == InsertLedger(c, [s \in Slot |-> "PROPOSED"])

(* apply-best activates and rolls back the champion between trials.        *)
DeployChampion ==
  /\ Active
  /\ \A t \in TrialId : trial[t].state # "RUNNING"
  /\ \/ target = Default /\ target' = Champion
     \/ target = Champion /\ target' = Default
  /\ UNCHANGED <<kind, campaign, block, trial, caller, overlapped, ledgerVars>>

RunNext(c) ==
  /\ Begin(c, "reconcile")
  /\ UNCHANGED <<kind, campaign, block, trial, target, ledgerVars>>

Reconcile(c) == ReconcileFirst(c) \/ PauseBlock(c)

SelectSlot(c) ==
  Choose(c, Executable, [s \in Slot |-> "canonical"]) \/ Finish(c, Executable)

(* _require_canonical_target; a trial in flight is resumed without it.     *)
RequireCanonical(c) ==
  /\ caller[c].at = "canonical"
  /\ IF target = Default THEN Proceed(c, "trial") ELSE Leave(c)
  /\ UNCHANGED <<kind, campaign, block, trial, target, overlapped, ledgerVars>>

ExecuteSlot(c) ==
  /\ \/ /\ caller[c].at = "trial"
        /\ CreateTrial(c, <<caller[c].slot, caller[c].number>>, "attach")
        /\ UNCHANGED ledgerVars
     \/ Attach(c)
     \/ Worker(c, "settle") /\ UNCHANGED ledgerVars
     \/ ReconcileLast(c)

(* abandon_h25_block                                                       *)
LiveBlock == {"PLANNED", "RUNNING", "PAUSED_INFRASTRUCTURE", "OBSERVATIONS_COMPLETE"}

Abandon(c) ==
  /\ block \in LiveBlock
  /\ Enter(c, [Idle EXCEPT !.at = "abandon", !.block = block])
  /\ UNCHANGED <<kind, campaign, block, trial, target, ledgerVars>>

AbandonReconcile(c) ==
  LET open == InFlight # {} /\ ~Settled(Current) IN
  /\ caller[c].at = "abandon"
  /\ ReconcileAttempt
  /\ IF open THEN Leave(c) ELSE Proceed(c, "discard")
  /\ UNCHANGED <<kind, campaign, block, trial, target, overlapped>>

Discard(c) ==
  /\ caller[c].at = "discard"
  /\ IF /\ \A s \in Slot : slot[s].status # "COMPLETED"
        /\ block = caller[c].block
       THEN /\ block' = "FAILED"
            /\ caller' = [caller EXCEPT ![c] = [Idle EXCEPT !.at = "stop"]]
       ELSE UNCHANGED block /\ Leave(c)
  /\ UNCHANGED <<kind, campaign, trial, target, overlapped, ledgerVars>>

(* _load_authenticated_rows; failed slots are accepted.                    *)
Evidence == Authenticated

Analyze(c) == LoadRows(c, Evidence) \/ CommitAnalysis(c)

Command(c) ==
  /\ Active
  /\ \/ CreateCampaign(c, Ready) \/ InsertPlan(c)
     \/ RunNext(c) \/ Reconcile(c) \/ StartBlock(c) \/ SelectSlot(c)
     \/ RequireCanonical(c) \/ ExecuteSlot(c)
     \/ Abandon(c) \/ AbandonReconcile(c) \/ Discard(c) \/ Analyze(c)
=============================================================================
