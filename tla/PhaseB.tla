------------------------------- MODULE PhaseB -------------------------------
(***************************************************************************)
(* Phase B of the multi-fidelity campaign (campaigns/multifidelity.py):    *)
(* the first slot of a group is a default control, the others are          *)
(* candidates whose promotion is judged against the throughput of the      *)
(* control before them.                                                    *)
(***************************************************************************)
EXTENDS AttemptLedger

CONSTANT Controls        \* the slots that are default controls

Active == kind = "phase-b"

Ready == block = "NONE" /\ target = Default

InsertPlan(c) == InsertLedger(c, [s \in Slot |-> "PROPOSED"])

RunNext(c) ==
  /\ Begin(c, "reconcile")
  /\ UNCHANGED <<kind, campaign, block, trial, target, ledgerVars>>

Reconcile(c) == ReconcileFirst(c) \/ PauseBlock(c)

SelectSlot(c) ==
  \/ Choose(c, Executable, [s \in Slot |-> IF s \in Controls THEN "trial" ELSE "control"])
  \/ Finish(c, Executable)

(* _preceding_control_tps: the last completed control before the slot.     *)
PrecedingControl(c) ==
  LET controls == {d \in Controls : d < caller[c].slot /\ slot[d].status = "COMPLETED"} IN
  Gather(c, "control", {d \in controls : \A e \in controls : d >= e},
         controls # {}, "baseline")

(* A candidate is given its baseline, which must not change on a retry.    *)
RecordBaseline(c) ==
  LET s == caller[c].slot IN
  /\ caller[c].at = "baseline"
  /\ IF slot[s].status \in Executable /\ slot[s].given \in {{}, caller[c].given}
       THEN /\ slot' = [slot EXCEPT ![s].given = caller[c].given]
            /\ caller' = [caller EXCEPT ![c].at = "trial", ![c].given = {}]
       ELSE UNCHANGED slot /\ Leave(c)
  /\ UNCHANGED <<kind, campaign, block, trial, target, overlapped, attempt>>

ExecuteSlot(c) ==
  /\ \/ /\ caller[c].at = "trial"
        /\ CreateTrial(c, <<caller[c].slot, caller[c].number>>, "attach")
        /\ UNCHANGED ledgerVars
     \/ Attach(c)
     \/ Worker(c, "settle") /\ UNCHANGED ledgerVars
     \/ ReconcileLast(c)

(* remediate_phase_b_test_fixture: the first attempt of the first slot     *)
(* failed its restore because a test left a table behind.  The table is    *)
(* dropped and the failure filed while the campaign is paused.             *)
RemediateFixture(c) ==
  /\ campaign.status = "PAUSED" /\ block = "RUNNING"
  /\ InFlight # {} /\ Current = <<1, 1>>
  /\ trial[<<1, 1>>].state = "INFRA"
  /\ Enter(c, [Idle EXCEPT !.at = "settle"])
  /\ UNCHANGED <<kind, campaign, block, trial, target, ledgerVars>>

(* _load_authenticated_phase_b_rows.  Unlike the other stages, all slots   *)
(* must have completed, and every candidate must have been judged against  *)
(* the last control before it.                                             *)
AllCompleted == \A s \in Slot : slot[s].status = "COMPLETED"

Evidence ==
  /\ AllCompleted
  /\ Authenticated
  /\ \A s \in Slot \ Controls :
       slot[s].given = {Max({d \in Controls : d < s})}

Analyze(c) == LoadRows(c, Evidence) \/ CommitAnalysis(c)

Command(c) ==
  /\ Active
  /\ \/ CreateCampaign(c, Ready) \/ InsertPlan(c)
     \/ RunNext(c) \/ Reconcile(c) \/ StartBlock(c) \/ SelectSlot(c)
     \/ PrecedingControl(c) \/ RecordBaseline(c) \/ ExecuteSlot(c) \/ RemediateFixture(c) \/ Analyze(c)
=============================================================================
