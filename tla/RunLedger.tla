----------------------------- MODULE RunLedger -----------------------------
(***************************************************************************)
(* The ledger of the stages whose runs are not tried again: screening and  *)
(* its recovery, the default reference, the warm-up pilot and the two      *)
(* saturation phases.  A run has one trial and ends COMPLETED or FAILED.   *)
(* The runs come in two parts; in most stages the second part is planned   *)
(* only when the first has been analysed.                                  *)
(*                                                                         *)
(* Every stage has its own module, which composes the steps below as its   *)
(* source does.                                                            *)
(***************************************************************************)
EXTENDS StageCore

CONSTANTS
  Slots,     \* number of runs
  First      \* the runs of the first part

ASSUME RunLedgerAssumption ==
  /\ Slots \in Nat \ {0}
  /\ First \subseteq 1..Slots

VARIABLES
  slot,       \* status of each run
  verdict,    \* the analysis of each part, once it has been made
  ladder,     \* in phase one of the saturation, the status of each part
  passedOver  \* a command died between filing a failure and acting on it

ledgerVars == <<slot, verdict, ladder, passedOver>>
runVars == <<coreVars, ledgerVars>>
-----------------------------------------------------------------------------
Slot == 1..Slots
Second == Slot \ First
Part(p) == IF p = 1 THEN First ELSE Second
PartOf(s) == IF s \in First THEN 1 ELSE 2
RunTrial(s) == <<s, 1>>

SlotStatus == {"ABSENT", "PLANNED", "CREATED", "COMPLETED", "FAILED"}
Over == {"COMPLETED", "FAILED"}
Failures == Ended \ {"COMPLETED"}

InitLedger ==
  /\ slot = [s \in Slot |-> "ABSENT"]
  /\ verdict = [p \in 1..2 |-> "NONE"]
  /\ ladder = [p \in 1..2 |-> "PLANNED"]
  /\ passedOver = FALSE
-----------------------------------------------------------------------------
CreateCampaign(c, ready) == OpenCampaign(c, ready) /\ UNCHANGED ledgerVars

(* Block and runs are inserted in one transaction.                         *)
InsertRuns(c, runs, status) ==
  /\ caller[c].at = "ledger"
  /\ block' = status
  /\ slot' = [s \in Slot |-> IF s \in runs THEN "PLANNED" ELSE "ABSENT"]
  /\ Leave(c)
  /\ UNCHANGED <<kind, campaign, trial, target, overlapped, verdict, ladder, passedOver>>
-----------------------------------------------------------------------------
(* Reconciliation: the first run in flight whose trial has ended is over.  *)

InFlight == {s \in Slot : slot[s] = "CREATED"}
Settled(s) == trial[RunTrial(s)].state \in Ended
Pending == InFlight # {} /\ ~Settled(Min(InFlight))
Filed == IF InFlight # {} /\ Settled(Min(InFlight))
           THEN trial[RunTrial(Min(InFlight))].state ELSE "NONE"

ReconcileRun ==
  slot' = IF Filed = "NONE" THEN slot
          ELSE [slot EXCEPT ![Min(InFlight)] =
                  IF Filed = "COMPLETED" THEN "COMPLETED" ELSE "FAILED"]

(* `fatal` are the outcomes that end the stage: the command goes on to     *)
(* fail the block.  After another failure it is over.  Only then does it   *)
(* look at what it read when it began: `starts` takes a planned block to   *)
(* the running one.                                                        *)
ReconcileFirst(c, fatal, starts) ==
  LET running == {starts[b] : b \in DOMAIN starts}
      ready == /\ caller[c].seen = "RUNNING"
               /\ caller[c].block \in DOMAIN starts \cup running
      next == IF caller[c].block \in DOMAIN starts THEN "start"
              ELSE IF Pending THEN "run_once" ELSE "select"
  IN
  /\ caller[c].at = "reconcile"
  /\ ReconcileRun
  /\ caller' = [caller EXCEPT ![c] =
       CASE Filed \in fatal -> [Idle EXCEPT !.at = "fail"]
         [] Filed \notin Failures /\ ready ->
              [Idle EXCEPT !.at = next, !.open = Pending, !.block = caller[c].block]
         [] OTHER -> Idle]
  /\ UNCHANGED <<kind, campaign, block, trial, target, overlapped, verdict, ladder,
                 passedOver>>

(* Mutant: a failure that should end the stage is filed and forgotten.     *)
ReconcileLastForgets(c, fatal) ==
  /\ caller[c].at = "settle"
  /\ ReconcileRun
  /\ Leave(c)
  /\ UNCHANGED <<kind, campaign, block, trial, target, overlapped, verdict, ladder,
                 passedOver>>

(* After the worker.                                                       *)
ReconcileLast(c, fatal) ==
  /\ caller[c].at = "settle"
  /\ ReconcileRun
  /\ IF Filed \in fatal THEN Proceed(c, "fail") ELSE Leave(c)
  /\ UNCHANGED <<kind, campaign, block, trial, target, overlapped, verdict, ladder,
                 passedOver>>

(* The block fails unless it has a final status, and the campaign is then  *)
(* paused or stopped.                                                      *)
FailBlock(c, final, action) ==
  /\ caller[c].at = "fail"
  /\ block' = IF block \in final THEN block ELSE "FAILED"
  /\ Proceed(c, action)
  /\ UNCHANGED <<kind, campaign, trial, target, overlapped, ledgerVars>>
-----------------------------------------------------------------------------
StartBlock(c, starts) ==
  LET running == starts[caller[c].block] IN
  /\ caller[c].at = "start"
  /\ block' = IF block = caller[c].block THEN running ELSE block
  /\ caller' = [caller EXCEPT ![c] =
       [@ EXCEPT !.at = IF caller[c].open THEN "run_once" ELSE "select", !.block = running]]
  /\ UNCHANGED <<kind, campaign, trial, target, overlapped, ledgerVars>>

Planned(runs) == {s \in runs : slot[s] = "PLANNED"}

ChooseRun(c, runs) ==
  /\ caller[c].at = "select"
  /\ Planned(runs) # {}
  /\ caller' = [caller EXCEPT ![c] =
       [Idle EXCEPT !.at = "trial", !.slot = Min(Planned(runs))]]
  /\ UNCHANGED <<kind, campaign, block, trial, target, overlapped, ledgerVars>>

(* Nothing is left to plan in this part; `guarded` stages look at the      *)
(* status again as they change it.                                         *)
CompletePart(c, runs, complete, guarded) ==
  /\ caller[c].at = "select"
  /\ Planned(runs) = {}
  /\ block' = IF guarded /\ block # caller[c].block THEN block ELSE complete
  /\ Proceed(c, "pause")
  /\ UNCHANGED <<kind, campaign, trial, target, overlapped, ledgerVars>>

(* Mutant: the run refers to its trial before there is one.                *)
ExecuteRunAttachFirst(c) ==
  \/ /\ caller[c].at = "trial"
     /\ IF slot[caller[c].slot] = "PLANNED"
          THEN /\ slot' = [slot EXCEPT ![caller[c].slot] = "CREATED"]
               /\ Proceed(c, "attach")
          ELSE UNCHANGED slot /\ Leave(c)
     /\ UNCHANGED <<kind, campaign, block, trial, target, overlapped, verdict, ladder,
                    passedOver>>
  \/ /\ caller[c].at = "attach"
     /\ CreateTrial(c, RunTrial(caller[c].slot), "run_once")
     /\ UNCHANGED ledgerVars
  \/ Worker(c, "settle") /\ UNCHANGED ledgerVars

(* The trial is created; in the next transaction the run refers to it,     *)
(* unless it is no longer planned.                                         *)
ExecuteRun(c) ==
  \/ /\ caller[c].at = "trial"
     /\ CreateTrial(c, RunTrial(caller[c].slot), "attach")
     /\ UNCHANGED ledgerVars
  \/ /\ caller[c].at = "attach"
     /\ IF slot[caller[c].slot] = "PLANNED"
          THEN /\ slot' = [slot EXCEPT ![caller[c].slot] = "CREATED"]
               /\ caller' = [caller EXCEPT ![c] = [Idle EXCEPT !.at = "run_once"]]
          ELSE UNCHANGED slot /\ Leave(c)
     /\ UNCHANGED <<kind, campaign, block, trial, target, overlapped, verdict, ladder,
                    passedOver>>
  \/ Worker(c, "settle") /\ UNCHANGED ledgerVars
-----------------------------------------------------------------------------
(* Analysis reads the rows of a part that is complete, of a paused         *)
(* campaign.  What the rows amount to does not depend on who computes it.  *)

LoadRuns(c, complete, accepted) ==
  /\ block \in complete
  /\ campaign.status = "PAUSED"
  /\ accepted
  /\ Enter(c, [Idle EXCEPT !.at = "analyze", !.block = block])
  /\ UNCHANGED <<kind, campaign, block, trial, target, ledgerVars>>

Outcomes(p) == IF verdict[p] # "NONE" THEN {verdict[p]}
               ELSE {"PASSED", "BLOCKED"} \cup IF p = 1 THEN {"MORE"} ELSE {}

(* One transaction, which does not look at the status of the block again:  *)
(* it plans the second part, whose rows can be inserted only once, or it   *)
(* ends the stage.                                                         *)
CommitVerdict(c, first, more) ==
  LET p == IF caller[c].block = first THEN 1 ELSE 2 IN
  /\ caller[c].at = "analyze"
  /\ \E outcome \in Outcomes(p) :
       IF outcome = "MORE"
         THEN /\ IF \A s \in Second : slot[s] = "ABSENT"
                   THEN /\ slot' = [s \in Slot |-> IF s \in Second THEN "PLANNED"
                                                                   ELSE slot[s]]
                        /\ block' = more
                        /\ verdict' = [verdict EXCEPT ![1] = "MORE"]
                   ELSE UNCHANGED <<slot, block, verdict>>
              /\ Leave(c)
         ELSE /\ block' = outcome
              /\ verdict' = [verdict EXCEPT ![p] = outcome]
              /\ UNCHANGED slot
              /\ caller' = [caller EXCEPT ![c] = [Idle EXCEPT !.at = "stop"]]
  /\ UNCHANGED <<kind, campaign, trial, target, overlapped, ladder, passedOver>>
=============================================================================
