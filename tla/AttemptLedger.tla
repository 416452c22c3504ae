--------------------------- MODULE AttemptLedger ---------------------------
(***************************************************************************)
(* The ledger of the confirmatory stages (primary waves, Phase B, F4,      *)
(* H25): a block of slots in physical order, each with up to three         *)
(* attempts, each attempt a trial that may be tried once.  An attempt that *)
(* fails for an infrastructure reason leaves the slot to be tried again.   *)
(*                                                                         *)
(* The stages share the shape of a command, not its code: every stage has  *)
(* its own modules, which compose the steps below as its source does.      *)
(***************************************************************************)
EXTENDS StageCore

CONSTANT Slots           \* number of slots of a block

ASSUME SlotsAssumption == Slots \in Nat \ {0}

VARIABLES
  slot,      \* per slot: its status, infrastructure_attempts, what it was given
  attempt    \* attempt rows, by slot and number

ledgerVars == <<slot, attempt>>
attemptVars == <<coreVars, ledgerVars>>
-----------------------------------------------------------------------------
Slot == 1..Slots
MaxAttempts == 3
AttemptId == Slot \X (1..MaxAttempts)

Terminal == {"COMPLETED", "CANDIDATE_FAILED", "INFRASTRUCTURE_EXHAUSTED"}
Executable == {"PROPOSED", "RETRY_PENDING"}
SlotStatus == Terminal \cup Executable \cup {"PLANNED", "CREATED"}
AttemptStatus ==
  {"NONE", "CREATED", "COMPLETED", "INFRASTRUCTURE_FAILED", "CANDIDATE_FAILED"}
BlockStatus ==
  {"NONE", "PLANNED", "RUNNING", "PAUSED_INFRASTRUCTURE",
   "OBSERVATIONS_COMPLETE", "ANALYZED", "FAILED"}

(* `given` is what a slot was materialised from: the control a Phase B     *)
(* candidate is promoted against, the training slots of an adaptive one.   *)
NewSlot(status) == [status |-> status, attempts |-> 0, given |-> {}]

InitLedger ==
  /\ slot = [s \in Slot |-> NewSlot("PLANNED")]
  /\ attempt = [k \in AttemptId |-> "NONE"]
-----------------------------------------------------------------------------
CreateCampaign(c, ready) == OpenCampaign(c, ready) /\ UNCHANGED ledgerVars

InsertLedger(c, first) ==
  /\ caller[c].at = "ledger"
  /\ block' = "PLANNED"
  /\ slot' = [s \in Slot |-> NewSlot(first[s])]
  /\ attempt' = [k \in AttemptId |-> "NONE"]
  /\ trial' = [t \in TrialId |-> Absent]
  /\ overlapped' = FALSE
  /\ Leave(c)
  /\ UNCHANGED <<kind, campaign, target>>
-----------------------------------------------------------------------------
(* Reconciliation: what the trial of the attempt in flight says of it.     *)

InFlight == {k \in AttemptId : slot[k[1]].status = "CREATED" /\ attempt[k] = "CREATED"}
Current == CHOOSE k \in InFlight : \A j \in InFlight : k[1] <= j[1]

Settled(k) == trial[k].state \in Ended

AttemptVerdict(k) ==
  CASE trial[k].state = "COMPLETED" -> "COMPLETED"
    [] trial[k].state = "INFRA" -> "INFRASTRUCTURE_FAILED"
    [] OTHER -> "CANDIDATE_FAILED"

(* Mutant: a fourth attempt is allowed.                                    *)
SlotVerdictOneMore(k) ==
  IF AttemptVerdict(k) # "INFRASTRUCTURE_FAILED" THEN AttemptVerdict(k)
  ELSE IF k[2] <= MaxAttempts THEN "RETRY_PENDING" ELSE "INFRASTRUCTURE_EXHAUSTED"

SlotVerdict(k) ==
  IF AttemptVerdict(k) # "INFRASTRUCTURE_FAILED" THEN AttemptVerdict(k)
  ELSE IF k[2] < MaxAttempts THEN "RETRY_PENDING" ELSE "INFRASTRUCTURE_EXHAUSTED"

(* Mutant: the number of attempts is not kept.                             *)
ReconcileWithoutCount ==
  IF InFlight # {} /\ Settled(Current)
    THEN LET k == Current IN
         /\ attempt' = [attempt EXCEPT ![k] = AttemptVerdict(k)]
         /\ slot' = [slot EXCEPT ![k[1]].status = SlotVerdict(k)]
    ELSE UNCHANGED ledgerVars

(* One transaction; it changes nothing unless the trial has ended.         *)
ReconcileAttempt ==
  IF InFlight # {} /\ Settled(Current)
    THEN LET k == Current IN
         /\ attempt' = [attempt EXCEPT ![k] = AttemptVerdict(k)]
         /\ slot' = [slot EXCEPT ![k[1]].status = SlotVerdict(k),
                                 ![k[1]].attempts = k[2]]
    ELSE UNCHANGED ledgerVars

Exhausts == InFlight # {} /\ Settled(Current)
            /\ SlotVerdict(Current) = "INFRASTRUCTURE_EXHAUSTED"

(* The command goes on if the campaign and the block, as it read them when *)
(* it began, are running; otherwise it raises.                             *)
GateOpen(c) ==
  caller[c].seen = "RUNNING" /\ caller[c].block \in {"PLANNED", "RUNNING"}

ReconcileFirst(c) ==
  LET open == InFlight # {} /\ ~Settled(Current)
      next == IF caller[c].block = "PLANNED" THEN "start"
              ELSE IF open THEN "run_once" ELSE "select"
  IN
  /\ caller[c].at = "reconcile"
  /\ ReconcileAttempt
  /\ caller' = [caller EXCEPT ![c] =
       CASE Exhausts -> [Idle EXCEPT !.at = "exhausted"]
         [] ~Exhausts /\ GateOpen(c) -> [Idle EXCEPT !.at = next, !.open = open]
         [] OTHER -> Idle]
  /\ UNCHANGED <<kind, campaign, block, trial, target, overlapped>>

(* After the worker: the outcome is filed and the command is over.         *)
ReconcileLast(c) ==
  /\ caller[c].at = "settle"
  /\ ReconcileAttempt
  /\ Leave(c)
  /\ UNCHANGED <<kind, campaign, block, trial, target, overlapped>>

(* Retries are exhausted: the block waits for a decision.                  *)
PauseBlock(c) ==
  /\ caller[c].at = "exhausted"
  /\ block' = IF block = "RUNNING" THEN "PAUSED_INFRASTRUCTURE" ELSE block
  /\ Proceed(c, "pause")
  /\ UNCHANGED <<kind, campaign, trial, target, overlapped, ledgerVars>>
-----------------------------------------------------------------------------
StartBlock(c) ==
  /\ caller[c].at = "start"
  /\ block' = IF block = "PLANNED" THEN "RUNNING" ELSE block
  /\ caller' = [caller EXCEPT ![c] =
       [Idle EXCEPT !.at = IF caller[c].open THEN "run_once" ELSE "select"]]
  /\ UNCHANGED <<kind, campaign, trial, target, overlapped, ledgerVars>>

Runnable(statuses) == {s \in Slot : slot[s].status \in statuses}

(* Mutant: ORDER BY is forgotten.                                          *)
ChooseAny(c, statuses, next) ==
  /\ caller[c].at = "select"
  /\ \E s \in Runnable(statuses) :
       caller' = [caller EXCEPT ![c] = [Idle EXCEPT
         !.at = next[s], !.slot = s, !.number = slot[s].attempts + 1]]
  /\ UNCHANGED <<kind, campaign, block, trial, target, overlapped, ledgerVars>>

(* The lowest slot that can run, as it is now; `next` is what its          *)
(* execution begins with.                                                  *)
Choose(c, statuses, next) ==
  LET s == Min(Runnable(statuses)) IN
  /\ caller[c].at = "select"
  /\ Runnable(statuses) # {}
  /\ caller' = [caller EXCEPT ![c] = [Idle EXCEPT
       !.at = next[s], !.slot = s, !.number = slot[s].attempts + 1]]
  /\ UNCHANGED <<kind, campaign, block, trial, target, overlapped, ledgerVars>>

(* Mutant: exhausted slots count as terminal and nothing else is asked.    *)
FinishExhausted(c, statuses) ==
  /\ caller[c].at = "select"
  /\ Runnable(statuses) = {}
  /\ IF \A s \in Slot : slot[s].status \in Terminal
       THEN /\ block' = IF block = "RUNNING" THEN "OBSERVATIONS_COMPLETE" ELSE block
            /\ Proceed(c, "pause")
       ELSE UNCHANGED block /\ Leave(c)
  /\ UNCHANGED <<kind, campaign, trial, target, overlapped, ledgerVars>>

(* No slot can run: the block is complete if every slot is terminal and    *)
(* none is exhausted, else the command raises.                             *)
Finish(c, statuses) ==
  LET done == \A s \in Slot : slot[s].status \in Terminal \ {"INFRASTRUCTURE_EXHAUSTED"}
  IN
  /\ caller[c].at = "select"
  /\ Runnable(statuses) = {}
  /\ IF done THEN /\ block' = IF block = "RUNNING" THEN "OBSERVATIONS_COMPLETE" ELSE block
                  /\ Proceed(c, "pause")
             ELSE UNCHANGED block /\ Leave(c)
  /\ UNCHANGED <<kind, campaign, trial, target, overlapped, ledgerVars>>

(* The command reads what its slot depends on, or raises.                  *)
Gather(c, at, given, enough, next) ==
  /\ caller[c].at = at
  /\ caller' = [caller EXCEPT ![c] =
       IF enough THEN [@ EXCEPT !.at = next, !.given = given] ELSE Idle]
  /\ UNCHANGED <<kind, campaign, block, trial, target, overlapped, ledgerVars>>

(* Mutant: a crash may come between the two writes of Attach.              *)
AttachInTwo(c) ==
  LET k == <<caller[c].slot, caller[c].number>> IN
  /\ caller[c].at = "attach"
  /\ slot[k[1]].status \in Executable
  /\ slot' = [slot EXCEPT ![k[1]].status = "CREATED"]
  /\ \/ attempt' = [attempt EXCEPT ![k] = IF @ = "NONE" THEN "CREATED" ELSE @]
     \/ UNCHANGED attempt
  /\ caller' = [caller EXCEPT ![c] = [Idle EXCEPT !.at = "run_once"]]
  /\ UNCHANGED <<kind, campaign, block, trial, target, overlapped>>

(* Mutant: the status of the slot is not looked at.                        *)
AttachBlindly(c) ==
  LET k == <<caller[c].slot, caller[c].number>> IN
  /\ caller[c].at = "attach"
  /\ attempt' = [attempt EXCEPT ![k] = IF @ = "NONE" THEN "CREATED" ELSE @]
  /\ slot' = [slot EXCEPT ![k[1]].status = "CREATED"]
  /\ caller' = [caller EXCEPT ![c] = [Idle EXCEPT !.at = "run_once"]]
  /\ UNCHANGED <<kind, campaign, block, trial, target, overlapped>>

(* Attempt row and slot status in one transaction, which is rolled back    *)
(* when the slot is no longer executable.                                  *)
Attach(c) ==
  LET k == <<caller[c].slot, caller[c].number>> IN
  /\ caller[c].at = "attach"
  /\ IF slot[k[1]].status \in Executable
       THEN /\ attempt' = [attempt EXCEPT ![k] = IF @ = "NONE" THEN "CREATED" ELSE @]
            /\ slot' = [slot EXCEPT ![k[1]].status = "CREATED"]
            /\ caller' = [caller EXCEPT ![c] = [Idle EXCEPT !.at = "run_once"]]
       ELSE UNCHANGED ledgerVars /\ Leave(c)
  /\ UNCHANGED <<kind, campaign, block, trial, target, overlapped>>
-----------------------------------------------------------------------------
(* Analysis reads the rows of a paused, complete block, computes, and      *)
(* commits if the block is still complete; then the campaign is stopped.   *)

(* The latest attempt of every slot is the evidence; that of a completed   *)
(* slot must have completed, and its trial too.                            *)
Tried(s) == {n \in 1..MaxAttempts : attempt[<<s, n>>] # "NONE"}

Authenticated ==
  \A s \in Slot :
    /\ Tried(s) # {}
    /\ slot[s].status = "COMPLETED" =>
         /\ attempt[<<s, Max(Tried(s))>>] = "COMPLETED"
         /\ trial[<<s, Max(Tried(s))>>].state = "COMPLETED"

LoadRows(c, accepted) ==
  /\ block = "OBSERVATIONS_COMPLETE"
  /\ campaign.status = "PAUSED"
  /\ accepted
  /\ Enter(c, [Idle EXCEPT !.at = "analyze"])
  /\ UNCHANGED <<kind, campaign, block, trial, target, ledgerVars>>

CommitAnalysis(c) ==
  /\ caller[c].at = "analyze"
  /\ IF block = "OBSERVATIONS_COMPLETE"
       THEN /\ block' = "ANALYZED"
            /\ caller' = [caller EXCEPT ![c] = [Idle EXCEPT !.at = "stop"]]
       ELSE UNCHANGED block /\ Leave(c)
  /\ UNCHANGED <<kind, campaign, trial, target, overlapped, ledgerVars>>
=============================================================================
