--------------------------- MODULE StageCampaigns ---------------------------
(***************************************************************************)
(* The stages before the primary campaign, each with its own commands,     *)
(* under one operator.  A behaviour is about one stage, chosen in its      *)
(* initial state.                                                          *)
(***************************************************************************)
EXTENDS RestoreValidation

ASSUME StageAssumption ==
  /\ Kind \subseteq {"screening", "recovery", "reference", "warmup", "phase2",
                     "saturation", "soak"}
  /\ TrialId = {<<s, 1>> : s \in Slot}

Screen == INSTANCE Screening
Recovery == INSTANCE ScreeningRecovery
Reference == INSTANCE DefaultReference
Warmup == INSTANCE WarmupPilot
Tradeoff == INSTANCE SaturationPhase2
Coarse == INSTANCE Saturation
Soak == INSTANCE RestoreSoak

Init == InitCore /\ InitLedger /\ InitRestore

Operator == Control /\ UNCHANGED <<ledgerVars, restoreVars>>

(* A command ends; one that dies before it has acted on a failure it filed *)
(* leaves the failure behind.                                              *)
Leaving(c) ==
  /\ \/ (Steer(c, "pause") \/ Steer(c, "stop")) /\ UNCHANGED passedOver
     \/ Crash(c) /\ passedOver' = (passedOver \/ caller[c].at = "fail")
  /\ UNCHANGED <<slot, verdict, ladder, restoreVars>>

Next ==
  \/ Operator
  \/ Soak!CreateSoak
  \/ \E c \in Caller :
       \/ Screen!Command(c) /\ UNCHANGED restoreVars
       \/ Reference!Command(c) /\ UNCHANGED restoreVars
       \/ Warmup!Command(c) /\ UNCHANGED restoreVars
       \/ Tradeoff!Command(c) /\ UNCHANGED restoreVars
       \/ Coarse!Command(c) /\ UNCHANGED restoreVars
       \/ Recovery!Campaign(c) \/ Recovery!Restoration(c)
       \/ Soak!RunSoakNext(c)
       \/ Leaving(c)

Spec == Init /\ [][Next]_stageVars
-----------------------------------------------------------------------------
Positions ==
  {"idle", "ledger", "reconcile", "start", "select", "trial", "attach", "run_once",
   "measure", "settle", "fail", "pause", "stop", "analyze", "freeze", "finalize?",
   "rollback", "finalize", "prepare", "apply", "ready", "drift?", "probe", "claim",
   "validate", "pass", "rebuild"}

BlockStatus ==
  {"NONE", "PLANNED", "INITIAL_PLANNED", "INITIAL_RUNNING", "INITIAL_COMPLETE",
   "RECOVERY_PLANNED", "RECOVERY_RUNNING", "OAT_PLANNED", "OAT_RUNNING",
   "OAT_COMPLETE", "CONTINGENCY_PLANNED", "CONTINGENCY_RUNNING",
   "CONTINGENCY_COMPLETE", "WARMUP_PLANNED", "WARMUP_RUNNING", "WARMUP_COMPLETE",
   "WARMUP_FROZEN", "DURATION_RUNNING", "COMPLETED", "PASSED", "BLOCKED", "FAILED"}

(* Every variable has its type, and a command has what it needs.           *)
TypeOK ==
  /\ kind \in Kind
  /\ campaign \in [status: CampaignStatus, emergency: BOOLEAN, failures: Nat]
  /\ block \in BlockStatus
  /\ trial \in [TrialId -> [state: TrialState, tries: 0..MaxTries[kind]]]
  /\ target \in TrialId \cup {Default} \cup {Coarse!Own(l) : l \in Coarse!Ladder}
  /\ caller \in [Caller ->
       [at: Positions, seen: CampaignStatus, block: BlockStatus \cup {"READY", "RUNNING"},
        open: BOOLEAN, slot: Slot \cup {0}, number: Rep \cup {0} \cup Coarse!Ladder,
        given: SUBSET Rep, trial: TrialId \cup {NoTrial}]]
  /\ overlapped \in BOOLEAN /\ passedOver \in BOOLEAN
  /\ slot \in [Slot -> SlotStatus]
  /\ verdict \in [1..2 -> {"NONE", "MORE", "PASSED", "BLOCKED"}]
  /\ ladder \in [1..2 -> {"PLANNED", "PREPARING", "READY", "RUNNING", "COMPLETED", "FAILED"}]
  /\ remediation \in RestoreStatus /\ validation \in RestoreStatus
  /\ rep \in [Rep -> RestoreStatus] /\ supersedes \in BOOLEAN
  /\ \A c \in Caller :
       /\ caller[c].at \in {"trial", "attach", "drift?", "probe"} => caller[c].slot \in Slot
       /\ caller[c].at = "measure" => caller[c].trial \in TrialId
       /\ caller[c].at \in {"validate", "pass"} => caller[c].number \in Rep

(* A stage is decided by the evidence it asks for, however commands        *)
(* overlap: a series passes only if every repetition did, and a recovery   *)
(* campaign has a series that passed; the database is rebuilt only after a *)
(* series that failed and never beneath a campaign, though the command     *)
(* that drops it looks at no campaign; the default reference and the       *)
(* frozen warm-up rest on completed runs alone.  Unless commands overlap,  *)
(* no part is analysed before its runs are over.                           *)
VerdictIsEarned ==
  /\ validation = "PASSED" => \A r \in Rep : rep[r] = "PASSED"
  /\ kind = "recovery" /\ campaign.status # "NONE" => validation = "PASSED"
  /\ kind = "recovery" /\ remediation \in {"PLANNED", "RUNNING"} =>
       validation = "FAILED" /\ campaign.status = "NONE"
  /\ kind = "reference" /\ block \in {"PASSED", "BLOCKED"} => Reference!AllMeasured
  /\ kind = "warmup" /\ (\E s \in Second : slot[s] # "ABSENT") => Warmup!AllMeasured(1)
  /\ kind = "warmup" /\ verdict[2] # "NONE" => Warmup!AllMeasured(2)
  /\ ~overlapped => \A p \in 1..2 : verdict[p] # "NONE" =>
       \A s \in Part(p) : slot[s] \in Over

(* A failure that ends the stage has ended it, or a command is about to,   *)
(* unless the command that filed it died before it could.                  *)
FailureStops ==
  LET fatal == CASE kind \in {"screening", "recovery"} -> Screen!Fatal
                 [] kind \in {"reference", "warmup"} -> Failures
                 [] OTHER -> {}
  IN
  ~overlapped /\ ~passedOver
    /\ (\E s \in Slot : slot[s] = "FAILED" /\ trial[RunTrial(s)].state \in fatal)
    => block = "FAILED" \/ \E c \in Caller : caller[c].at = "fail"

(* The target has the configuration of a ladder only while the ladder is   *)
(* at work, and it has it whenever a probe may run, whatever was cut off.  *)
TargetFollowsLadder ==
  kind = "saturation" /\ ~overlapped => \A l \in Coarse!Ladder :
    /\ target = Coarse!Own(l) => l \in Coarse!AtWork
    /\ ladder[l] \in {"READY", "RUNNING"} /\ ~Coarse!Finalizable(l) => target = Coarse!Own(l)

(* The places a stage can be stuck in for ever: the process died in the    *)
(* last attempt of a trial or in a repetition, or a probe had failures.  A *)
(* rebuilding the process died in stays RUNNING for ever as well: it waits *)
(* for nothing else, and VerdictIsEarned says what cannot rest on it.      *)
KnownStuck ==
  \/ \E s \in InFlight :
       \/ trial[RunTrial(s)].state = "UNFILED"
       \/ trial[RunTrial(s)] = [state |-> "LAPSED", tries |-> MaxTries[kind]]
  \/ \E r \in Rep : rep[r] = "RUNNING"

(* Run-next has something to do: a run to settle or to execute, to start,  *)
(* or a part to complete.                                                  *)
CanProceed ==
  IF InFlight # {}
    THEN Settled(Min(InFlight)) \/ RunTrial(Min(InFlight)) \in Claimable
    ELSE \/ Planned(Slot) # {}
         \/ \A s \in Slot : slot[s] \in Over \cup {"ABSENT"}

Complete == {"INITIAL_COMPLETE", "OAT_COMPLETE", "CONTINGENCY_COMPLETE",
             "WARMUP_COMPLETE", "COMPLETED"}

(* Whatever cut a command off, a stage on which nothing else works can go  *)
(* on, or is stuck for one of the known reasons: a running one has a next  *)
(* step, a complete one can be analysed, a series has a next repetition.   *)
StageCanGoOn ==
  ~overlapped /\ Quiet =>
    /\ campaign.status = "RUNNING" /\ block \notin Complete \cup Screen!Final =>
         CanProceed \/ KnownStuck
    /\ block \in Complete =>
         /\ \A s \in Slot : slot[s] \in Over \cup {"ABSENT"}
         /\ kind \in {"reference", "warmup"} /\ ~passedOver =>
              \A s \in Slot : slot[s] # "FAILED"
    /\ validation \in {"PLANNED", "RUNNING"} =>
         (\E r \in Rep : rep[r] = "PLANNED") \/ KnownStuck
=============================================================================
