----------------------- MODULE ConfirmatoryCampaigns -----------------------
(***************************************************************************)
(* The stages with an attempt ledger, each with its own commands, under    *)
(* one operator.  A behaviour is about one stage, chosen in its initial    *)
(* state.                                                                  *)
(***************************************************************************)
EXTENDS AttemptLedger

CONSTANTS Controls, Adaptive, MinTraining

ASSUME ConfirmatoryAssumption ==
  /\ Kind \subseteq {"primary", "wave-b", "phase-b", "f4", "h25"}
  /\ TrialId = AttemptId
  /\ MaxTries = [k \in Kind |-> 1]
  /\ Controls \subseteq Slot /\ Adaptive \subseteq Slot /\ MinTraining \in Nat

F4 == INSTANCE F4Confirmation
Multifidelity == INSTANCE PhaseB
H25 == INSTANCE H25Baseline
Primary == INSTANCE PrimaryWaveB

Init == InitCore /\ InitLedger

Operator == Control /\ UNCHANGED ledgerVars

Leaving(c) ==
  /\ Steer(c, "pause") \/ Steer(c, "stop") \/ Crash(c)
  /\ UNCHANGED ledgerVars

Next ==
  \/ Operator
  \/ H25!DeployChampion
  \/ \E c \in Caller :
       \/ F4!Command(c) \/ Multifidelity!Command(c) \/ H25!Command(c)
       \/ Primary!Command(c) \/ Primary!CommandB(c) \/ Primary!Interruption(c)
       \/ Leaving(c)

Spec == Init /\ [][Next]_attemptVars
-----------------------------------------------------------------------------
Positions ==
  {"idle", "ledger", "reconcile", "exhausted", "start", "select", "train",
   "materialize", "control", "baseline", "canonical", "trial", "attach",
   "run_once", "measure", "settle", "pause", "analyze", "stop", "abandon",
   "discard", "rollback", "interruption"}

(* Every variable has its type, and a command its slot and trial when it   *)
(* needs them.                                                             *)
TypeOK ==
  /\ kind \in Kind
  /\ campaign \in [status: CampaignStatus, emergency: BOOLEAN, failures: Nat]
  /\ block \in BlockStatus
  /\ trial \in [TrialId -> [state: TrialState, tries: 0..MaxTries[kind]]]
  /\ target \in TrialId \cup {Default, H25!Champion}
  /\ caller \in [Caller ->
       [at: Positions, seen: CampaignStatus, block: BlockStatus, open: BOOLEAN,
        slot: Slot \cup {0}, number: 0..MaxAttempts, given: SUBSET Slot,
        trial: TrialId \cup {NoTrial}]]
  /\ overlapped \in BOOLEAN
  /\ slot \in [Slot -> [status: SlotStatus, attempts: 0..MaxAttempts,
                        given: SUBSET Slot]]
  /\ attempt \in [AttemptId -> AttemptStatus]
  /\ \A c \in Caller :
       /\ caller[c].at \in {"train", "materialize", "control", "baseline", "canonical",
                            "trial", "attach", "rollback", "interruption"} =>
            <<caller[c].slot, caller[c].number>> \in AttemptId
       /\ caller[c].at = "measure" => caller[c].trial \in TrialId

(* Slots, attempts and trials tell the same story at every point a command *)
(* can be cut off at, as long as commands do not overlap: earlier attempts *)
(* failed for infrastructure reasons, a slot in flight has exactly one     *)
(* open attempt, the next one, with a trial, and a settled slot has the    *)
(* outcome of its last attempt, which is that of its trial.                *)
Story(s) ==
  LET n == slot[s].attempts IN
  /\ \A m \in 1..MaxAttempts :
       /\ m < n => attempt[<<s, m>>] = "INFRASTRUCTURE_FAILED"
       /\ m > n => attempt[<<s, m>>] =
                     IF m = n + 1 /\ slot[s].status = "CREATED" THEN "CREATED" ELSE "NONE"
       /\ attempt[<<s, m>>] = "CREATED" => trial[<<s, m>>].state # "NONE"
  /\ slot[s].status \in {"PLANNED", "PROPOSED"} => n = 0
  /\ slot[s].status = "CREATED" => n < MaxAttempts
  /\ slot[s].status \in Terminal \cup {"RETRY_PENDING"} =>
       /\ n > 0
       /\ Settled(<<s, n>>)
       /\ attempt[<<s, n>>] = AttemptVerdict(<<s, n>>)
       /\ slot[s].status = SlotVerdict(<<s, n>>)

LedgerAgrees == ~overlapped => \A s \in Slot : Story(s)

(* The physical order of the plan is kept: no trial of a slot exists       *)
(* before every earlier slot has its outcome.                              *)
InOrder ==
  ~overlapped =>
    \A t \in TrialId : trial[t] # Absent =>
      \A s \in Slot : s < t[1] => slot[s].status \in Terminal

(* A block whose observations are complete, or analysed, has an outcome    *)
(* for every slot and none was given up; Phase B is analysed only if every *)
(* slot completed.  This holds however commands overlap.                   *)
CompleteIsMeasured ==
  /\ block \in {"OBSERVATIONS_COMPLETE", "ANALYZED"} =>
       \A s \in Slot : slot[s].status \in Terminal \ {"INFRASTRUCTURE_EXHAUSTED"}
  /\ block = "ANALYZED" /\ kind = "phase-b" => Multifidelity!AllCompleted

(* What a slot was given comes from earlier slots that had completed, and  *)
(* a Phase B candidate that ran was given the control just before it.      *)
CausalInputs ==
  \A s \in Slot :
    /\ \A d \in slot[s].given : d < s /\ slot[d].status = "COMPLETED"
    /\ kind = "phase-b" /\ s \notin Controls /\ slot[s].status \in Terminal =>
         slot[s].given # {}

(* The places a running stage can be stuck in for ever: the process of a   *)
(* one-attempt trial died, a crash or a resume passed over an exhausted    *)
(* slot, or a slot lacks the observations it depends on.                   *)
Dead(k) == trial[k].state \in {"LAPSED", "INTERRUPTED"}
KnownStuck ==
  \/ \E k \in InFlight : Dead(k)
  \/ \E s \in Slot : slot[s].status = "INFRASTRUCTURE_EXHAUSTED"
  \/ kind \in {"primary", "wave-b"} /\ \E s \in Runnable({"PLANNED"}) :
       Cardinality(Primary!Training(s)) < MinTraining
  \/ kind = "phase-b" /\ \E s \in Slot \ Controls :
       slot[s].status \notin Terminal /\ \A d \in Controls : d < s =>
         slot[d].status \in Terminal \ {"COMPLETED"}

(* What the execution of a slot begins with will not raise: an adaptive    *)
(* slot has its training observations, a candidate a completed control,    *)
(* and the one it was given at an earlier attempt is still the last.       *)
HasInputs(s) ==
  LET controls == {d \in Controls : d < s /\ slot[d].status = "COMPLETED"} IN
  /\ slot[s].status = "PLANNED" => Cardinality(Primary!Training(s)) >= MinTraining
  /\ kind = "phase-b" /\ s \notin Controls =>
       controls # {} /\ slot[s].given \in {{}, {Max(controls)}}

(* Run-next has something to do: settle or execute the trial in flight,    *)
(* start the lowest slot that can run, or complete the block.              *)
CanProceed ==
  LET ready == Runnable(Executable \cup {"PLANNED"}) IN
  \/ \E k \in InFlight : Settled(k) \/ k \in Claimable
  \/ InFlight = {} /\ \E s \in ready : HasInputs(s) /\ \A d \in ready : s <= d
  \/ \A s \in Slot : slot[s].status \in Terminal \ {"INFRASTRUCTURE_EXHAUSTED"}

(* What the analysis asks of a complete block.                             *)
Analysable ==
  CASE kind = "f4" -> F4!Evidence
    [] kind = "h25" -> H25!Evidence
    [] kind = "phase-b" -> Multifidelity!Evidence
    [] OTHER -> TRUE

(* Whatever cut a command off, a running stage on which nothing else works *)
(* can go on or is stuck for one of the known reasons, and a complete one  *)
(* can be analysed, unless a slot of Phase B failed.                       *)
NeverWedged ==
  ~overlapped /\ Quiet =>
    /\ campaign.status = "RUNNING" /\ block \in {"PLANNED", "RUNNING"} =>
         CanProceed \/ KnownStuck
    /\ block = "OBSERVATIONS_COMPLETE" =>
         \/ Analysable
         \/ kind = "phase-b" /\ ~Multifidelity!AllCompleted

(* An outcome, once filed, is never replaced, however commands overlap;    *)
(* only a new H25 block starts over.                                       *)
OutcomesAreFinal ==
  [][block \notin {"NONE", "FAILED"} =>
       /\ \A s \in Slot : slot[s].status \in Terminal => slot'[s] = slot[s]
       /\ \A k \in AttemptId : attempt[k] \notin {"NONE", "CREATED"} =>
            attempt'[k] = attempt[k]]_attemptVars
=============================================================================
