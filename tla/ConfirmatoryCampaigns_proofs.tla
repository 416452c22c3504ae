-------------------- MODULE ConfirmatoryCampaigns_proofs --------------------
(***************************************************************************)
(* Proofs about the stages with an attempt ledger, for every number of     *)
(* callers and slots, every choice of controls and adaptive slots, and     *)
(* whichever stages may be worked on by several commands at once.  First   *)
(* what holds however commands overlap and wherever they are cut off; then *)
(* what a stage keeps while they do not overlap: its slots, attempts and   *)
(* trials agree, it runs its slots in the order of the plan, and it can    *)
(* always go on.                                                           *)
(***************************************************************************)
EXTENDS ConfirmatoryCampaigns, Integers, WellFoundedInduction,
        FiniteSetTheorems, TLAPS

-----------------------------------------------------------------------------
(* Least and greatest elements.                                            *)

(* A set of naturals has a least element.                                  *)
LEMMA NatMin ==
  ASSUME NEW S \in SUBSET Nat, S # {}
  PROVE  \E x \in S : \A y \in S : x <= y
<1>. DEFINE R == {p \in Nat \X Nat : p[1] < p[2]}
<1>1. IsWellFoundedOn(R, Nat)
  BY NatLessThanWellFounded, Zenon DEF OpToRel
<1>2. \E x \in S : \A y \in S : ~ (<<y, x>> \in R)
  <2>. HIDE DEF R
  <2>. QED BY <1>1, WFMin, Zenon
<1>3. \A x, y \in Nat : y < x => <<y, x>> \in R
  OBVIOUS
<1>. HIDE DEF R
<1>4. PICK x \in S : \A y \in S : ~ (<<y, x>> \in R)
  BY <1>2
<1>5. ASSUME NEW y \in S PROVE x <= y
  <2>1. ~ (y < x)
    BY <1>3, <1>4
  <2>. QED BY <2>1
<1>. QED BY <1>5

(* Numbers up to n have a greatest one.                                    *)
LEMMA RangeMax ==
  ASSUME NEW n \in Nat, NEW S \in SUBSET (1 .. n), S # {}
  PROVE  \E x \in S : \A y \in S : x >= y
<1>. DEFINE T == {k \in Nat : n - k \in S}
<1>1. T \in SUBSET Nat /\ T # {}
  <2>1. PICK x \in S : TRUE
    OBVIOUS
  <2>2. n - x \in T
    OBVIOUS
  <2>. QED BY <2>2
<1>2. PICK m \in T : \A y \in T : m <= y
  BY <1>1, NatMin
<1>3. \A y \in S : n - y \in T
  OBVIOUS
<1>4. n - m \in S
  OBVIOUS
<1>. QED BY <1>2, <1>3, <1>4

(* The slot a command selects is one of those it may select, and no such   *)
(* slot comes before it.                                                   *)
LEMMA FirstSlot ==
  ASSUME NEW S \in SUBSET Slot, S # {}
  PROVE  Min(S) \in S /\ \A s \in S : Min(S) <= s
<1>1. \E x \in S : \A y \in S : x <= y
  BY NatMin DEF Slot
<1>. QED BY <1>1 DEF Min

(* The attempt a reconciliation looks at is one of those in flight.        *)
LEMMA CurrentInFlight ==
  ASSUME InFlight # {}
  PROVE  Current \in InFlight
<1>. DEFINE S == {k[1] : k \in InFlight}
<1>1. S \in SUBSET Nat /\ S # {}
  BY DEF InFlight, AttemptId, Slot
<1>2. PICK x \in S : \A y \in S : x <= y
  BY <1>1, NatMin
<1>3. \E k \in InFlight : \A j \in InFlight : k[1] <= j[1]
  BY <1>2
<1>. QED BY <1>3 DEF Current
-----------------------------------------------------------------------------
(***************************************************************************)
(* The five stages take the same steps, in their own order.  CommandStep   *)
(* says once what a command of any stage may do next; the lemmas after it  *)
(* show that each stage's module does nothing else.                        *)
(***************************************************************************)
Adapts == kind \in {"primary", "wave-b"}
RowsVars == <<kind, campaign, block, trial, target, ledgerVars>>

Create(c) ==
  CreateCampaign(c, block = "NONE" \/ (block = "FAILED" /\ kind = "h25"))

Insert(c) ==
  InsertLedger(c, [s \in Slot |->
    IF Adapts /\ s \in Adaptive THEN "PLANNED" ELSE "PROPOSED"])

StartRun(c) == Begin(c, "reconcile") /\ UNCHANGED RowsVars

(* The statuses a stage may start a slot from, and what its execution      *)
(* begins with.                                                            *)
Startable == Executable \cup IF Adapts THEN {"PLANNED"} ELSE {}

FirstStep ==
  [s \in Slot |->
     CASE Adapts -> IF slot[s].status = "PLANNED" THEN "train" ELSE "trial"
       [] kind = "phase-b" -> IF s \in Controls THEN "trial" ELSE "control"
       [] kind = "h25" -> "canonical"
       [] OTHER -> "trial"]

SelectSlot(c) == Choose(c, Startable, FirstStep) \/ Finish(c, Startable)

Completed(s) == {d \in Slot : d < s /\ slot[d].status = "COMPLETED"}
Latest(S) == {d \in S : \A e \in S : d >= e}

Train(c) ==
  /\ Adapts
  /\ \E enough \in BOOLEAN :
       Gather(c, "train", Completed(caller[c].slot), enough, "materialize")

Materialize(c) ==
  LET s == caller[c].slot IN
  /\ Adapts
  /\ caller[c].at = "materialize"
  /\ IF slot[s].status = "PLANNED"
       THEN /\ slot' = [slot EXCEPT ![s].status = "PROPOSED", ![s].given = caller[c].given]
            /\ caller' = [caller EXCEPT ![c].at = "trial", ![c].given = {}]
       ELSE UNCHANGED slot /\ Leave(c)
  /\ UNCHANGED <<kind, campaign, block, trial, target, overlapped, attempt>>

ReadControl(c) ==
  LET controls == Completed(caller[c].slot) \cap Controls IN
  /\ kind = "phase-b"
  /\ Gather(c, "control", Latest(controls), controls # {}, "baseline")

RecordBaseline(c) ==
  LET s == caller[c].slot IN
  /\ kind = "phase-b"
  /\ caller[c].at = "baseline"
  /\ IF slot[s].status \in Executable /\ slot[s].given \in {{}, caller[c].given}
       THEN /\ slot' = [slot EXCEPT ![s].given = caller[c].given]
            /\ caller' = [caller EXCEPT ![c].at = "trial", ![c].given = {}]
       ELSE UNCHANGED slot /\ Leave(c)
  /\ UNCHANGED <<kind, campaign, block, trial, target, overlapped, attempt>>

CheckTarget(c) ==
  /\ kind = "h25"
  /\ caller[c].at = "canonical"
  /\ Proceed(c, "trial") \/ Leave(c)
  /\ UNCHANGED <<kind, campaign, block, trial, target, overlapped, ledgerVars>>

StartTrial(c) ==
  /\ caller[c].at = "trial"
  /\ CreateTrial(c, <<caller[c].slot, caller[c].number>>, "attach")
  /\ UNCHANGED ledgerVars

RunTrial(c) == Worker(c, "settle") /\ UNCHANGED ledgerVars

(* Only the runner of the primary waves asks again whether the slot is     *)
(* exhausted.                                                              *)
Settle(c) ==
  /\ caller[c].at = "settle"
  /\ ReconcileAttempt
  /\ \/ Leave(c)
     \/ Adapts /\ caller' = [caller EXCEPT ![c] = [Idle EXCEPT !.at = "exhausted"]]
  /\ UNCHANGED <<kind, campaign, block, trial, target, overlapped>>

Remediate(c) ==
  /\ kind = "phase-b" /\ block = "RUNNING"
  /\ Enter(c, [Idle EXCEPT !.at = "settle"])
  /\ UNCHANGED RowsVars

BeginAbandon(c) ==
  /\ kind = "h25" /\ block \notin {"NONE", "FAILED", "ANALYZED"}
  /\ Enter(c, [Idle EXCEPT !.at = "abandon", !.block = block])
  /\ UNCHANGED RowsVars

AbandonReconcile(c) ==
  /\ kind = "h25"
  /\ caller[c].at = "abandon"
  /\ ReconcileAttempt
  /\ Leave(c) \/ Proceed(c, "discard")
  /\ UNCHANGED <<kind, campaign, block, trial, target, overlapped>>

Discard(c) ==
  /\ kind = "h25"
  /\ caller[c].at = "discard"
  /\ \/ /\ block' = "FAILED"
        /\ caller' = [caller EXCEPT ![c] = [Idle EXCEPT !.at = "stop"]]
     \/ UNCHANGED block /\ Leave(c)
  /\ UNCHANGED <<kind, campaign, trial, target, overlapped, ledgerVars>>

Load(c) == LoadRows(c, kind = "phase-b" => Multifidelity!AllCompleted)

PowerLoss(c) ==
  LET t == caller[c].trial IN
  /\ kind = "wave-b"
  /\ caller[c].at = "measure"
  /\ trial[t].state = "RUNNING"
  /\ trial' = [trial EXCEPT ![t].state = "INTERRUPTED"]
  /\ target' = t
  /\ Leave(c)
  /\ UNCHANGED <<kind, campaign, block, overlapped, ledgerVars>>

StartInterruption(c) ==
  /\ kind = "wave-b" /\ block = "RUNNING"
  /\ \E k \in AttemptId :
       /\ k[2] < MaxAttempts
       /\ Enter(c, [Idle EXCEPT !.at = "rollback", !.slot = k[1], !.number = k[2]])
  /\ UNCHANGED RowsVars

RollbackInterrupted(c) ==
  /\ kind = "wave-b"
  /\ caller[c].at = "rollback"
  /\ target' = Default
  /\ Proceed(c, "interruption")
  /\ UNCHANGED <<kind, campaign, block, trial, overlapped, ledgerVars>>

FileInterruption(c) ==
  LET k == <<caller[c].slot, caller[c].number>> IN
  /\ kind = "wave-b"
  /\ caller[c].at = "interruption"
  /\ \/ /\ slot[k[1]].status = "CREATED" /\ attempt[k] = "CREATED"
        /\ trial[k].state = "INTERRUPTED"
        /\ trial' = [trial EXCEPT ![k].state = "INFRA"]
        /\ attempt' = [attempt EXCEPT ![k] = "INFRASTRUCTURE_FAILED"]
        /\ slot' = [slot EXCEPT ![k[1]].status = "RETRY_PENDING",
                                ![k[1]].attempts = k[2]]
        /\ campaign' = [campaign EXCEPT !.failures = @ + 1]
     \/ UNCHANGED <<trial, campaign, ledgerVars>>
  /\ Leave(c)
  /\ UNCHANGED <<kind, block, target, overlapped>>

CommandStep(c) ==
  \/ Create(c) \/ Insert(c)
  \/ StartRun(c) \/ ReconcileFirst(c) \/ PauseBlock(c) \/ StartBlock(c)
  \/ SelectSlot(c) \/ Train(c) \/ Materialize(c) \/ ReadControl(c)
  \/ RecordBaseline(c) \/ CheckTarget(c)
  \/ StartTrial(c) \/ Attach(c) \/ RunTrial(c) \/ Settle(c) \/ Remediate(c)
  \/ BeginAbandon(c) \/ AbandonReconcile(c) \/ Discard(c)
  \/ Load(c) \/ CommitAnalysis(c)
  \/ PowerLoss(c) \/ StartInterruption(c) \/ RollbackInterrupted(c)
  \/ FileInterruption(c)

Deploy ==
  /\ target' \in {Default, H25!Champion}
  /\ UNCHANGED <<kind, campaign, block, trial, caller, overlapped, ledgerVars>>

(* The F4 confirmation takes no other step.                                *)
LEMMA F4Steps ==
  ASSUME NEW c \in Caller, F4!Command(c)
  PROVE  CommandStep(c)
<1>0. kind = "f4"
  BY DEF F4!Command, F4!Active
<1>. USE DEF RowsVars
<1>1. CASE F4!CreateCampaign(c, F4!Ready)
  <2>1. Create(c)
    BY <1>0, <1>1 DEF Busy, Create, CreateCampaign, Default, F4!Busy,
     F4!CreateCampaign, F4!Default, F4!Idle, F4!Leave, F4!NoTrial, F4!Open,
     F4!OpenCampaign, F4!Proceed, F4!Quiet, F4!Ready, F4!ledgerVars, Idle,
     Leave, NoTrial, Open, OpenCampaign, Proceed, Quiet, ledgerVars
  <2>. QED BY <2>1 DEF CommandStep
<1>2. CASE F4!InsertPlan(c)
  <2>1. Insert(c)
    BY <1>0, <1>2 DEF Absent, Adapts, AttemptId, Busy, F4!Absent,
     F4!AttemptId, F4!Busy, F4!Idle, F4!InsertLedger, F4!InsertPlan,
     F4!Leave, F4!MaxAttempts, F4!NewSlot, F4!NoTrial, F4!Proceed, F4!Quiet,
     F4!Slot, F4!ledgerVars, Idle, Insert, InsertLedger, Leave, MaxAttempts,
     NewSlot, NoTrial, Proceed, Quiet, Slot, ledgerVars
  <2>. QED BY <2>1 DEF CommandStep
<1>3. CASE F4!RunNext(c)
  <2>1. StartRun(c)
    BY <1>0, <1>3 DEF Begin, Busy, Enter, F4!Begin, F4!Busy, F4!Enter,
     F4!Idle, F4!Leave, F4!NoTrial, F4!Proceed, F4!Quiet, F4!RunNext,
     F4!ledgerVars, Idle, Leave, NoTrial, Proceed, Quiet, StartRun,
     ledgerVars
  <2>. QED BY <2>1 DEF CommandStep
<1>4. CASE F4!ReconcileFirst(c)
  <2>1. ReconcileFirst(c)
    BY <1>0, <1>4 DEF AttemptId, AttemptVerdict, Busy, Current, Ended,
     Exhausts, F4!AttemptId, F4!AttemptVerdict, F4!Busy, F4!Current,
     F4!Ended, F4!Exhausts, F4!GateOpen, F4!Idle, F4!InFlight, F4!Leave,
     F4!MaxAttempts, F4!NoTrial, F4!Proceed, F4!Quiet, F4!ReconcileAttempt,
     F4!ReconcileFirst, F4!Settled, F4!Slot, F4!SlotVerdict, F4!ledgerVars,
     GateOpen, Idle, InFlight, Leave, MaxAttempts, NoTrial, Proceed, Quiet,
     ReconcileAttempt, ReconcileFirst, Settled, Slot, SlotVerdict,
     ledgerVars
  <2>. QED BY <2>1 DEF CommandStep
<1>5. CASE F4!PauseBlock(c)
  <2>1. PauseBlock(c)
    BY <1>0, <1>5 DEF Busy, F4!Busy, F4!Idle, F4!Leave, F4!NoTrial,
     F4!PauseBlock, F4!Proceed, F4!Quiet, F4!ledgerVars, Idle, Leave,
     NoTrial, PauseBlock, Proceed, Quiet, ledgerVars
  <2>. QED BY <2>1 DEF CommandStep
<1>6. CASE F4!StartBlock(c)
  <2>1. StartBlock(c)
    BY <1>0, <1>6 DEF Busy, F4!Busy, F4!Idle, F4!Leave, F4!NoTrial,
     F4!Proceed, F4!Quiet, F4!StartBlock, F4!ledgerVars, Idle, Leave,
     NoTrial, Proceed, Quiet, StartBlock, ledgerVars
  <2>. QED BY <2>1 DEF CommandStep
<1>7. CASE F4!SelectSlot(c)
  <2>1. SelectSlot(c)
    BY <1>0, <1>7 DEF Adapts, Busy, Choose, Executable, F4!Busy, F4!Choose,
     F4!Executable, F4!Finish, F4!Idle, F4!Leave, F4!Min, F4!NoTrial,
     F4!Proceed, F4!Quiet, F4!Runnable, F4!SelectSlot, F4!Slot, F4!Terminal,
     F4!ledgerVars, Finish, FirstStep, Idle, Leave, Min, NoTrial, Proceed,
     Quiet, Runnable, SelectSlot, Slot, Startable, Terminal, ledgerVars
  <2>. QED BY <2>1 DEF CommandStep
<1>8. CASE /\ caller[c].at = "trial"
             /\ F4!CreateTrial(c, <<caller[c].slot, caller[c].number>>, "attach")
             /\ UNCHANGED F4!ledgerVars
  <2>1. StartTrial(c)
    BY <1>0, <1>8 DEF Absent, AcceptsTrials, Busy, CreateTrial, F4!Absent,
     F4!AcceptsTrials, F4!Busy, F4!CreateTrial, F4!Idle, F4!Leave,
     F4!NoTrial, F4!Open, F4!Proceed, F4!Quiet, F4!ledgerVars, Idle, Leave,
     NoTrial, Open, Proceed, Quiet, StartTrial, ledgerVars
  <2>. QED BY <2>1 DEF CommandStep
<1>9. CASE F4!Attach(c)
  <2>1. Attach(c)
    BY <1>0, <1>9 DEF Attach, Busy, Executable, F4!Attach, F4!Busy,
     F4!Executable, F4!Idle, F4!Leave, F4!NoTrial, F4!Proceed, F4!Quiet,
     F4!ledgerVars, Idle, Leave, NoTrial, Proceed, Quiet, ledgerVars
  <2>. QED BY <2>1 DEF CommandStep
<1>10. CASE F4!Worker(c, "settle") /\ UNCHANGED F4!ledgerVars
  <2>1. RunTrial(c)
    BY <1>0, <1>10 DEF AttemptFails, Busy, Claimable, Default,
     F4!AttemptFails, F4!Busy, F4!Claimable, F4!Default, F4!Idle,
     F4!LeaseLost, F4!Leave, F4!Measured, F4!NoTrial, F4!Proceed, F4!Quiet,
     F4!RunOnce, F4!Worker, F4!ledgerVars, Idle, LeaseLost, Leave, Measured,
     NoTrial, Proceed, Quiet, RunOnce, RunTrial, Worker, ledgerVars
  <2>. QED BY <2>1 DEF CommandStep
<1>11. CASE F4!ReconcileLast(c)
  <2>1. Settle(c)
    BY <1>0, <1>11 DEF Adapts, AttemptId, AttemptVerdict, Busy, Current,
     Ended, F4!AttemptId, F4!AttemptVerdict, F4!Busy, F4!Current, F4!Ended,
     F4!Exhausts, F4!Idle, F4!InFlight, F4!Leave, F4!MaxAttempts,
     F4!NoTrial, F4!Proceed, F4!Quiet, F4!ReconcileAttempt,
     F4!ReconcileLast, F4!Settled, F4!Slot, F4!SlotVerdict, F4!ledgerVars,
     Idle, InFlight, Leave, MaxAttempts, NoTrial, Proceed, Quiet,
     ReconcileAttempt, Settle, Settled, Slot, SlotVerdict, ledgerVars
  <2>. QED BY <2>1 DEF CommandStep
<1>12. CASE F4!LoadRows(c, F4!Evidence)
  <2>1. Load(c)
    BY <1>0, <1>12 DEF Busy, Enter, F4!Busy, F4!Enter, F4!Idle, F4!Leave,
     F4!LoadRows, F4!NoTrial, F4!Proceed, F4!Quiet, F4!ledgerVars, Idle,
     Leave, Load, LoadRows, NoTrial, Proceed, Quiet, ledgerVars
  <2>. QED BY <2>1 DEF CommandStep
<1>13. CASE F4!CommitAnalysis(c)
  <2>1. CommitAnalysis(c)
    BY <1>0, <1>13 DEF Busy, CommitAnalysis, F4!Busy, F4!CommitAnalysis,
     F4!Idle, F4!Leave, F4!NoTrial, F4!Proceed, F4!Quiet, F4!ledgerVars,
     Idle, Leave, NoTrial, Proceed, Quiet, ledgerVars
  <2>. QED BY <2>1 DEF CommandStep
<1>. QED BY <1>1, <1>2, <1>3, <1>4, <1>5, <1>6, <1>7, <1>8, <1>9, <1>10, <1>11, <1>12, <1>13
         DEF F4!Command, F4!Reconcile, F4!ExecuteSlot, F4!Analyze

(* Neither does Phase B.                                                   *)
LEMMA PhaseBSteps ==
  ASSUME NEW c \in Caller, Multifidelity!Command(c)
  PROVE  CommandStep(c)
<1>0. kind = "phase-b"
  BY DEF Multifidelity!Command, Multifidelity!Active
<1>. USE DEF RowsVars
<1>1. CASE Multifidelity!CreateCampaign(c, Multifidelity!Ready)
  <2>1. Create(c)
    BY <1>0, <1>1 DEF Busy, Create, CreateCampaign, Default, Idle, Leave,
     Multifidelity!Busy, Multifidelity!CreateCampaign,
     Multifidelity!Default, Multifidelity!Idle, Multifidelity!Leave,
     Multifidelity!NoTrial, Multifidelity!Open, Multifidelity!OpenCampaign,
     Multifidelity!Proceed, Multifidelity!Quiet, Multifidelity!Ready,
     Multifidelity!ledgerVars, NoTrial, Open, OpenCampaign, Proceed, Quiet,
     ledgerVars
  <2>. QED BY <2>1 DEF CommandStep
<1>2. CASE Multifidelity!InsertPlan(c)
  <2>1. Insert(c)
    BY <1>0, <1>2 DEF Absent, Adapts, AttemptId, Busy, Idle, Insert,
     InsertLedger, Leave, MaxAttempts, Multifidelity!Absent,
     Multifidelity!AttemptId, Multifidelity!Busy, Multifidelity!Idle,
     Multifidelity!InsertLedger, Multifidelity!InsertPlan,
     Multifidelity!Leave, Multifidelity!MaxAttempts, Multifidelity!NewSlot,
     Multifidelity!NoTrial, Multifidelity!Proceed, Multifidelity!Quiet,
     Multifidelity!Slot, Multifidelity!ledgerVars, NewSlot, NoTrial,
     Proceed, Quiet, Slot, ledgerVars
  <2>. QED BY <2>1 DEF CommandStep
<1>3. CASE Multifidelity!RunNext(c)
  <2>1. StartRun(c)
    BY <1>0, <1>3 DEF Begin, Busy, Enter, Idle, Leave, Multifidelity!Begin,
     Multifidelity!Busy, Multifidelity!Enter, Multifidelity!Idle,
     Multifidelity!Leave, Multifidelity!NoTrial, Multifidelity!Proceed,
     Multifidelity!Quiet, Multifidelity!RunNext, Multifidelity!ledgerVars,
     NoTrial, Proceed, Quiet, StartRun, ledgerVars
  <2>. QED BY <2>1 DEF CommandStep
<1>4. CASE Multifidelity!ReconcileFirst(c)
  <2>1. ReconcileFirst(c)
    BY <1>0, <1>4 DEF AttemptId, AttemptVerdict, Busy, Current, Ended,
     Exhausts, GateOpen, Idle, InFlight, Leave, MaxAttempts,
     Multifidelity!AttemptId, Multifidelity!AttemptVerdict,
     Multifidelity!Busy, Multifidelity!Current, Multifidelity!Ended,
     Multifidelity!Exhausts, Multifidelity!GateOpen, Multifidelity!Idle,
     Multifidelity!InFlight, Multifidelity!Leave, Multifidelity!MaxAttempts,
     Multifidelity!NoTrial, Multifidelity!Proceed, Multifidelity!Quiet,
     Multifidelity!ReconcileAttempt, Multifidelity!ReconcileFirst,
     Multifidelity!Settled, Multifidelity!Slot, Multifidelity!SlotVerdict,
     Multifidelity!ledgerVars, NoTrial, Proceed, Quiet, ReconcileAttempt,
     ReconcileFirst, Settled, Slot, SlotVerdict, ledgerVars
  <2>. QED BY <2>1 DEF CommandStep
<1>5. CASE Multifidelity!PauseBlock(c)
  <2>1. PauseBlock(c)
    BY <1>0, <1>5 DEF Busy, Idle, Leave, Multifidelity!Busy,
     Multifidelity!Idle, Multifidelity!Leave, Multifidelity!NoTrial,
     Multifidelity!PauseBlock, Multifidelity!Proceed, Multifidelity!Quiet,
     Multifidelity!ledgerVars, NoTrial, PauseBlock, Proceed, Quiet,
     ledgerVars
  <2>. QED BY <2>1 DEF CommandStep
<1>6. CASE Multifidelity!StartBlock(c)
  <2>1. StartBlock(c)
    BY <1>0, <1>6 DEF Busy, Idle, Leave, Multifidelity!Busy,
     Multifidelity!Idle, Multifidelity!Leave, Multifidelity!NoTrial,
     Multifidelity!Proceed, Multifidelity!Quiet, Multifidelity!StartBlock,
     Multifidelity!ledgerVars, NoTrial, Proceed, Quiet, StartBlock,
     ledgerVars
  <2>. QED BY <2>1 DEF CommandStep
<1>7. CASE Multifidelity!SelectSlot(c)
  <2>1. SelectSlot(c)
    BY <1>0, <1>7 DEF Adapts, Busy, Choose, Executable, Finish, FirstStep,
     Idle, Leave, Min, Multifidelity!Busy, Multifidelity!Choose,
     Multifidelity!Executable, Multifidelity!Finish, Multifidelity!Idle,
     Multifidelity!Leave, Multifidelity!Min, Multifidelity!NoTrial,
     Multifidelity!Proceed, Multifidelity!Quiet, Multifidelity!Runnable,
     Multifidelity!SelectSlot, Multifidelity!Slot, Multifidelity!Terminal,
     Multifidelity!ledgerVars, NoTrial, Proceed, Quiet, Runnable,
     SelectSlot, Slot, Startable, Terminal, ledgerVars
  <2>. QED BY <2>1 DEF CommandStep
<1>8. CASE Multifidelity!PrecedingControl(c)
  <2>. DEFINE controls == Completed(caller[c].slot) \cap Controls
  <2>1. {d \in Controls : d < caller[c].slot /\ slot[d].status = "COMPLETED"}
          = controls
    BY ConfirmatoryAssumption DEF Completed
  <2>2. Latest(controls) = {d \in controls : \A e \in controls : d >= e}
    BY DEF Latest
  <2>3. /\ caller[c].at = "control"
        /\ caller' = [caller EXCEPT ![c] =
             IF controls # {}
               THEN [@ EXCEPT !.at = "baseline", !.given = Latest(controls)]
               ELSE Idle]
        /\ UNCHANGED <<kind, campaign, block, trial, target, overlapped, ledgerVars>>
    <3>. HIDE DEF controls
    <3>. QED BY <1>8, <2>1, <2>2 DEF Multifidelity!PrecedingControl,
         Multifidelity!Gather, Multifidelity!Idle, Idle, Multifidelity!NoTrial,
         NoTrial, Multifidelity!ledgerVars, ledgerVars
  <2>4. ReadControl(c)
    BY <1>0, <2>3 DEF ReadControl, Gather
  <2>. QED BY <2>4 DEF CommandStep
<1>9. CASE Multifidelity!RecordBaseline(c)
  <2>1. RecordBaseline(c)
    BY <1>0, <1>9 DEF Busy, Executable, Idle, Leave, Multifidelity!Busy,
     Multifidelity!Executable, Multifidelity!Idle, Multifidelity!Leave,
     Multifidelity!NoTrial, Multifidelity!Proceed, Multifidelity!Quiet,
     Multifidelity!RecordBaseline, Multifidelity!ledgerVars, NoTrial,
     Proceed, Quiet, RecordBaseline, ledgerVars
  <2>. QED BY <2>1 DEF CommandStep
<1>10. CASE Multifidelity!RemediateFixture(c)
  <2>1. Remediate(c)
    BY <1>0, <1>10 DEF Busy, Enter, Idle, Leave, Multifidelity!Busy,
     Multifidelity!Enter, Multifidelity!Idle, Multifidelity!Leave,
     Multifidelity!NoTrial, Multifidelity!Proceed, Multifidelity!Quiet,
     Multifidelity!RemediateFixture, Multifidelity!ledgerVars, NoTrial,
     Proceed, Quiet, Remediate, ledgerVars
  <2>. QED BY <2>1 DEF CommandStep
<1>11. CASE /\ caller[c].at = "trial"
             /\ Multifidelity!CreateTrial(c, <<caller[c].slot, caller[c].number>>, "attach")
             /\ UNCHANGED Multifidelity!ledgerVars
  <2>1. StartTrial(c)
    BY <1>0, <1>11 DEF Absent, AcceptsTrials, Busy, CreateTrial, Idle,
     Leave, Multifidelity!Absent, Multifidelity!AcceptsTrials,
     Multifidelity!Busy, Multifidelity!CreateTrial, Multifidelity!Idle,
     Multifidelity!Leave, Multifidelity!NoTrial, Multifidelity!Open,
     Multifidelity!Proceed, Multifidelity!Quiet, Multifidelity!ledgerVars,
     NoTrial, Open, Proceed, Quiet, StartTrial, ledgerVars
  <2>. QED BY <2>1 DEF CommandStep
<1>12. CASE Multifidelity!Attach(c)
  <2>1. Attach(c)
    BY <1>0, <1>12 DEF Attach, Busy, Executable, Idle, Leave,
     Multifidelity!Attach, Multifidelity!Busy, Multifidelity!Executable,
     Multifidelity!Idle, Multifidelity!Leave, Multifidelity!NoTrial,
     Multifidelity!Proceed, Multifidelity!Quiet, Multifidelity!ledgerVars,
     NoTrial, Proceed, Quiet, ledgerVars
  <2>. QED BY <2>1 DEF CommandStep
<1>13. CASE Multifidelity!Worker(c, "settle") /\ UNCHANGED Multifidelity!ledgerVars
  <2>1. RunTrial(c)
    BY <1>0, <1>13 DEF AttemptFails, Busy, Claimable, Default, Idle,
     LeaseLost, Leave, Measured, Multifidelity!AttemptFails,
     Multifidelity!Busy, Multifidelity!Claimable, Multifidelity!Default,
     Multifidelity!Idle, Multifidelity!LeaseLost, Multifidelity!Leave,
     Multifidelity!Measured, Multifidelity!NoTrial, Multifidelity!Proceed,
     Multifidelity!Quiet, Multifidelity!RunOnce, Multifidelity!Worker,
     Multifidelity!ledgerVars, NoTrial, Proceed, Quiet, RunOnce, RunTrial,
     Worker, ledgerVars
  <2>. QED BY <2>1 DEF CommandStep
<1>14. CASE Multifidelity!ReconcileLast(c)
  <2>1. Settle(c)
    BY <1>0, <1>14 DEF Adapts, AttemptId, AttemptVerdict, Busy, Current,
     Ended, Idle, InFlight, Leave, MaxAttempts, Multifidelity!AttemptId,
     Multifidelity!AttemptVerdict, Multifidelity!Busy,
     Multifidelity!Current, Multifidelity!Ended, Multifidelity!Exhausts,
     Multifidelity!Idle, Multifidelity!InFlight, Multifidelity!Leave,
     Multifidelity!MaxAttempts, Multifidelity!NoTrial,
     Multifidelity!Proceed, Multifidelity!Quiet,
     Multifidelity!ReconcileAttempt, Multifidelity!ReconcileLast,
     Multifidelity!Settled, Multifidelity!Slot, Multifidelity!SlotVerdict,
     Multifidelity!ledgerVars, NoTrial, Proceed, Quiet, ReconcileAttempt,
     Settle, Settled, Slot, SlotVerdict, ledgerVars
  <2>. QED BY <2>1 DEF CommandStep
<1>15. CASE Multifidelity!LoadRows(c, Multifidelity!Evidence)
  <2>1. Load(c)
    BY <1>0, <1>15 DEF Busy, Enter, Idle, Leave, Load, LoadRows,
     Multifidelity!Busy, Multifidelity!Enter, Multifidelity!Evidence,
     Multifidelity!Idle, Multifidelity!Leave, Multifidelity!LoadRows,
     Multifidelity!NoTrial, Multifidelity!Proceed, Multifidelity!Quiet,
     Multifidelity!ledgerVars, NoTrial, Proceed, Quiet, ledgerVars
  <2>. QED BY <2>1 DEF CommandStep
<1>16. CASE Multifidelity!CommitAnalysis(c)
  <2>1. CommitAnalysis(c)
    BY <1>0, <1>16 DEF Busy, CommitAnalysis, Idle, Leave,
     Multifidelity!Busy, Multifidelity!CommitAnalysis, Multifidelity!Idle,
     Multifidelity!Leave, Multifidelity!NoTrial, Multifidelity!Proceed,
     Multifidelity!Quiet, Multifidelity!ledgerVars, NoTrial, Proceed, Quiet,
     ledgerVars
  <2>. QED BY <2>1 DEF CommandStep
<1>. QED BY <1>1, <1>2, <1>3, <1>4, <1>5, <1>6, <1>7, <1>8, <1>9, <1>10, <1>11, <1>12, <1>13, <1>14, <1>15, <1>16
         DEF Multifidelity!Command, Multifidelity!Reconcile, Multifidelity!ExecuteSlot, Multifidelity!Analyze

(* Neither does the H25 baseline.                                          *)
LEMMA H25Steps ==
  ASSUME NEW c \in Caller, H25!Command(c)
  PROVE  CommandStep(c)
<1>0. kind = "h25"
  BY DEF H25!Command, H25!Active
<1>. USE DEF RowsVars
<1>1. CASE H25!CreateCampaign(c, H25!Ready)
  <2>1. Create(c)
    BY <1>0, <1>1 DEF Busy, Create, CreateCampaign, Default, H25!Busy,
     H25!CreateCampaign, H25!Default, H25!Idle, H25!Leave, H25!NoTrial,
     H25!Open, H25!OpenCampaign, H25!Proceed, H25!Quiet, H25!Ready,
     H25!ledgerVars, Idle, Leave, NoTrial, Open, OpenCampaign, Proceed,
     Quiet, ledgerVars
  <2>. QED BY <2>1 DEF CommandStep
<1>2. CASE H25!InsertPlan(c)
  <2>1. Insert(c)
    BY <1>0, <1>2 DEF Absent, Adapts, AttemptId, Busy, H25!Absent,
     H25!AttemptId, H25!Busy, H25!Idle, H25!InsertLedger, H25!InsertPlan,
     H25!Leave, H25!MaxAttempts, H25!NewSlot, H25!NoTrial, H25!Proceed,
     H25!Quiet, H25!Slot, H25!ledgerVars, Idle, Insert, InsertLedger, Leave,
     MaxAttempts, NewSlot, NoTrial, Proceed, Quiet, Slot, ledgerVars
  <2>. QED BY <2>1 DEF CommandStep
<1>3. CASE H25!RunNext(c)
  <2>1. StartRun(c)
    BY <1>0, <1>3 DEF Begin, Busy, Enter, H25!Begin, H25!Busy, H25!Enter,
     H25!Idle, H25!Leave, H25!NoTrial, H25!Proceed, H25!Quiet, H25!RunNext,
     H25!ledgerVars, Idle, Leave, NoTrial, Proceed, Quiet, StartRun,
     ledgerVars
  <2>. QED BY <2>1 DEF CommandStep
<1>4. CASE H25!ReconcileFirst(c)
  <2>1. ReconcileFirst(c)
    BY <1>0, <1>4 DEF AttemptId, AttemptVerdict, Busy, Current, Ended,
     Exhausts, GateOpen, H25!AttemptId, H25!AttemptVerdict, H25!Busy,
     H25!Current, H25!Ended, H25!Exhausts, H25!GateOpen, H25!Idle,
     H25!InFlight, H25!Leave, H25!MaxAttempts, H25!NoTrial, H25!Proceed,
     H25!Quiet, H25!ReconcileAttempt, H25!ReconcileFirst, H25!Settled,
     H25!Slot, H25!SlotVerdict, H25!ledgerVars, Idle, InFlight, Leave,
     MaxAttempts, NoTrial, Proceed, Quiet, ReconcileAttempt, ReconcileFirst,
     Settled, Slot, SlotVerdict, ledgerVars
  <2>. QED BY <2>1 DEF CommandStep
<1>5. CASE H25!PauseBlock(c)
  <2>1. PauseBlock(c)
    BY <1>0, <1>5 DEF Busy, H25!Busy, H25!Idle, H25!Leave, H25!NoTrial,
     H25!PauseBlock, H25!Proceed, H25!Quiet, H25!ledgerVars, Idle, Leave,
     NoTrial, PauseBlock, Proceed, Quiet, ledgerVars
  <2>. QED BY <2>1 DEF CommandStep
<1>6. CASE H25!StartBlock(c)
  <2>1. StartBlock(c)
    BY <1>0, <1>6 DEF Busy, H25!Busy, H25!Idle, H25!Leave, H25!NoTrial,
     H25!Proceed, H25!Quiet, H25!StartBlock, H25!ledgerVars, Idle, Leave,
     NoTrial, Proceed, Quiet, StartBlock, ledgerVars
  <2>. QED BY <2>1 DEF CommandStep
<1>7. CASE H25!SelectSlot(c)
  <2>1. SelectSlot(c)
    BY <1>0, <1>7 DEF Adapts, Busy, Choose, Executable, Finish, FirstStep,
     H25!Busy, H25!Choose, H25!Executable, H25!Finish, H25!Idle, H25!Leave,
     H25!Min, H25!NoTrial, H25!Proceed, H25!Quiet, H25!Runnable,
     H25!SelectSlot, H25!Slot, H25!Terminal, H25!ledgerVars, Idle, Leave,
     Min, NoTrial, Proceed, Quiet, Runnable, SelectSlot, Slot, Startable,
     Terminal, ledgerVars
  <2>. QED BY <2>1 DEF CommandStep
<1>8. CASE H25!RequireCanonical(c)
  <2>1. CheckTarget(c)
    BY <1>0, <1>8 DEF Busy, CheckTarget, H25!Busy, H25!Idle, H25!Leave,
     H25!NoTrial, H25!Proceed, H25!Quiet, H25!RequireCanonical,
     H25!ledgerVars, Idle, Leave, NoTrial, Proceed, Quiet, ledgerVars
  <2>. QED BY <2>1 DEF CommandStep
<1>9. CASE H25!Abandon(c)
  <2>1. BeginAbandon(c)
    BY <1>0, <1>9 DEF BeginAbandon, Busy, Enter, H25!Abandon, H25!Busy,
     H25!Enter, H25!Idle, H25!Leave, H25!LiveBlock, H25!NoTrial,
     H25!Proceed, H25!Quiet, H25!ledgerVars, Idle, Leave, NoTrial, Proceed,
     Quiet, ledgerVars
  <2>. QED BY <2>1 DEF CommandStep
<1>10. CASE H25!AbandonReconcile(c)
  <2>1. AbandonReconcile(c)
    BY <1>0, <1>10 DEF AbandonReconcile, AttemptId, AttemptVerdict, Busy,
     Current, Ended, H25!AbandonReconcile, H25!AttemptId,
     H25!AttemptVerdict, H25!Busy, H25!Current, H25!Ended, H25!Idle,
     H25!InFlight, H25!Leave, H25!MaxAttempts, H25!NoTrial, H25!Proceed,
     H25!Quiet, H25!ReconcileAttempt, H25!Settled, H25!Slot,
     H25!SlotVerdict, H25!ledgerVars, Idle, InFlight, Leave, MaxAttempts,
     NoTrial, Proceed, Quiet, ReconcileAttempt, Settled, Slot, SlotVerdict,
     ledgerVars
  <2>. QED BY <2>1 DEF CommandStep
<1>11. CASE H25!Discard(c)
  <2>1. Discard(c)
    BY <1>0, <1>11 DEF Busy, Discard, H25!Busy, H25!Discard, H25!Idle,
     H25!Leave, H25!NoTrial, H25!Proceed, H25!Quiet, H25!ledgerVars, Idle,
     Leave, NoTrial, Proceed, Quiet, ledgerVars
  <2>. QED BY <2>1 DEF CommandStep
<1>12. CASE /\ caller[c].at = "trial"
             /\ H25!CreateTrial(c, <<caller[c].slot, caller[c].number>>, "attach")
             /\ UNCHANGED H25!ledgerVars
  <2>1. StartTrial(c)
    BY <1>0, <1>12 DEF Absent, AcceptsTrials, Busy, CreateTrial, H25!Absent,
     H25!AcceptsTrials, H25!Busy, H25!CreateTrial, H25!Idle, H25!Leave,
     H25!NoTrial, H25!Open, H25!Proceed, H25!Quiet, H25!ledgerVars, Idle,
     Leave, NoTrial, Open, Proceed, Quiet, StartTrial, ledgerVars
  <2>. QED BY <2>1 DEF CommandStep
<1>13. CASE H25!Attach(c)
  <2>1. Attach(c)
    BY <1>0, <1>13 DEF Attach, Busy, Executable, H25!Attach, H25!Busy,
     H25!Executable, H25!Idle, H25!Leave, H25!NoTrial, H25!Proceed,
     H25!Quiet, H25!ledgerVars, Idle, Leave, NoTrial, Proceed, Quiet,
     ledgerVars
  <2>. QED BY <2>1 DEF CommandStep
<1>14. CASE H25!Worker(c, "settle") /\ UNCHANGED H25!ledgerVars
  <2>1. RunTrial(c)
    BY <1>0, <1>14 DEF AttemptFails, Busy, Claimable, Default,
     H25!AttemptFails, H25!Busy, H25!Claimable, H25!Default, H25!Idle,
     H25!LeaseLost, H25!Leave, H25!Measured, H25!NoTrial, H25!Proceed,
     H25!Quiet, H25!RunOnce, H25!Worker, H25!ledgerVars, Idle, LeaseLost,
     Leave, Measured, NoTrial, Proceed, Quiet, RunOnce, RunTrial, Worker,
     ledgerVars
  <2>. QED BY <2>1 DEF CommandStep
<1>15. CASE H25!ReconcileLast(c)
  <2>1. Settle(c)
    BY <1>0, <1>15 DEF Adapts, AttemptId, AttemptVerdict, Busy, Current,
     Ended, H25!AttemptId, H25!AttemptVerdict, H25!Busy, H25!Current,
     H25!Ended, H25!Exhausts, H25!Idle, H25!InFlight, H25!Leave,
     H25!MaxAttempts, H25!NoTrial, H25!Proceed, H25!Quiet,
     H25!ReconcileAttempt, H25!ReconcileLast, H25!Settled, H25!Slot,
     H25!SlotVerdict, H25!ledgerVars, Idle, InFlight, Leave, MaxAttempts,
     NoTrial, Proceed, Quiet, ReconcileAttempt, Settle, Settled, Slot,
     SlotVerdict, ledgerVars
  <2>. QED BY <2>1 DEF CommandStep
<1>16. CASE H25!LoadRows(c, H25!Evidence)
  <2>1. Load(c)
    BY <1>0, <1>16 DEF Busy, Enter, H25!Busy, H25!Enter, H25!Idle,
     H25!Leave, H25!LoadRows, H25!NoTrial, H25!Proceed, H25!Quiet,
     H25!ledgerVars, Idle, Leave, Load, LoadRows, NoTrial, Proceed, Quiet,
     ledgerVars
  <2>. QED BY <2>1 DEF CommandStep
<1>17. CASE H25!CommitAnalysis(c)
  <2>1. CommitAnalysis(c)
    BY <1>0, <1>17 DEF Busy, CommitAnalysis, H25!Busy, H25!CommitAnalysis,
     H25!Idle, H25!Leave, H25!NoTrial, H25!Proceed, H25!Quiet,
     H25!ledgerVars, Idle, Leave, NoTrial, Proceed, Quiet, ledgerVars
  <2>. QED BY <2>1 DEF CommandStep
<1>. QED BY <1>1, <1>2, <1>3, <1>4, <1>5, <1>6, <1>7, <1>8, <1>9, <1>10, <1>11, <1>12, <1>13, <1>14, <1>15, <1>16, <1>17
         DEF H25!Command, H25!Reconcile, H25!ExecuteSlot, H25!Analyze

(* Nor do the primary waves.                                               *)
LEMMA PrimarySteps ==
  ASSUME NEW c \in Caller, Primary!Command(c)
  PROVE  CommandStep(c)
<1>0. kind = "primary"
  BY DEF Primary!Command, Primary!Active
<1>. USE DEF RowsVars
<1>1. CASE Primary!CreateCampaign(c, Primary!Ready)
  <2>1. Create(c)
    BY <1>0, <1>1 DEF Busy, Create, CreateCampaign, Default, Idle, Leave,
     NoTrial, Open, OpenCampaign, Primary!Busy, Primary!CreateCampaign,
     Primary!Default, Primary!Idle, Primary!Leave, Primary!NoTrial,
     Primary!Open, Primary!OpenCampaign, Primary!Proceed, Primary!Quiet,
     Primary!Ready, Primary!ledgerVars, Proceed, Quiet, ledgerVars
  <2>. QED BY <2>1 DEF CommandStep
<1>2. CASE Primary!InsertPlan(c)
  <2>1. Insert(c)
    BY <1>0, <1>2 DEF Absent, Adapts, AttemptId, Busy, Idle, Insert,
     InsertLedger, Leave, MaxAttempts, NewSlot, NoTrial, Primary!Absent,
     Primary!AttemptId, Primary!Busy, Primary!Idle, Primary!InsertLedger,
     Primary!InsertPlan, Primary!Leave, Primary!MaxAttempts,
     Primary!NewSlot, Primary!NoTrial, Primary!Proceed, Primary!Quiet,
     Primary!Slot, Primary!ledgerVars, Proceed, Quiet, Slot, ledgerVars
  <2>. QED BY <2>1 DEF CommandStep
<1>3. CASE Primary!RunNext(c)
  <2>1. StartRun(c)
    BY <1>0, <1>3 DEF Begin, Busy, Enter, Idle, Leave, NoTrial,
     Primary!Begin, Primary!Busy, Primary!Enter, Primary!Idle,
     Primary!Leave, Primary!NoTrial, Primary!Proceed, Primary!Quiet,
     Primary!RunNext, Primary!ledgerVars, Proceed, Quiet, StartRun,
     ledgerVars
  <2>. QED BY <2>1 DEF CommandStep
<1>4. CASE Primary!ReconcileFirst(c)
  <2>1. ReconcileFirst(c)
    BY <1>0, <1>4 DEF AttemptId, AttemptVerdict, Busy, Current, Ended,
     Exhausts, GateOpen, Idle, InFlight, Leave, MaxAttempts, NoTrial,
     Primary!AttemptId, Primary!AttemptVerdict, Primary!Busy,
     Primary!Current, Primary!Ended, Primary!Exhausts, Primary!GateOpen,
     Primary!Idle, Primary!InFlight, Primary!Leave, Primary!MaxAttempts,
     Primary!NoTrial, Primary!Proceed, Primary!Quiet,
     Primary!ReconcileAttempt, Primary!ReconcileFirst, Primary!Settled,
     Primary!Slot, Primary!SlotVerdict, Primary!ledgerVars, Proceed, Quiet,
     ReconcileAttempt, ReconcileFirst, Settled, Slot, SlotVerdict,
     ledgerVars
  <2>. QED BY <2>1 DEF CommandStep
<1>5. CASE Primary!PauseBlock(c)
  <2>1. PauseBlock(c)
    BY <1>0, <1>5 DEF Busy, Idle, Leave, NoTrial, PauseBlock, Primary!Busy,
     Primary!Idle, Primary!Leave, Primary!NoTrial, Primary!PauseBlock,
     Primary!Proceed, Primary!Quiet, Primary!ledgerVars, Proceed, Quiet,
     ledgerVars
  <2>. QED BY <2>1 DEF CommandStep
<1>6. CASE Primary!StartBlock(c)
  <2>1. StartBlock(c)
    BY <1>0, <1>6 DEF Busy, Idle, Leave, NoTrial, Primary!Busy,
     Primary!Idle, Primary!Leave, Primary!NoTrial, Primary!Proceed,
     Primary!Quiet, Primary!StartBlock, Primary!ledgerVars, Proceed, Quiet,
     StartBlock, ledgerVars
  <2>. QED BY <2>1 DEF CommandStep
<1>7. CASE Primary!SelectSlot(c)
  <2>1. SelectSlot(c)
    BY <1>0, <1>7 DEF Adapts, Busy, Choose, Executable, Finish, FirstStep,
     Idle, Leave, Min, NoTrial, Primary!Busy, Primary!Choose,
     Primary!Executable, Primary!Finish, Primary!Idle, Primary!Leave,
     Primary!Min, Primary!NoTrial, Primary!PrimaryRunnable, Primary!Proceed,
     Primary!Quiet, Primary!Runnable, Primary!SelectSlot, Primary!Slot,
     Primary!Terminal, Primary!ledgerVars, Proceed, Quiet, Runnable,
     SelectSlot, Slot, Startable, Terminal, ledgerVars
  <2>. QED BY <2>1 DEF CommandStep
<1>8. CASE Primary!Train(c)
  <2>. DEFINE training == Completed(caller[c].slot)
  <2>0. Primary!Training(caller[c].slot) = training
    BY DEF Primary!Training, Completed, Primary!Slot, Slot
  <2>1. \E enough \in BOOLEAN :
          /\ caller[c].at = "train"
          /\ caller' = [caller EXCEPT ![c] =
               IF enough THEN [@ EXCEPT !.at = "materialize", !.given = training]
                         ELSE Idle]
          /\ UNCHANGED <<kind, campaign, block, trial, target, overlapped, ledgerVars>>
    <3>. HIDE DEF training
    <3>. QED BY <1>8, <2>0 DEF Primary!Train, Primary!Gather, Primary!Idle,
         Idle, Primary!NoTrial, NoTrial, Primary!ledgerVars, ledgerVars
  <2>2. Train(c)
    BY <1>0, <2>1 DEF Train, Adapts, Gather
  <2>. QED BY <2>2 DEF CommandStep
<1>9. CASE Primary!Materialize(c)
  <2>1. Materialize(c)
    BY <1>0, <1>9 DEF Adapts, Busy, Idle, Leave, Materialize, NoTrial,
     Primary!Busy, Primary!Idle, Primary!Leave, Primary!Materialize,
     Primary!NoTrial, Primary!Proceed, Primary!Quiet, Primary!ledgerVars,
     Proceed, Quiet, ledgerVars
  <2>. QED BY <2>1 DEF CommandStep
<1>10. CASE /\ caller[c].at = "trial"
             /\ Primary!CreateTrial(c, <<caller[c].slot, caller[c].number>>, "attach")
             /\ UNCHANGED Primary!ledgerVars
  <2>1. StartTrial(c)
    BY <1>0, <1>10 DEF Absent, AcceptsTrials, Busy, CreateTrial, Idle,
     Leave, NoTrial, Open, Primary!Absent, Primary!AcceptsTrials,
     Primary!Busy, Primary!CreateTrial, Primary!Idle, Primary!Leave,
     Primary!NoTrial, Primary!Open, Primary!Proceed, Primary!Quiet,
     Primary!ledgerVars, Proceed, Quiet, StartTrial, ledgerVars
  <2>. QED BY <2>1 DEF CommandStep
<1>11. CASE Primary!Attach(c)
  <2>1. Attach(c)
    BY <1>0, <1>11 DEF Attach, Busy, Executable, Idle, Leave, NoTrial,
     Primary!Attach, Primary!Busy, Primary!Executable, Primary!Idle,
     Primary!Leave, Primary!NoTrial, Primary!Proceed, Primary!Quiet,
     Primary!ledgerVars, Proceed, Quiet, ledgerVars
  <2>. QED BY <2>1 DEF CommandStep
<1>12. CASE Primary!Worker(c, "settle") /\ UNCHANGED Primary!ledgerVars
  <2>1. RunTrial(c)
    BY <1>0, <1>12 DEF AttemptFails, Busy, Claimable, Default, Idle,
     LeaseLost, Leave, Measured, NoTrial, Primary!AttemptFails,
     Primary!Busy, Primary!Claimable, Primary!Default, Primary!Idle,
     Primary!LeaseLost, Primary!Leave, Primary!Measured, Primary!NoTrial,
     Primary!Proceed, Primary!Quiet, Primary!RunOnce, Primary!Worker,
     Primary!ledgerVars, Proceed, Quiet, RunOnce, RunTrial, Worker,
     ledgerVars
  <2>. QED BY <2>1 DEF CommandStep
<1>13. CASE Primary!ReconcileAndPause(c)
  <2>1. Settle(c)
    BY <1>0, <1>13 DEF Adapts, AttemptId, AttemptVerdict, Busy, Current,
     Ended, Idle, InFlight, Leave, MaxAttempts, NoTrial, Primary!AttemptId,
     Primary!AttemptVerdict, Primary!Busy, Primary!Current, Primary!Ended,
     Primary!Exhausts, Primary!Idle, Primary!InFlight, Primary!Leave,
     Primary!MaxAttempts, Primary!NoTrial, Primary!Proceed, Primary!Quiet,
     Primary!ReconcileAndPause, Primary!ReconcileAttempt, Primary!Settled,
     Primary!Slot, Primary!SlotVerdict, Primary!ledgerVars, Proceed, Quiet,
     ReconcileAttempt, Settle, Settled, Slot, SlotVerdict, ledgerVars
  <2>. QED BY <2>1 DEF CommandStep
<1>14. CASE Primary!LoadRows(c, TRUE)
  <2>1. Load(c)
    BY <1>0, <1>14 DEF Busy, Enter, Idle, Leave, Load, LoadRows, NoTrial,
     Primary!Busy, Primary!Enter, Primary!Idle, Primary!Leave,
     Primary!LoadRows, Primary!NoTrial, Primary!Proceed, Primary!Quiet,
     Primary!ledgerVars, Proceed, Quiet, ledgerVars
  <2>. QED BY <2>1 DEF CommandStep
<1>15. CASE Primary!CommitAnalysis(c)
  <2>1. CommitAnalysis(c)
    BY <1>0, <1>15 DEF Busy, CommitAnalysis, Idle, Leave, NoTrial,
     Primary!Busy, Primary!CommitAnalysis, Primary!Idle, Primary!Leave,
     Primary!NoTrial, Primary!Proceed, Primary!Quiet, Primary!ledgerVars,
     Proceed, Quiet, ledgerVars
  <2>. QED BY <2>1 DEF CommandStep
<1>. QED BY <1>1, <1>2, <1>3, <1>4, <1>5, <1>6, <1>7, <1>8, <1>9, <1>10, <1>11, <1>12, <1>13, <1>14, <1>15
         DEF Primary!Command, Primary!Runner, Primary!Reconcile, Primary!ExecuteSlot, Primary!Analyze

(* The commands of the primary wave B.                                     *)
LEMMA WaveBSteps ==
  ASSUME NEW c \in Caller, Primary!CommandB(c)
  PROVE  CommandStep(c)
<1>0. kind = "wave-b"
  BY DEF Primary!CommandB, Primary!ActiveB
<1>. USE DEF RowsVars
<1>1. CASE Primary!CreateCampaign(c, Primary!ReadyB)
  <2>1. Create(c)
    BY <1>0, <1>1 DEF Busy, Create, CreateCampaign, Default, Idle, Leave,
     NoTrial, Open, OpenCampaign, Primary!Busy, Primary!CreateCampaign,
     Primary!Default, Primary!Idle, Primary!Leave, Primary!NoTrial,
     Primary!Open, Primary!OpenCampaign, Primary!Proceed, Primary!Quiet,
     Primary!ReadyB, Primary!ledgerVars, Proceed, Quiet, ledgerVars
  <2>. QED BY <2>1 DEF CommandStep
<1>2. CASE Primary!InsertPlanB(c)
  <2>1. Insert(c)
    BY <1>0, <1>2 DEF Absent, Adapts, AttemptId, Busy, Idle, Insert,
     InsertLedger, Leave, MaxAttempts, NewSlot, NoTrial, Primary!Absent,
     Primary!AttemptId, Primary!Busy, Primary!Idle, Primary!InsertLedger,
     Primary!InsertPlanB, Primary!Leave, Primary!MaxAttempts,
     Primary!NewSlot, Primary!NoTrial, Primary!Proceed, Primary!Quiet,
     Primary!Slot, Primary!ledgerVars, Proceed, Quiet, Slot, ledgerVars
  <2>. QED BY <2>1 DEF CommandStep
<1>3. CASE Primary!RunNext(c)
  <2>1. StartRun(c)
    BY <1>0, <1>3 DEF Begin, Busy, Enter, Idle, Leave, NoTrial,
     Primary!Begin, Primary!Busy, Primary!Enter, Primary!Idle,
     Primary!Leave, Primary!NoTrial, Primary!Proceed, Primary!Quiet,
     Primary!RunNext, Primary!ledgerVars, Proceed, Quiet, StartRun,
     ledgerVars
  <2>. QED BY <2>1 DEF CommandStep
<1>4. CASE Primary!ReconcileFirst(c)
  <2>1. ReconcileFirst(c)
    BY <1>0, <1>4 DEF AttemptId, AttemptVerdict, Busy, Current, Ended,
     Exhausts, GateOpen, Idle, InFlight, Leave, MaxAttempts, NoTrial,
     Primary!AttemptId, Primary!AttemptVerdict, Primary!Busy,
     Primary!Current, Primary!Ended, Primary!Exhausts, Primary!GateOpen,
     Primary!Idle, Primary!InFlight, Primary!Leave, Primary!MaxAttempts,
     Primary!NoTrial, Primary!Proceed, Primary!Quiet,
     Primary!ReconcileAttempt, Primary!ReconcileFirst, Primary!Settled,
     Primary!Slot, Primary!SlotVerdict, Primary!ledgerVars, Proceed, Quiet,
     ReconcileAttempt, ReconcileFirst, Settled, Slot, SlotVerdict,
     ledgerVars
  <2>. QED BY <2>1 DEF CommandStep
<1>5. CASE Primary!PauseBlock(c)
  <2>1. PauseBlock(c)
    BY <1>0, <1>5 DEF Busy, Idle, Leave, NoTrial, PauseBlock, Primary!Busy,
     Primary!Idle, Primary!Leave, Primary!NoTrial, Primary!PauseBlock,
     Primary!Proceed, Primary!Quiet, Primary!ledgerVars, Proceed, Quiet,
     ledgerVars
  <2>. QED BY <2>1 DEF CommandStep
<1>6. CASE Primary!StartBlock(c)
  <2>1. StartBlock(c)
    BY <1>0, <1>6 DEF Busy, Idle, Leave, NoTrial, Primary!Busy,
     Primary!Idle, Primary!Leave, Primary!NoTrial, Primary!Proceed,
     Primary!Quiet, Primary!StartBlock, Primary!ledgerVars, Proceed, Quiet,
     StartBlock, ledgerVars
  <2>. QED BY <2>1 DEF CommandStep
<1>7. CASE Primary!SelectSlot(c)
  <2>1. SelectSlot(c)
    BY <1>0, <1>7 DEF Adapts, Busy, Choose, Executable, Finish, FirstStep,
     Idle, Leave, Min, NoTrial, Primary!Busy, Primary!Choose,
     Primary!Executable, Primary!Finish, Primary!Idle, Primary!Leave,
     Primary!Min, Primary!NoTrial, Primary!PrimaryRunnable, Primary!Proceed,
     Primary!Quiet, Primary!Runnable, Primary!SelectSlot, Primary!Slot,
     Primary!Terminal, Primary!ledgerVars, Proceed, Quiet, Runnable,
     SelectSlot, Slot, Startable, Terminal, ledgerVars
  <2>. QED BY <2>1 DEF CommandStep
<1>8. CASE Primary!Train(c)
  <2>. DEFINE training == Completed(caller[c].slot)
  <2>0. Primary!Training(caller[c].slot) = training
    BY DEF Primary!Training, Completed, Primary!Slot, Slot
  <2>1. \E enough \in BOOLEAN :
          /\ caller[c].at = "train"
          /\ caller' = [caller EXCEPT ![c] =
               IF enough THEN [@ EXCEPT !.at = "materialize", !.given = training]
                         ELSE Idle]
          /\ UNCHANGED <<kind, campaign, block, trial, target, overlapped, ledgerVars>>
    <3>. HIDE DEF training
    <3>. QED BY <1>8, <2>0 DEF Primary!Train, Primary!Gather, Primary!Idle,
         Idle, Primary!NoTrial, NoTrial, Primary!ledgerVars, ledgerVars
  <2>2. Train(c)
    BY <1>0, <2>1 DEF Train, Adapts, Gather
  <2>. QED BY <2>2 DEF CommandStep
<1>9. CASE Primary!Materialize(c)
  <2>1. Materialize(c)
    BY <1>0, <1>9 DEF Adapts, Busy, Idle, Leave, Materialize, NoTrial,
     Primary!Busy, Primary!Idle, Primary!Leave, Primary!Materialize,
     Primary!NoTrial, Primary!Proceed, Primary!Quiet, Primary!ledgerVars,
     Proceed, Quiet, ledgerVars
  <2>. QED BY <2>1 DEF CommandStep
<1>10. CASE /\ caller[c].at = "trial"
             /\ Primary!CreateTrial(c, <<caller[c].slot, caller[c].number>>, "attach")
             /\ UNCHANGED Primary!ledgerVars
  <2>1. StartTrial(c)
    BY <1>0, <1>10 DEF Absent, AcceptsTrials, Busy, CreateTrial, Idle,
     Leave, NoTrial, Open, Primary!Absent, Primary!AcceptsTrials,
     Primary!Busy, Primary!CreateTrial, Primary!Idle, Primary!Leave,
     Primary!NoTrial, Primary!Open, Primary!Proceed, Primary!Quiet,
     Primary!ledgerVars, Proceed, Quiet, StartTrial, ledgerVars
  <2>. QED BY <2>1 DEF CommandStep
<1>11. CASE Primary!Attach(c)
  <2>1. Attach(c)
    BY <1>0, <1>11 DEF Attach, Busy, Executable, Idle, Leave, NoTrial,
     Primary!Attach, Primary!Busy, Primary!Executable, Primary!Idle,
     Primary!Leave, Primary!NoTrial, Primary!Proceed, Primary!Quiet,
     Primary!ledgerVars, Proceed, Quiet, ledgerVars
  <2>. QED BY <2>1 DEF CommandStep
<1>12. CASE Primary!Worker(c, "settle") /\ UNCHANGED Primary!ledgerVars
  <2>1. RunTrial(c)
    BY <1>0, <1>12 DEF AttemptFails, Busy, Claimable, Default, Idle,
     LeaseLost, Leave, Measured, NoTrial, Primary!AttemptFails,
     Primary!Busy, Primary!Claimable, Primary!Default, Primary!Idle,
     Primary!LeaseLost, Primary!Leave, Primary!Measured, Primary!NoTrial,
     Primary!Proceed, Primary!Quiet, Primary!RunOnce, Primary!Worker,
     Primary!ledgerVars, Proceed, Quiet, RunOnce, RunTrial, Worker,
     ledgerVars
  <2>. QED BY <2>1 DEF CommandStep
<1>13. CASE Primary!ReconcileAndPause(c)
  <2>1. Settle(c)
    BY <1>0, <1>13 DEF Adapts, AttemptId, AttemptVerdict, Busy, Current,
     Ended, Idle, InFlight, Leave, MaxAttempts, NoTrial, Primary!AttemptId,
     Primary!AttemptVerdict, Primary!Busy, Primary!Current, Primary!Ended,
     Primary!Exhausts, Primary!Idle, Primary!InFlight, Primary!Leave,
     Primary!MaxAttempts, Primary!NoTrial, Primary!Proceed, Primary!Quiet,
     Primary!ReconcileAndPause, Primary!ReconcileAttempt, Primary!Settled,
     Primary!Slot, Primary!SlotVerdict, Primary!ledgerVars, Proceed, Quiet,
     ReconcileAttempt, Settle, Settled, Slot, SlotVerdict, ledgerVars
  <2>. QED BY <2>1 DEF CommandStep
<1>14. CASE Primary!LoadRows(c, TRUE)
  <2>1. Load(c)
    BY <1>0, <1>14 DEF Busy, Enter, Idle, Leave, Load, LoadRows, NoTrial,
     Primary!Busy, Primary!Enter, Primary!Idle, Primary!Leave,
     Primary!LoadRows, Primary!NoTrial, Primary!Proceed, Primary!Quiet,
     Primary!ledgerVars, Proceed, Quiet, ledgerVars
  <2>. QED BY <2>1 DEF CommandStep
<1>15. CASE Primary!CommitAnalysis(c)
  <2>1. CommitAnalysis(c)
    BY <1>0, <1>15 DEF Busy, CommitAnalysis, Idle, Leave, NoTrial,
     Primary!Busy, Primary!CommitAnalysis, Primary!Idle, Primary!Leave,
     Primary!NoTrial, Primary!Proceed, Primary!Quiet, Primary!ledgerVars,
     Proceed, Quiet, ledgerVars
  <2>. QED BY <2>1 DEF CommandStep
<1>. QED BY <1>1, <1>2, <1>3, <1>4, <1>5, <1>6, <1>7, <1>8, <1>9, <1>10, <1>11, <1>12, <1>13, <1>14, <1>15
         DEF Primary!CommandB, Primary!Runner, Primary!Reconcile, Primary!ExecuteSlot, Primary!AnalyzeB

(* The reconciliation of an interrupted wave B measurement.                *)
LEMMA InterruptionSteps ==
  ASSUME NEW c \in Caller, Primary!Interruption(c)
  PROVE  CommandStep(c)
<1>0. kind = "wave-b"
  BY DEF Primary!Interruption, Primary!ActiveB
<1>. USE DEF RowsVars
<1>1. CASE Primary!PowerLoss(c)
  <2>1. PowerLoss(c)
    BY <1>0, <1>1 DEF Busy, Default, Idle, Leave, NoTrial, PowerLoss,
     Primary!Busy, Primary!Default, Primary!Idle, Primary!Leave,
     Primary!NoTrial, Primary!PowerLoss, Primary!Proceed, Primary!Quiet,
     Primary!ledgerVars, Proceed, Quiet, ledgerVars
  <2>. QED BY <2>1 DEF CommandStep
<1>2. CASE Primary!ReconcileInterruption(c)
  <2>1. StartInterruption(c)
    BY <1>0, <1>2 DEF AttemptId, Busy, Enter, Idle, Leave, MaxAttempts,
     NoTrial, Primary!AttemptId, Primary!AwaitsReconciliation, Primary!Busy,
     Primary!Enter, Primary!Idle, Primary!Leave, Primary!MaxAttempts,
     Primary!NoTrial, Primary!Proceed, Primary!Quiet,
     Primary!ReconcileInterruption, Primary!Slot, Primary!ledgerVars,
     Proceed, Quiet, Slot, StartInterruption, ledgerVars
  <2>. QED BY <2>1 DEF CommandStep
<1>3. CASE Primary!RollbackInterrupted(c)
  <2>1. RollbackInterrupted(c)
    BY <1>0, <1>3 DEF Busy, Default, Idle, Leave, NoTrial, Primary!Busy,
     Primary!Default, Primary!Idle, Primary!Leave, Primary!NoTrial,
     Primary!Proceed, Primary!Quiet, Primary!RollbackInterrupted,
     Primary!ledgerVars, Proceed, Quiet, RollbackInterrupted, ledgerVars
  <2>. QED BY <2>1 DEF CommandStep
<1>4. CASE Primary!FileInterruption(c)
  <2>1. FileInterruption(c)
    BY <1>0, <1>4 DEF Busy, FileInterruption, Idle, Leave, NoTrial,
     Primary!Busy, Primary!FileInterruption, Primary!Idle, Primary!Leave,
     Primary!NoTrial, Primary!Proceed, Primary!Quiet, Primary!ledgerVars,
     Proceed, Quiet, ledgerVars
  <2>. QED BY <2>1 DEF CommandStep
<1>. QED BY <1>1, <1>2, <1>3, <1>4
         DEF Primary!Interruption

(* What a step of the whole system is.                                     *)
LEMMA Steps ==
  ASSUME [Next]_attemptVars
  PROVE  \/ UNCHANGED attemptVars
         \/ Operator
         \/ Deploy
         \/ \E c \in Caller : CommandStep(c) \/ Leaving(c)
<1>1. H25!DeployChampion => Deploy
  BY DEF H25!DeployChampion, Deploy, H25!Default, Default, H25!NoTrial, NoTrial,
     H25!ledgerVars, ledgerVars
<1>. QED BY <1>1, F4Steps, PhaseBSteps, H25Steps, PrimarySteps, WaveBSteps,
         InterruptionSteps DEF Next
-----------------------------------------------------------------------------
(***************************************************************************)
(* Types.  TypeOK is not inductive by itself: a retry must be left for     *)
(* every slot that may be selected, and a caller that is not in a command  *)
(* remembers nothing.                                                      *)
(***************************************************************************)
CommandState ==
  [at: Positions, seen: CampaignStatus, block: BlockStatus, open: BOOLEAN,
   slot: Slot \cup {0}, number: 0..MaxAttempts, given: SUBSET Slot,
   trial: TrialId \cup {NoTrial}]

SlotRow == [status: SlotStatus, attempts: 0..MaxAttempts, given: SUBSET Slot]

(* The positions in which a command has a slot.                            *)
OnSlot == {"train", "materialize", "control", "baseline", "canonical", "trial",
           "attach", "rollback", "interruption"}

LocalOK(l) ==
  /\ l \in CommandState
  /\ l.at \in OnSlot => <<l.slot, l.number>> \in AttemptId
  /\ l.at = "measure" => l.trial \in TrialId
  /\ l.at \in {"rollback", "interruption"} => l.number < MaxAttempts
  /\ l.at = "idle" => l = Idle

CallerOK ==
  /\ caller \in [Caller -> CommandState]
  /\ \A c \in Caller : LocalOK(caller[c])

(* A slot that may be selected has an attempt left.                        *)
RetryLeft ==
  \A s \in Slot : slot[s].status \in Executable \cup {"PLANNED"} =>
    slot[s].attempts < MaxAttempts

Types == TypeOK /\ CallerOK /\ RetryLeft

(* What the assumptions say about slots and attempts.                      *)
LEMMA SlotNumbers ==
  /\ Slot \subseteq Nat \ {0} /\ 0 \notin Slot
  /\ MaxAttempts = 3
  /\ AttemptId = Slot \X (1..3) /\ TrialId = AttemptId
  /\ NoTrial \notin TrialId
BY SlotsAssumption, ConfirmatoryAssumption DEF Slot, AttemptId, MaxAttempts, NoTrial

(* An idle command has nothing it needs.                                   *)
LEMMA IdleLocal == LocalOK(Idle)
BY SlotNumbers DEF LocalOK, Idle, CommandState, Positions, CampaignStatus, BlockStatus,
   OnSlot

(* A caller moves to a position that fits what it remembers.               *)
LEMMA CallerMoves ==
  ASSUME CallerOK, NEW c \in Caller, NEW l, LocalOK(l),
         caller' = [caller EXCEPT ![c] = l]
  PROVE  CallerOK'
<1>1. l \in CommandState
  BY DEF LocalOK
<1>2. caller' \in [Caller -> CommandState]
  BY <1>1 DEF CallerOK
<1>3. ASSUME NEW d \in Caller PROVE LocalOK(caller'[d])
  BY DEF CallerOK
<1>. QED BY <1>2, <1>3 DEF CallerOK, LocalOK

(* A command that leaves is idle.                                          *)
LEMMA LeaveOK ==
  ASSUME CallerOK, NEW c \in Caller, Leave(c)
  PROVE  CallerOK'
BY IdleLocal, CallerMoves DEF Leave

(* What it remembers besides its position stays.                           *)
LEMMA ProceedLocal ==
  ASSUME CallerOK, NEW c \in Caller, NEW at \in Positions \ {"idle", "measure"},
         at \in OnSlot => caller[c].at \in OnSlot,
         at \in {"rollback", "interruption"} =>
           caller[c].at \in {"rollback", "interruption"},
         Proceed(c, at)
  PROVE  /\ caller' = [caller EXCEPT ![c] = [caller[c] EXCEPT !.at = at]]
         /\ LocalOK([caller[c] EXCEPT !.at = at])
<1>1. caller[c] \in CommandState /\ LocalOK(caller[c])
  BY DEF CallerOK
<1>. DEFINE l == [caller[c] EXCEPT !.at = at]
<1>2. /\ l \in CommandState
      /\ l.at = at
      /\ l.slot = caller[c].slot
      /\ l.number = caller[c].number
  BY <1>1 DEF CommandState
<1>3. LocalOK(l)
  BY <1>1, <1>2 DEF LocalOK
<1>. QED BY <1>3 DEF Proceed

(* A command that goes on keeps its slot and attempt number.               *)
LEMMA ProceedOK ==
  ASSUME CallerOK, NEW c \in Caller, NEW at \in Positions \ {"idle", "measure"},
         at \in OnSlot => caller[c].at \in OnSlot,
         at \in {"rollback", "interruption"} =>
           caller[c].at \in {"rollback", "interruption"},
         Proceed(c, at)
  PROVE  CallerOK'
<1>. DEFINE l == [caller[c] EXCEPT !.at = at]
<1>1. caller' = [caller EXCEPT ![c] = l] /\ LocalOK(l)
  BY ProceedLocal
<1>. HIDE DEF l
<1>. QED BY <1>1, CallerMoves

(* A command that remembers only its position.                             *)
LEMMA FreshLocal ==
  ASSUME NEW at \in Positions \ (OnSlot \cup {"idle", "measure"})
  PROVE  LocalOK([Idle EXCEPT !.at = at])
<1>. DEFINE l == [Idle EXCEPT !.at = at]
<1>1. /\ l \in [at: {at}, seen: {"NONE"}, block: {"NONE"}, open: BOOLEAN, slot: {0},
                number: {0}, given: {{}}, trial: {NoTrial}]
      /\ l.at = at
  BY DEF Idle
<1>. HIDE DEF l
<1>2. l \in CommandState
  BY <1>1, SlotNumbers DEF CommandState, CampaignStatus, BlockStatus
<1>3. LocalOK(l)
  BY <1>1, <1>2 DEF LocalOK, OnSlot
<1>. QED BY <1>3 DEF l

(* A row is known by its fields.                                           *)
LEMMA RowIs ==
  ASSUME NEW v, NEW n, NEW g, NEW e \in [status: {v}, attempts: {n}, given: {g}]
  PROVE  e = [status |-> v, attempts |-> n, given |-> g]
OBVIOUS

(* An update of some fields of a row writes the whole row.                 *)
LEMMA StatusAndAttempts ==
  ASSUME slot \in [Slot -> SlotRow], NEW s \in Slot, NEW v, NEW n,
         slot' = [slot EXCEPT ![s].status = v, ![s].attempts = n]
  PROVE  slot' = [slot EXCEPT ![s] = [status |-> v, attempts |-> n, given |-> slot[s].given]]
<1>. DEFINE r == slot[s]
            e == [r EXCEPT !.status = v, !.attempts = n]
<1>1. r \in SlotRow
  OBVIOUS
<1>2. e \in [status: {v}, attempts: {n}, given: {r.given}]
  BY <1>1 DEF SlotRow
<1>3. slot' = [slot EXCEPT ![s] = e]
  OBVIOUS
<1>. HIDE DEF e
<1>4. e = [status |-> v, attempts |-> n, given |-> r.given]
  BY <1>2, RowIs
<1>. QED BY <1>3, <1>4, Zenon

(* Writing the status and the inputs of a slot.                            *)
LEMMA StatusAndGiven ==
  ASSUME slot \in [Slot -> SlotRow], NEW s \in Slot, NEW v, NEW g,
         slot' = [slot EXCEPT ![s].status = v, ![s].given = g]
  PROVE  slot' = [slot EXCEPT ![s] = [status |-> v, attempts |-> slot[s].attempts, given |-> g]]
<1>. DEFINE r == slot[s]
            e == [r EXCEPT !.status = v, !.given = g]
<1>1. r \in SlotRow
  OBVIOUS
<1>2. e \in [status: {v}, attempts: {r.attempts}, given: {g}]
  BY <1>1 DEF SlotRow
<1>3. slot' = [slot EXCEPT ![s] = e]
  OBVIOUS
<1>. HIDE DEF e
<1>4. e = [status |-> v, attempts |-> r.attempts, given |-> g]
  BY <1>2, RowIs
<1>. QED BY <1>3, <1>4, Zenon

(* Writing the status of a slot.                                           *)
LEMMA StatusOnly ==
  ASSUME slot \in [Slot -> SlotRow], NEW s \in Slot, NEW v,
         slot' = [slot EXCEPT ![s].status = v]
  PROVE  slot' = [slot EXCEPT ![s] = [status |-> v, attempts |-> slot[s].attempts,
                        given |-> slot[s].given]]
<1>. DEFINE r == slot[s]
            e == [r EXCEPT !.status = v]
<1>1. r \in SlotRow
  OBVIOUS
<1>2. e \in [status: {v}, attempts: {r.attempts}, given: {r.given}]
  BY <1>1 DEF SlotRow
<1>3. slot' = [slot EXCEPT ![s] = e]
  OBVIOUS
<1>. HIDE DEF e
<1>4. e = [status |-> v, attempts |-> r.attempts,
                        given |-> r.given]
  BY <1>2, RowIs
<1>. QED BY <1>3, <1>4, Zenon

(* Writing the inputs of a slot.                                           *)
LEMMA GivenOnly ==
  ASSUME slot \in [Slot -> SlotRow], NEW s \in Slot, NEW g,
         slot' = [slot EXCEPT ![s].given = g]
  PROVE  slot' = [slot EXCEPT ![s] = [status |-> slot[s].status, attempts |-> slot[s].attempts,
                        given |-> g]]
<1>. DEFINE r == slot[s]
            e == [r EXCEPT !.given = g]
<1>1. r \in SlotRow
  OBVIOUS
<1>2. e \in [status: {r.status}, attempts: {r.attempts}, given: {g}]
  BY <1>1 DEF SlotRow
<1>3. slot' = [slot EXCEPT ![s] = e]
  OBVIOUS
<1>. HIDE DEF e
<1>4. e = [status |-> r.status, attempts |-> r.attempts,
                        given |-> g]
  BY <1>2, RowIs
<1>. QED BY <1>3, <1>4, Zenon

(* A row of the ledger is replaced.                                        *)
LEMMA SlotChange ==
  ASSUME slot \in [Slot -> SlotRow], RetryLeft, NEW s \in Slot, NEW r \in SlotRow,
         r.status \in Executable \cup {"PLANNED"} => r.attempts < MaxAttempts,
         slot' = [slot EXCEPT ![s] = r]
  PROVE  slot' \in [Slot -> SlotRow] /\ RetryLeft'
BY DEF RetryLeft

(***************************************************************************)
(* The steps that write the ledger, row by row.                            *)
(***************************************************************************)

(* A reconciliation files the verdict on an attempt whose trial has ended. *)
Files(k) ==
  /\ k \in InFlight /\ Settled(k)
  /\ attempt' = [attempt EXCEPT ![k] = AttemptVerdict(k)]
  /\ slot' = [slot EXCEPT ![k[1]] =
       [status |-> SlotVerdict(k), attempts |-> k[2], given |-> slot[k[1]].given]]

(* Reconciliation files the open attempt, or writes nothing.               *)
LEMMA ReconcileEffect ==
  ASSUME TypeOK, ReconcileAttempt
  PROVE  UNCHANGED ledgerVars \/ (InFlight # {} /\ Settled(Current) /\ Files(Current))
<1>1. CASE ~ (InFlight # {} /\ Settled(Current))
  BY <1>1 DEF ReconcileAttempt
<1>2. CASE InFlight # {} /\ Settled(Current)
  <2>. DEFINE k == Current
  <2>0. slot \in [Slot -> SlotRow]
    BY DEF TypeOK, SlotRow
  <2>1. /\ k \in InFlight /\ k \in AttemptId
        /\ k[1] \in Slot
    BY <1>2, CurrentInFlight DEF InFlight, AttemptId
  <2>2. /\ attempt' = [attempt EXCEPT ![k] = AttemptVerdict(k)]
        /\ slot' = [slot EXCEPT ![k[1]].status = SlotVerdict(k),
                                ![k[1]].attempts = k[2]]
    BY <1>2 DEF ReconcileAttempt
  <2>. HIDE DEF k
  <2>3. slot' = [slot EXCEPT ![k[1]] =
          [status |-> SlotVerdict(k), attempts |-> k[2], given |-> slot[k[1]].given]]
    <3>1. PICK s : s = k[1]
      OBVIOUS
    <3>2. PICK v : v = SlotVerdict(k)
      OBVIOUS
    <3>3. PICK n : n = k[2]
      OBVIOUS
    <3>4. s \in Slot /\ slot' = [slot EXCEPT ![s].status = v, ![s].attempts = n]
      BY <2>1, <2>2, <3>1, <3>2, <3>3
    <3>5. slot' = [slot EXCEPT ![s] = [status |-> v, attempts |-> n, given |-> slot[s].given]]
      BY <2>0, <3>4, StatusAndAttempts
    <3>. QED BY <3>1, <3>2, <3>3, <3>5
  <2>. QED BY <1>2, <2>1, <2>2, <2>3 DEF Files, k
<1>. QED BY <1>1, <1>2

(* What an ended trial can come to, for its attempt and for its slot.      *)
LEMMA Verdicts ==
  ASSUME NEW k \in AttemptId
  PROVE  /\ AttemptVerdict(k) \in
              {"COMPLETED", "INFRASTRUCTURE_FAILED", "CANDIDATE_FAILED"}
         /\ SlotVerdict(k) \in Terminal \cup {"RETRY_PENDING"}
         /\ SlotVerdict(k) = "RETRY_PENDING" => k[2] < MaxAttempts
<1>1. AttemptVerdict(k) \in
        {"COMPLETED", "INFRASTRUCTURE_FAILED", "CANDIDATE_FAILED"}
  BY DEF AttemptVerdict
<1>. QED BY <1>1 DEF SlotVerdict, Terminal

(* Filing an attempt keeps the rows well-formed.                           *)
LEMMA FilesType ==
  ASSUME TypeOK, RetryLeft, NEW k, Files(k)
  PROVE  /\ slot' \in [Slot -> SlotRow] /\ RetryLeft'
         /\ attempt' \in [AttemptId -> AttemptStatus]
<1>1. k \in AttemptId /\ k[1] \in Slot /\ k[2] \in 0..MaxAttempts
  BY SlotNumbers DEF Files, InFlight
<1>2. slot \in [Slot -> SlotRow] /\ attempt \in [AttemptId -> AttemptStatus]
  BY DEF TypeOK, SlotRow
<1>. DEFINE r == [status |-> SlotVerdict(k), attempts |-> k[2],
                  given |-> slot[k[1]].given]
<1>3. r \in SlotRow /\ (r.status \in Executable \cup {"PLANNED"} =>
                          r.attempts < MaxAttempts)
  BY <1>1, <1>2, Verdicts DEF SlotRow, SlotStatus, Terminal, Executable
<1>4. slot' = [slot EXCEPT ![k[1]] = r]
  BY DEF Files
<1>5. attempt' \in [AttemptId -> AttemptStatus]
  BY <1>1, <1>2, Verdicts DEF Files, AttemptStatus
<1>. HIDE DEF r
<1>. QED BY <1>1, <1>2, <1>3, <1>4, <1>5, SlotChange

(* Attach writes an attempt row, unless it is there, and marks its slot.   *)
Attaches(c) ==
  LET k == <<caller[c].slot, caller[c].number>> IN
  /\ caller[c].at = "attach"
  /\ k \in AttemptId
  /\ slot[k[1]].status \in Executable
  /\ attempt' = [attempt EXCEPT ![k] = IF @ = "NONE" THEN "CREATED" ELSE @]
  /\ slot' = [slot EXCEPT ![k[1]] = [status |-> "CREATED",
                attempts |-> slot[k[1]].attempts, given |-> slot[k[1]].given]]
  /\ caller' = [caller EXCEPT ![c] = [Idle EXCEPT !.at = "run_once"]]
  /\ UNCHANGED trial

(* Attaching writes one attempt and its slot, or the command ends.         *)
LEMMA AttachEffect ==
  ASSUME Types, NEW c \in Caller, Attach(c)
  PROVE  Attaches(c) \/ (UNCHANGED ledgerVars /\ Leave(c))
<1>. DEFINE s == caller[c].slot
            k == <<s, caller[c].number>>
<1>0. slot \in [Slot -> SlotRow]
  BY DEF Types, TypeOK, SlotRow
<1>1. k \in AttemptId /\ s \in Slot
  BY SlotNumbers DEF Attach, Types, TypeOK
<1>2. CASE slot[s].status \in Executable
  <2>1. slot' = [slot EXCEPT ![s].status = "CREATED"]
    BY <1>2 DEF Attach
  <2>2. slot' = [slot EXCEPT ![s] = [status |-> "CREATED",
                  attempts |-> slot[s].attempts, given |-> slot[s].given]]
    BY <1>0, <1>1, <2>1, StatusOnly, Zenon
  <2>. QED BY <1>1, <1>2, <2>2 DEF Attach, Attaches
<1>. QED BY <1>2 DEF Attach

(* An adaptive slot is given its configuration, or a candidate its         *)
(* baseline.                                                               *)
Gives(c) ==
  LET s == caller[c].slot IN
  /\ s \in Slot
  /\ \/ Adapts /\ caller[c].at = "materialize" /\ slot[s].status = "PLANNED"
     \/ /\ kind = "phase-b" /\ caller[c].at = "baseline"
        /\ slot[s].status \in Executable /\ slot[s].given \in {{}, caller[c].given}
  /\ slot' = [slot EXCEPT ![s] =
       [status |-> IF Adapts THEN "PROPOSED" ELSE slot[s].status,
        attempts |-> slot[s].attempts, given |-> caller[c].given]]
  /\ caller' = [caller EXCEPT ![c] =
       [caller[c] EXCEPT !.at = "trial", !.given = {}]]
  /\ UNCHANGED <<trial, attempt>>

(* Materializing and recording a baseline write the inputs of one slot.    *)
LEMMA GiveEffect ==
  ASSUME Types, NEW c \in Caller, Materialize(c) \/ RecordBaseline(c)
  PROVE  Gives(c) \/ (UNCHANGED ledgerVars /\ Leave(c))
<1>. DEFINE s == caller[c].slot
<1>0. slot \in [Slot -> SlotRow]
  BY DEF Types, TypeOK, SlotRow
<1>1. s \in Slot /\ caller[c] \in CommandState
  BY SlotNumbers DEF Materialize, RecordBaseline, Types, TypeOK, CallerOK
<1>2. ASSUME caller' = [caller EXCEPT ![c].at = "trial", ![c].given = {}]
      PROVE  caller' = [caller EXCEPT ![c] =
               [caller[c] EXCEPT !.at = "trial", !.given = {}]]
  BY <1>2
<1>3. CASE Materialize(c) /\ slot[s].status = "PLANNED"
  <2>1. slot' = [slot EXCEPT ![s].status = "PROPOSED", ![s].given = caller[c].given]
    BY <1>3 DEF Materialize
  <2>2. slot' = [slot EXCEPT ![s] = [status |-> "PROPOSED",
                  attempts |-> slot[s].attempts, given |-> caller[c].given]]
    <3>1. PICK g : g = caller[c].given
      OBVIOUS
    <3>2. PICK v : v = "PROPOSED"
      OBVIOUS
    <3>3. slot' = [slot EXCEPT ![s].status = v, ![s].given = g]
      BY <2>1, <3>1, <3>2
    <3>. HIDE DEF s
    <3>4. slot' = [slot EXCEPT ![s] =
            [status |-> v, attempts |-> slot[s].attempts, given |-> g]]
      BY <1>0, <1>1, <3>3, StatusAndGiven, Zenon
    <3>. QED BY <3>1, <3>2, <3>4
  <2>3. /\ Adapts /\ caller[c].at = "materialize" /\ UNCHANGED <<trial, attempt>>
        /\ caller' = [caller EXCEPT ![c].at = "trial", ![c].given = {}]
    BY <1>3 DEF Materialize
  <2>. QED BY <1>1, <1>2, <1>3, <2>2, <2>3 DEF Gives
<1>4. CASE /\ RecordBaseline(c)
           /\ slot[s].status \in Executable /\ slot[s].given \in {{}, caller[c].given}
  <2>1. slot' = [slot EXCEPT ![s].given = caller[c].given]
    BY <1>4 DEF RecordBaseline
  <2>2. slot' = [slot EXCEPT ![s] = [status |-> slot[s].status,
                  attempts |-> slot[s].attempts, given |-> caller[c].given]]
    BY <1>0, <1>1, <2>1, GivenOnly, Zenon
  <2>3. /\ kind = "phase-b" /\ caller[c].at = "baseline"
        /\ UNCHANGED <<trial, attempt>>
        /\ caller' = [caller EXCEPT ![c].at = "trial", ![c].given = {}]
    BY <1>4 DEF RecordBaseline
  <2>. QED BY <1>1, <1>2, <1>4, <2>2, <2>3 DEF Gives, Adapts
<1>. QED BY <1>3, <1>4 DEF Materialize, RecordBaseline, ledgerVars

(* An interrupted attempt is filed as an infrastructure failure.           *)
FilesInterruption(c) ==
  LET k == <<caller[c].slot, caller[c].number>> IN
  /\ kind = "wave-b" /\ caller[c].at = "interruption"
  /\ k \in AttemptId /\ k[2] < MaxAttempts
  /\ slot[k[1]].status = "CREATED" /\ attempt[k] = "CREATED"
  /\ trial[k].state = "INTERRUPTED"
  /\ trial' = [trial EXCEPT ![k].state = "INFRA"]
  /\ attempt' = [attempt EXCEPT ![k] = "INFRASTRUCTURE_FAILED"]
  /\ slot' = [slot EXCEPT ![k[1]] = [status |-> "RETRY_PENDING",
                attempts |-> k[2], given |-> slot[k[1]].given]]
  /\ Leave(c)

(* Filing an interruption writes one attempt, its trial and its slot.      *)
LEMMA InterruptionEffect ==
  ASSUME Types, NEW c \in Caller, FileInterruption(c)
  PROVE  FilesInterruption(c) \/ UNCHANGED <<trial, campaign, ledgerVars>>
<1>. DEFINE s == caller[c].slot
            n == caller[c].number
            k == <<s, n>>
<1>0. slot \in [Slot -> SlotRow]
  BY DEF Types, TypeOK, SlotRow
<1>1. k \in AttemptId /\ s \in Slot /\ n < MaxAttempts
  BY SlotNumbers DEF FileInterruption, Types, TypeOK, CallerOK, LocalOK
<1>2. CASE ~ UNCHANGED <<trial, campaign, ledgerVars>>
  <2>1. slot' = [slot EXCEPT ![s].status = "RETRY_PENDING", ![s].attempts = n]
    BY <1>2 DEF FileInterruption
  <2>2. slot' = [slot EXCEPT ![s] = [status |-> "RETRY_PENDING",
                  attempts |-> n, given |-> slot[s].given]]
    <3>1. PICK t : t = s
      OBVIOUS
    <3>2. PICK m : m = n
      OBVIOUS
    <3>3. t \in Slot /\ slot' = [slot EXCEPT ![t].status = "RETRY_PENDING", ![t].attempts = m]
      BY <1>1, <2>1, <3>1, <3>2
    <3>4. slot' = [slot EXCEPT ![t] = [status |-> "RETRY_PENDING",
                    attempts |-> m, given |-> slot[t].given]]
      BY <1>0, <3>3, StatusAndAttempts
    <3>. QED BY <3>1, <3>2, <3>4
  <2>. QED BY <1>1, <1>2, <2>2 DEF FileInterruption, FilesInterruption
<1>. QED BY <1>2

(* Nothing else writes the ledger of a stage.                              *)
LEMMA LedgerWrites ==
  ASSUME Types, [Next]_attemptVars
  PROVE  \/ UNCHANGED ledgerVars
         \/ \E c \in Caller : Insert(c)
         \/ UNCHANGED trial /\ \E k \in AttemptId : Files(k)
         \/ \E c \in Caller : Attaches(c) \/ Gives(c) \/ FilesInterruption(c)
<1>1. CASE UNCHANGED attemptVars \/ Operator \/ Deploy
  BY <1>1 DEF attemptVars, Operator, Deploy
<1>2. ASSUME NEW c \in Caller, Leaving(c)
      PROVE  UNCHANGED ledgerVars
  BY <1>2 DEF Leaving
<1>3. ASSUME NEW c \in Caller, CommandStep(c)
      PROVE  \/ UNCHANGED ledgerVars
             \/ Insert(c)
             \/ UNCHANGED trial /\ \E k \in AttemptId : Files(k)
             \/ Attaches(c) \/ Gives(c) \/ FilesInterruption(c)
  <2>1. CASE ReconcileFirst(c) \/ Settle(c) \/ AbandonReconcile(c)
    <3>1. ReconcileAttempt /\ UNCHANGED trial
      BY <2>1 DEF ReconcileFirst, Settle, AbandonReconcile
    <3>2. InFlight # {} => Current \in AttemptId
      BY CurrentInFlight DEF InFlight
    <3>. QED BY <3>1, <3>2, ReconcileEffect DEF Types
  <2>2. CASE Attach(c)
    BY <2>2, AttachEffect
  <2>3. CASE Materialize(c) \/ RecordBaseline(c)
    BY <2>3, GiveEffect
  <2>4. CASE FileInterruption(c)
    BY <2>4, InterruptionEffect
  <2>5. CASE \/ StartRun(c) \/ Remediate(c) \/ BeginAbandon(c) \/ Load(c)
             \/ StartInterruption(c)
    BY <2>5 DEF StartRun, Remediate, BeginAbandon, Load, LoadRows, StartInterruption,
       RowsVars, ledgerVars
  <2>6. CASE \/ Create(c) \/ PauseBlock(c) \/ StartBlock(c) \/ SelectSlot(c)
             \/ Train(c) \/ ReadControl(c) \/ CheckTarget(c)
             \/ StartTrial(c) \/ RunTrial(c)
             \/ Discard(c) \/ CommitAnalysis(c) \/ PowerLoss(c)
             \/ RollbackInterrupted(c)
    BY <2>6 DEF Create, CreateCampaign, PauseBlock, StartBlock, SelectSlot, Choose,
       Finish, Train, ReadControl, Gather, CheckTarget, StartTrial, RunTrial,
       Discard, CommitAnalysis, PowerLoss, RollbackInterrupted
  <2>. QED BY <1>3, <2>1, <2>2, <2>3, <2>4, <2>5, <2>6 DEF CommandStep
<1>. QED BY <1>1, <1>2, <1>3, Steps
-----------------------------------------------------------------------------
(* What a command remembers when it has just moved.                        *)

(* It has read the campaign and the block.                                 *)
LEMMA ReadLocal ==
  ASSUME NEW at \in {"reconcile", "abandon"}, NEW st \in CampaignStatus,
         NEW b \in BlockStatus
  PROVE  /\ LocalOK([Idle EXCEPT !.at = at, !.seen = st, !.block = b])
         /\ LocalOK([Idle EXCEPT !.at = at, !.block = b])
<1>1. LocalOK([Idle EXCEPT !.at = at, !.seen = st, !.block = b])
  <2>. DEFINE l == [Idle EXCEPT !.at = at, !.seen = st, !.block = b]
  <2>1. /\ l \in [at: {at}, seen: {st}, block: {b}, open: BOOLEAN, slot: {0},
                  number: {0}, given: {{}}, trial: {NoTrial}]
        /\ l.at = at
    BY DEF Idle
  <2>. HIDE DEF l
  <2>2. l \in CommandState
    BY <2>1, SlotNumbers DEF CommandState, Positions
  <2>3. LocalOK(l)
    BY <2>1, <2>2 DEF LocalOK, OnSlot
  <2>. QED BY <2>3 DEF l
<1>2. LocalOK([Idle EXCEPT !.at = at, !.block = b])
  <2>. DEFINE l == [Idle EXCEPT !.at = at, !.block = b]
  <2>1. /\ l \in [at: {at}, seen: {"NONE"}, block: {b}, open: BOOLEAN, slot: {0},
                  number: {0}, given: {{}}, trial: {NoTrial}]
        /\ l.at = at
    BY DEF Idle
  <2>. HIDE DEF l
  <2>2. l \in CommandState
    BY <2>1, SlotNumbers DEF CommandState, Positions, CampaignStatus
  <2>3. LocalOK(l)
    BY <2>1, <2>2 DEF LocalOK, OnSlot
  <2>. QED BY <2>3 DEF l
<1>. QED BY <1>1, <1>2

(* It has found out whether a trial is in flight.                          *)
LEMMA OpenLocal ==
  ASSUME NEW at \in {"start", "run_once", "select"}, NEW open \in BOOLEAN
  PROVE  LocalOK([Idle EXCEPT !.at = at, !.open = open])
<1>. DEFINE l == [Idle EXCEPT !.at = at, !.open = open]
<1>1. /\ l \in [at: {at}, seen: {"NONE"}, block: {"NONE"}, open: BOOLEAN, slot: {0},
                number: {0}, given: {{}}, trial: {NoTrial}]
      /\ l.at = at
  BY DEF Idle
<1>. HIDE DEF l
<1>2. l \in CommandState
  BY <1>1, SlotNumbers DEF CommandState, Positions, CampaignStatus, BlockStatus
<1>3. LocalOK(l)
  BY <1>1, <1>2 DEF LocalOK, OnSlot
<1>. QED BY <1>3 DEF l

(* It has chosen a slot and the number of its attempt.                     *)
LEMMA ChosenLocal ==
  ASSUME NEW at \in OnSlot, NEW s \in Slot, NEW n \in 1..MaxAttempts,
         at \in {"rollback", "interruption"} => n < MaxAttempts
  PROVE  /\ LocalOK([Idle EXCEPT !.at = at, !.slot = s, !.number = n])
         /\ [Idle EXCEPT !.at = at, !.slot = s, !.number = n].at = at
         /\ [Idle EXCEPT !.at = at, !.slot = s, !.number = n].slot = s
         /\ [Idle EXCEPT !.at = at, !.slot = s, !.number = n].number = n
         /\ [Idle EXCEPT !.at = at, !.slot = s, !.number = n].given = {}
<1>. DEFINE l == [Idle EXCEPT !.at = at, !.slot = s, !.number = n]
<1>1. /\ l \in [at: {at}, seen: {"NONE"}, block: {"NONE"}, open: BOOLEAN, slot: {s},
                number: {n}, given: {{}}, trial: {NoTrial}]
      /\ l.at = at /\ l.slot = s /\ l.number = n /\ l.given = {}
  BY DEF Idle
<1>. HIDE DEF l
<1>2. l \in CommandState
  BY <1>1, SlotNumbers DEF CommandState, Positions, CampaignStatus, BlockStatus, OnSlot
<1>3. LocalOK(l)
  BY <1>1, <1>2, SlotNumbers DEF LocalOK, OnSlot
<1>. QED BY <1>1, <1>3 DEF l

(* It has read what its slot is to be given, or written it.                *)
LEMMA GatherLocal ==
  ASSUME CallerOK, NEW c \in Caller, caller[c].at \in OnSlot,
         NEW at \in {"materialize", "baseline", "trial"}, NEW g \in SUBSET Slot
  PROVE  /\ LocalOK([caller[c] EXCEPT !.at = at, !.given = g])
         /\ [caller[c] EXCEPT !.at = at, !.given = g].at = at
         /\ [caller[c] EXCEPT !.at = at, !.given = g].slot = caller[c].slot
         /\ [caller[c] EXCEPT !.at = at, !.given = g].number = caller[c].number
         /\ [caller[c] EXCEPT !.at = at, !.given = g].given = g
<1>. DEFINE l == [caller[c] EXCEPT !.at = at, !.given = g]
<1>1. caller[c] \in CommandState /\ LocalOK(caller[c])
  BY DEF CallerOK
<1>2. /\ l \in CommandState
      /\ l.at = at /\ l.slot = caller[c].slot /\ l.number = caller[c].number
      /\ l.given = g
  BY <1>1 DEF CommandState, Positions
<1>. HIDE DEF l
<1>3. LocalOK(l)
  BY <1>1, <1>2 DEF LocalOK, OnSlot
<1>. QED BY <1>2, <1>3 DEF l

(* It has claimed a trial, or ended it.                                    *)
LEMMA ClaimLocal ==
  ASSUME CallerOK, NEW c \in Caller, NEW at \in {"measure", "settle"},
         NEW t \in TrialId \cup {NoTrial}, at = "measure" => t \in TrialId
  PROVE  LocalOK([caller[c] EXCEPT !.at = at, !.trial = t])
<1>. DEFINE l == [caller[c] EXCEPT !.at = at, !.trial = t]
<1>1. caller[c] \in CommandState
  BY DEF CallerOK
<1>2. l \in CommandState /\ l.at = at /\ l.trial = t
  BY <1>1 DEF CommandState, Positions
<1>. HIDE DEF l
<1>3. LocalOK(l)
  BY <1>2 DEF LocalOK, OnSlot
<1>. QED BY <1>3 DEF l

(***************************************************************************)
(* Every step leaves every command at a place that fits what it remembers. *)
(***************************************************************************)

(* A claimed trial exists, a selected slot has an attempt left.            *)
LEMMA SelectedSlot ==
  ASSUME Types, NEW c \in Caller, Choose(c, Startable, FirstStep)
  PROVE  \E s \in Slot, n \in 1..MaxAttempts, at \in OnSlot \ {"rollback", "interruption"} :
           /\ slot[s].status \in Startable
           /\ at = FirstStep[s]
           /\ n = slot[s].attempts + 1
           /\ caller' = [caller EXCEPT ![c] =
                [Idle EXCEPT !.at = at, !.slot = s, !.number = n]]
<1>. DEFINE s == Min(Runnable(Startable))
<1>1. Runnable(Startable) \in SUBSET Slot /\ Runnable(Startable) # {}
  BY DEF Choose, Runnable
<1>2. s \in Runnable(Startable)
  BY <1>1, FirstSlot
<1>3. s \in Slot /\ slot[s].status \in Startable
  BY <1>2 DEF Runnable
<1>4. caller' = [caller EXCEPT ![c] =
        [Idle EXCEPT !.at = FirstStep[s], !.slot = s, !.number = slot[s].attempts + 1]]
  BY DEF Choose
<1>. HIDE DEF s
<1>5. slot[s].status \in Executable \cup {"PLANNED"}
  BY <1>3 DEF Startable
<1>6. slot[s].attempts \in 0..2
  BY <1>3, <1>5, SlotNumbers DEF Types, TypeOK, RetryLeft
<1>7. slot[s].attempts + 1 \in 1..MaxAttempts
  BY <1>6, SlotNumbers
<1>8. FirstStep[s] \in {"train", "trial", "control", "canonical"}
  BY <1>3 DEF FirstStep
<1>. QED BY <1>3, <1>4, <1>7, <1>8, Zenon DEF OnSlot

(* Every step of a command leads to a position that fits.                  *)
LEMMA CallerStep ==
  ASSUME Types, NEW c \in Caller, CommandStep(c)
  PROVE  CallerOK'
<1>. CallerOK
  BY DEF Types
<1>1. CASE Leave(c)
  BY <1>1, LeaveOK
<1>2. ASSUME NEW l, LocalOK(l), caller' = [caller EXCEPT ![c] = l]
      PROVE  CallerOK'
  BY <1>2, CallerMoves
<1>3. ASSUME NEW at \in Positions \ (OnSlot \cup {"idle", "measure"}),
             caller' = [caller EXCEPT ![c] = [Idle EXCEPT !.at = at]]
      PROVE  CallerOK'
  BY <1>2, <1>3, FreshLocal, Zenon
<1>4. CASE Create(c) \/ PauseBlock(c) \/ CheckTarget(c) \/ StartTrial(c)
           \/ RollbackInterrupted(c)
  <2>1. CASE Create(c) \/ PauseBlock(c)
    BY <2>1, ProceedOK DEF Create, CreateCampaign, OpenCampaign, PauseBlock, Positions,
       OnSlot
  <2>2. CASE CheckTarget(c) \/ StartTrial(c)
    BY <1>1, <2>2, ProceedOK DEF CheckTarget, StartTrial, CreateTrial, Positions, OnSlot
  <2>3. CASE RollbackInterrupted(c)
    BY <2>3, ProceedOK DEF RollbackInterrupted, Positions, OnSlot
  <2>. QED BY <1>4, <2>1, <2>2, <2>3
<1>5. CASE StartRun(c) \/ BeginAbandon(c)
  BY <1>2, <1>5, ReadLocal DEF StartRun, Begin, Enter, BeginAbandon, Types, TypeOK
<1>6. CASE ReconcileFirst(c)
  <2>1. caller' = [caller EXCEPT ![c] = [Idle EXCEPT !.at = "exhausted"]] => CallerOK'
    BY <1>3 DEF Positions, OnSlot
  <2>2. ASSUME NEW at \in {"start", "run_once", "select"}, NEW open \in BOOLEAN,
               caller' = [caller EXCEPT ![c] = [Idle EXCEPT !.at = at, !.open = open]]
        PROVE  CallerOK'
    BY <1>2, <2>2, OpenLocal, Zenon
  <2>. DEFINE open == InFlight # {} /\ ~Settled(Current)
              next == CASE caller[c].block = "PLANNED" -> "start"
                        [] open -> "run_once"
                        [] OTHER -> "select"
  <2>3. next \in {"start", "run_once", "select"} /\ open \in BOOLEAN
    OBVIOUS
  <2>4. caller' = [caller EXCEPT ![c] =
          CASE Exhausts -> [Idle EXCEPT !.at = "exhausted"]
            [] ~Exhausts /\ GateOpen(c) -> [Idle EXCEPT !.at = next, !.open = open]
            [] OTHER -> Idle]
    BY <1>6 DEF ReconcileFirst
  <2>. HIDE DEF open, next
  <2>5. CASE Exhausts
    BY <2>1, <2>4, <2>5
  <2>6. CASE ~Exhausts /\ GateOpen(c)
    <3>1. caller' = [caller EXCEPT ![c] = [Idle EXCEPT !.at = next, !.open = open]]
      BY <2>4, <2>6
    <3>. QED BY <2>2, <2>3, <3>1, Zenon
  <2>7. CASE ~Exhausts /\ ~GateOpen(c)
    BY <1>1, <2>4, <2>7 DEF Leave
  <2>. QED BY <2>5, <2>6, <2>7
<1>7. CASE SelectSlot(c)
  <2>1. CASE Choose(c, Startable, FirstStep)
    <3>1. PICK s \in Slot, n \in 1..MaxAttempts,
               at \in OnSlot \ {"rollback", "interruption"} :
             /\ slot[s].status \in Startable
             /\ at = FirstStep[s]
             /\ n = slot[s].attempts + 1
             /\ caller' = [caller EXCEPT ![c] =
                  [Idle EXCEPT !.at = at, !.slot = s, !.number = n]]
      BY <2>1, SelectedSlot, Zenon
    <3>2. LocalOK([Idle EXCEPT !.at = at, !.slot = s, !.number = n])
      BY ChosenLocal
    <3>. QED BY <1>2, <3>1, <3>2, Zenon
  <2>2. CASE Finish(c, Startable)
    BY <1>1, <2>2, ProceedOK DEF Finish, Positions, OnSlot
  <2>. QED BY <1>7, <2>1, <2>2 DEF SelectSlot
<1>8. CASE Train(c) \/ ReadControl(c)
  <2>1. ASSUME NEW at \in {"materialize", "baseline"}, NEW g \in SUBSET Slot,
               caller[c].at \in OnSlot,
               caller' = [caller EXCEPT ![c] =
                 [caller[c] EXCEPT !.at = at, !.given = g]]
        PROVE  CallerOK'
    <3>1. LocalOK([caller[c] EXCEPT !.at = at, !.given = g])
      BY <2>1, GatherLocal
    <3>. QED BY <1>2, <2>1, <3>1
  <2>2. Completed(caller[c].slot) \in SUBSET Slot
        /\ Latest(Completed(caller[c].slot) \cap Controls) \in SUBSET Slot
    BY DEF Completed, Latest
  <2>3. CASE Train(c)
    BY <1>1, <2>1, <2>2, <2>3 DEF Train, Gather, OnSlot, Leave
  <2>4. CASE ReadControl(c)
    BY <1>1, <2>1, <2>2, <2>4 DEF ReadControl, Gather, OnSlot, Leave
  <2>. QED BY <1>8, <2>3, <2>4
<1>9. CASE Materialize(c) \/ RecordBaseline(c)
  <2>1. CASE Gives(c)
    <3>1. caller[c].at \in OnSlot
      BY <2>1 DEF Gives, OnSlot
    <3>2. LocalOK([caller[c] EXCEPT !.at = "trial", !.given = {}])
      BY <3>1, GatherLocal
    <3>. QED BY <1>2, <2>1, <3>2 DEF Gives
  <2>. QED BY <1>1, <1>9, <2>1, GiveEffect
<1>10. CASE RunTrial(c)
  <2>1. ASSUME NEW at \in {"measure", "settle"}, NEW t \in TrialId \cup {NoTrial},
               at = "measure" => t \in TrialId,
               caller' = [caller EXCEPT ![c] =
                 [caller[c] EXCEPT !.at = at, !.trial = t]]
        PROVE  CallerOK'
    BY <1>2, <2>1, ClaimLocal, Zenon
  <2>2. CASE RunOnce(c, "settle")
    <3>1. CASE Proceed(c, "settle")
      BY <3>1, ProceedOK DEF Positions, OnSlot
    <3>2. CASE \E t \in TrialId :
                 caller' = [caller EXCEPT ![c].at = "measure", ![c].trial = t]
      <4>1. PICK t \in TrialId :
              caller' = [caller EXCEPT ![c].at = "measure", ![c].trial = t]
        BY <3>2
      <4>2. caller' = [caller EXCEPT ![c] =
              [caller[c] EXCEPT !.at = "measure", !.trial = t]]
        BY <4>1
      <4>. QED BY <2>1, <4>2
    <3>. QED BY <2>2, <3>1, <3>2 DEF RunOnce, Claimable
  <2>3. CASE Measured(c, "settle")
    <3>1. caller' = [caller EXCEPT ![c].at = "settle", ![c].trial = NoTrial]
      BY <2>3 DEF Measured
    <3>2. caller' = [caller EXCEPT ![c] =
            [caller[c] EXCEPT !.at = "settle", !.trial = NoTrial]]
      BY <3>1
    <3>. QED BY <2>1, <3>2
  <2>4. CASE AttemptFails(c) \/ LeaseLost(c)
    BY <1>1, <2>4 DEF AttemptFails, LeaseLost
  <2>. QED BY <1>10, <2>2, <2>3, <2>4 DEF RunTrial, Worker
<1>11. CASE StartInterruption(c)
  <2>1. PICK k \in AttemptId :
          /\ k[2] < MaxAttempts
          /\ caller' = [caller EXCEPT ![c] =
               [Idle EXCEPT !.at = "rollback", !.slot = k[1], !.number = k[2]]]
    BY <1>11 DEF StartInterruption, Enter
  <2>2. k[1] \in Slot /\ k[2] \in 1..MaxAttempts
    BY SlotNumbers
  <2>3. LocalOK([Idle EXCEPT !.at = "rollback", !.slot = k[1], !.number = k[2]])
    <3>1. "rollback" \in OnSlot
      BY DEF OnSlot
    <3>2. ASSUME NEW s \in Slot, NEW n \in 1..MaxAttempts, n < MaxAttempts
          PROVE  LocalOK([Idle EXCEPT !.at = "rollback", !.slot = s, !.number = n])
      BY <3>1, <3>2, ChosenLocal
    <3>. QED BY <2>1, <2>2, <3>2, Zenon
  <2>. QED BY <1>2, <2>1, <2>3
<1>12. CASE \/ StartBlock(c) \/ Attach(c) \/ Settle(c) \/ Remediate(c)
            \/ Discard(c) \/ Load(c) \/ CommitAnalysis(c)
  <2>1. \/ Leave(c)
        \/ \E at \in Positions \ (OnSlot \cup {"idle", "measure"}) :
             caller' = [caller EXCEPT ![c] = [Idle EXCEPT !.at = at]]
    BY <1>12 DEF StartBlock, Attach, Settle, Remediate, Enter, Discard, Load, LoadRows,
       CommitAnalysis, Positions, OnSlot
  <2>. QED BY <1>1, <1>3, <2>1
<1>13. CASE AbandonReconcile(c)
  BY <1>1, <1>13, ProceedOK DEF AbandonReconcile, Positions, OnSlot
<1>14. CASE Insert(c) \/ PowerLoss(c) \/ FileInterruption(c)
  BY <1>1, <1>14 DEF Insert, InsertLedger, PowerLoss, FileInterruption
<1>. QED BY <1>4, <1>5, <1>6, <1>7, <1>8, <1>9, <1>10, <1>11, <1>12, <1>13, <1>14
         DEF CommandStep

(* The rest of TypeOK.                                                     *)
CoreOK ==
  /\ kind \in Kind
  /\ campaign \in [status: CampaignStatus, emergency: BOOLEAN, failures: Nat]
  /\ block \in BlockStatus
  /\ trial \in [TrialId -> [state: TrialState, tries: 0..1]]
  /\ target \in TrialId \cup {Default, H25!Champion}

(* Campaign, block, trials and target keep their types.                    *)
LEMMA CoreStep ==
  ASSUME Types, CoreOK, [Next]_attemptVars
  PROVE  CoreOK' /\ kind' = kind
<1>. USE DEF CoreOK
<1>1. CASE UNCHANGED attemptVars
  BY <1>1 DEF attemptVars, coreVars
<1>2. CASE Deploy
  BY <1>2 DEF Deploy
<1>3. ASSUME NEW t \in TrialId, NEW st \in TrialState, NEW n \in 0..1
      PROVE  /\ [trial EXCEPT ![t].state = st] \in [TrialId -> [state: TrialState, tries: 0..1]]
             /\ [trial EXCEPT ![t] = [state |-> st, tries |-> n]] \in
                  [TrialId -> [state: TrialState, tries: 0..1]]
  OBVIOUS
<1>31. ASSUME NEW t \in TrialId, NEW st \in TrialState,
              trial' = trial \/ trial' = [trial EXCEPT ![t].state = st]
       PROVE  trial' \in [TrialId -> [state: TrialState, tries: 0..1]]
  BY <1>3, <1>31
<1>4. ASSUME NEW st \in CampaignStatus
      PROVE  [campaign EXCEPT !.status = st] \in
               [status: CampaignStatus, emergency: BOOLEAN, failures: Nat]
  OBVIOUS
<1>5. CASE Operator
  <2>1. PICK action \in {"pause", "resume", "stop", "emergency-stop"} :
          /\ campaign' = [campaign EXCEPT
               !.status = Target(action), !.emergency = @ \/ action = "emergency-stop"]
          /\ trial' = [t \in TrialId |->
               IF action = "emergency-stop" /\ t \in Unfinished
                 THEN [trial[t] EXCEPT !.state = "CANCELLED"] ELSE trial[t]]
    BY <1>5 DEF Operator, Control
  <2>2. campaign' \in [status: CampaignStatus, emergency: BOOLEAN, failures: Nat]
    BY <2>1 DEF Target, CampaignStatus, Open
  <2>3. trial' \in [TrialId -> [state: TrialState, tries: 0..1]]
    BY <2>1 DEF TrialState, Ended
  <2>. QED BY <1>5, <2>2, <2>3 DEF Operator, Control
<1>6. ASSUME NEW c \in Caller, Leaving(c)
      PROVE  CoreOK' /\ kind' = kind
  <2>1. CASE Steer(c, "pause") \/ Steer(c, "stop")
    BY <1>4, <2>1 DEF Steer, Target, CampaignStatus, Open
  <2>2. CASE Crash(c)
    <3>1. caller[c].at = "measure" => caller[c].trial \in TrialId
      BY DEF Types, TypeOK
    <3>2. trial' \in [TrialId -> [state: TrialState, tries: 0..1]]
      BY <1>3, <2>2, <3>1 DEF Crash, TrialState
    <3>3. target' \in TrialId \cup {Default, H25!Champion}
      BY <2>2, <3>1 DEF Crash
    <3>. QED BY <2>2, <3>2, <3>3 DEF Crash
  <2>. QED BY <1>6, <2>1, <2>2 DEF Leaving
<1>7. ASSUME NEW c \in Caller, CommandStep(c)
      PROVE  CoreOK' /\ kind' = kind
  <2>1. CASE Create(c)
    BY <2>1 DEF Create, CreateCampaign, OpenCampaign, CampaignStatus, Open
  <2>2. CASE Insert(c)
    BY <2>2 DEF Insert, InsertLedger, Absent, TrialState, BlockStatus
  <2>3. CASE StartRun(c) \/ Remediate(c) \/ BeginAbandon(c) \/ StartInterruption(c)
    BY <2>3 DEF StartRun, Remediate, BeginAbandon, StartInterruption, RowsVars
  <2>4. CASE \/ ReconcileFirst(c) \/ Settle(c) \/ AbandonReconcile(c) \/ Materialize(c)
             \/ RecordBaseline(c) \/ CheckTarget(c) \/ Attach(c) \/ Load(c)
    BY <2>4 DEF ReconcileFirst, Settle, AbandonReconcile, Materialize, RecordBaseline,
       CheckTarget, Attach, Load, LoadRows
  <2>5. CASE Train(c) \/ ReadControl(c)
    BY <2>5 DEF Train, ReadControl, Gather
  <2>6. CASE PauseBlock(c) \/ StartBlock(c) \/ SelectSlot(c) \/ Discard(c)
             \/ CommitAnalysis(c)
    BY <2>6 DEF PauseBlock, StartBlock, SelectSlot, Choose, Finish, Discard,
       CommitAnalysis, BlockStatus
  <2>7. CASE StartTrial(c)
    <3>1. <<caller[c].slot, caller[c].number>> \in TrialId
      BY <2>7, SlotNumbers DEF StartTrial, Types, TypeOK
    <3>2. "QUEUED" \in TrialState
      BY DEF TrialState
    <3>3. trial' \in [TrialId -> [state: TrialState, tries: 0..1]]
      BY <1>31, <2>7, <3>1, <3>2 DEF StartTrial, CreateTrial
    <3>. QED BY <2>7, <3>3 DEF StartTrial, CreateTrial
  <2>8. CASE RunTrial(c)
    <3>0. caller[c].at = "measure" => caller[c].trial \in TrialId
      BY DEF Types, TypeOK
    <3>1. CASE RunOnce(c, "settle")
      <4>1. \A t \in Claimable : t \in TrialId /\ trial[t].tries + 1 \in 0..1
        BY ConfirmatoryAssumption DEF Claimable
      <4>. QED BY <1>3, <3>1, <4>1 DEF RunOnce, TrialState
    <3>2. CASE Measured(c, "settle")
      <4>1. PICK outcome \in {"COMPLETED", "INVALID"} :
              trial' = [trial EXCEPT ![caller[c].trial].state = outcome]
        BY <3>2 DEF Measured
      <4>2. outcome \in TrialState
        BY DEF TrialState, Ended
      <4>3. trial' \in [TrialId -> [state: TrialState, tries: 0..1]]
        BY <1>31, <3>0, <3>2, <4>1, <4>2 DEF Measured
      <4>. QED BY <3>2, <4>3 DEF Measured
    <3>3. CASE AttemptFails(c)
      <4>1. trial' \in [TrialId -> [state: TrialState, tries: 0..1]]
        <5>1. PICK outcome \in TrialState :
                trial' = [trial EXCEPT ![caller[c].trial].state = outcome]
          BY <3>3 DEF AttemptFails, TrialState, Ended
        <5>. QED BY <1>31, <3>0, <3>3, <5>1 DEF AttemptFails
      <4>2. campaign' \in [status: CampaignStatus, emergency: BOOLEAN, failures: Nat]
        <5>1. \/ campaign' = campaign
              \/ \E st \in CampaignStatus :
                   campaign' = [campaign EXCEPT !.failures = campaign.failures + 1,
                                                !.status = st]
          BY <3>3 DEF AttemptFails, CampaignStatus
        <5>2. ASSUME NEW st \in CampaignStatus, NEW n \in Nat
              PROVE  [campaign EXCEPT !.failures = n, !.status = st] \in
                       [status: CampaignStatus, emergency: BOOLEAN, failures: Nat]
          OBVIOUS
        <5>3. campaign.failures + 1 \in Nat
          OBVIOUS
        <5>. QED BY <5>1, <5>2, <5>3, Zenon
      <4>3. target' \in TrialId \cup {Default, H25!Champion}
        BY <3>3 DEF AttemptFails
      <4>. QED BY <3>3, <4>1, <4>2, <4>3 DEF AttemptFails
    <3>4. CASE LeaseLost(c)
      BY <3>4 DEF LeaseLost
    <3>. QED BY <2>8, <3>1, <3>2, <3>3, <3>4 DEF RunTrial, Worker
  <2>9. CASE PowerLoss(c)
    BY <1>3, <2>9 DEF PowerLoss, TrialState, Types, TypeOK
  <2>10. CASE RollbackInterrupted(c)
    BY <2>10 DEF RollbackInterrupted
  <2>11. CASE FileInterruption(c)
    <3>1. <<caller[c].slot, caller[c].number>> \in TrialId
      BY <2>11, SlotNumbers DEF FileInterruption, Types, TypeOK
    <3>2. trial' \in [TrialId -> [state: TrialState, tries: 0..1]]
      <4>1. "INFRA" \in TrialState
        BY DEF TrialState, Ended
      <4>. QED BY <1>31, <2>11, <3>1, <4>1 DEF FileInterruption
    <3>3. campaign' \in [status: CampaignStatus, emergency: BOOLEAN, failures: Nat]
      BY <2>11 DEF FileInterruption
    <3>. QED BY <2>11, <3>2, <3>3 DEF FileInterruption
  <2>. QED BY <1>7, <2>1, <2>2, <2>3, <2>4, <2>5, <2>6, <2>7, <2>8, <2>9, <2>10, <2>11
           DEF CommandStep
<1>. QED BY <1>1, <1>2, <1>5, <1>6, <1>7, Steps

(* The history variable is a truth value.                                  *)
LEMMA OverlapStep ==
  ASSUME overlapped \in BOOLEAN, [Next]_attemptVars
  PROVE  overlapped' \in BOOLEAN
<1>1. ASSUME NEW c \in Caller, CommandStep(c)
      PROVE  overlapped' = overlapped \/ overlapped' \in BOOLEAN
  <2>1. CASE StartRun(c) \/ Remediate(c) \/ BeginAbandon(c) \/ StartInterruption(c)
             \/ Load(c)
    <3>1. overlapped' = (overlapped \/ ~Quiet)
      BY <2>1, Zenon DEF StartRun, Begin, Remediate, BeginAbandon, StartInterruption,
         Load, LoadRows, Enter
    <3>. QED BY <3>1
  <2>2. CASE Insert(c)
    BY <2>2, Zenon DEF Insert, InsertLedger
  <2>3. CASE \/ Create(c) \/ ReconcileFirst(c) \/ PauseBlock(c) \/ StartBlock(c)
             \/ SelectSlot(c) \/ Train(c) \/ Materialize(c) \/ ReadControl(c)
    <3>1. UNCHANGED overlapped
      BY <2>3, Zenon DEF Create, CreateCampaign, OpenCampaign, ReconcileFirst, PauseBlock,
         StartBlock, SelectSlot, Choose, Finish, Train, Materialize, ReadControl, Gather
    <3>. QED BY <3>1
  <2>4. CASE \/ RecordBaseline(c) \/ CheckTarget(c) \/ StartTrial(c) \/ Attach(c)
             \/ RunTrial(c)
    <3>1. UNCHANGED overlapped
      BY <2>4, Zenon DEF RecordBaseline, CheckTarget, StartTrial, CreateTrial, Attach,
         RunTrial, Worker, RunOnce, Measured, AttemptFails, LeaseLost
    <3>. QED BY <3>1
  <2>5. CASE \/ Settle(c) \/ AbandonReconcile(c) \/ Discard(c) \/ CommitAnalysis(c)
             \/ PowerLoss(c) \/ RollbackInterrupted(c) \/ FileInterruption(c)
    <3>1. UNCHANGED overlapped
      BY <2>5, Zenon DEF Settle, AbandonReconcile, Discard, CommitAnalysis, PowerLoss,
         RollbackInterrupted, FileInterruption
    <3>. QED BY <3>1
  <2>. QED BY <1>1, <2>1, <2>2, <2>3, <2>4, <2>5 DEF CommandStep
<1>2. CASE \/ UNCHANGED attemptVars \/ Operator \/ Deploy
           \/ \E c \in Caller : Leaving(c)
  <2>1. UNCHANGED overlapped
    BY <1>2 DEF attemptVars, coreVars, Operator, Control, Deploy, Leaving, Steer, Crash
  <2>. QED BY <2>1
<1>. QED BY <1>1, <1>2, Steps

(* The ledger keeps its type, and a retry for every slot that may run.     *)
LEMMA LedgerStep ==
  ASSUME Types, [Next]_attemptVars
  PROVE  /\ slot' \in [Slot -> SlotRow]
         /\ RetryLeft'
         /\ attempt' \in [AttemptId -> AttemptStatus]
<1>0. /\ slot \in [Slot -> SlotRow]
      /\ attempt \in [AttemptId -> AttemptStatus]
      /\ RetryLeft
      /\ TypeOK
      /\ \A c \in Caller : caller[c] \in CommandState
  BY DEF Types, TypeOK, SlotRow, CallerOK
<1>1. CASE UNCHANGED ledgerVars
  BY <1>0, <1>1 DEF ledgerVars, RetryLeft
<1>2. ASSUME NEW c \in Caller, Insert(c)
      PROVE  /\ slot' \in [Slot -> SlotRow]
             /\ RetryLeft'
             /\ attempt' \in [AttemptId -> AttemptStatus]
  <2>1. /\ slot' = [s \in Slot |-> NewSlot(IF Adapts /\ s \in Adaptive THEN "PLANNED"
                                                                      ELSE "PROPOSED")]
        /\ attempt' = [k \in AttemptId |-> "NONE"]
    BY <1>2 DEF Insert, InsertLedger
  <2>. QED BY <2>1, SlotNumbers DEF NewSlot, SlotRow, SlotStatus, Executable, AttemptStatus,
              RetryLeft
<1>3. ASSUME NEW k \in AttemptId, Files(k)
      PROVE  /\ slot' \in [Slot -> SlotRow]
             /\ RetryLeft'
             /\ attempt' \in [AttemptId -> AttemptStatus]
  BY <1>0, <1>3, FilesType
<1>4. ASSUME NEW c \in Caller, Attaches(c)
      PROVE  /\ slot' \in [Slot -> SlotRow]
             /\ RetryLeft'
             /\ attempt' \in [AttemptId -> AttemptStatus]
  <2>. DEFINE s == caller[c].slot
              k == <<s, caller[c].number>>
              r == [status |-> "CREATED", attempts |-> slot[s].attempts,
                    given |-> slot[s].given]
  <2>1. s \in Slot /\ k \in AttemptId
    BY <1>4, SlotNumbers DEF Attaches
  <2>2. /\ r \in SlotRow
        /\ r.status \notin Executable \cup {"PLANNED"}
    BY <1>0, <2>1 DEF SlotRow, SlotStatus, Executable
  <2>3. slot' = [slot EXCEPT ![s] = r]
    BY <1>4, <2>1 DEF Attaches
  <2>4. attempt' \in [AttemptId -> AttemptStatus]
    BY <1>0, <1>4, <2>1 DEF Attaches, AttemptStatus
  <2>. HIDE DEF r, s
  <2>. QED BY <1>0, <2>1, <2>2, <2>3, <2>4, SlotChange
<1>5. ASSUME NEW c \in Caller, Gives(c)
      PROVE  /\ slot' \in [Slot -> SlotRow]
             /\ RetryLeft'
             /\ attempt' \in [AttemptId -> AttemptStatus]
  <2>. DEFINE s == caller[c].slot
              r == [status |-> IF Adapts THEN "PROPOSED" ELSE slot[s].status,
                    attempts |-> slot[s].attempts, given |-> caller[c].given]
  <2>1. /\ s \in Slot /\ UNCHANGED attempt
        /\ slot[s].status \in Executable \cup {"PLANNED"}
        /\ slot' = [slot EXCEPT ![s] = r]
    BY <1>5 DEF Gives, Adapts
  <2>2. slot[s] \in SlotRow /\ caller[c].given \in SUBSET Slot
        /\ slot[s].attempts < MaxAttempts
    BY <1>0, <2>1 DEF RetryLeft, CommandState
  <2>3. /\ r \in SlotRow
        /\ r.attempts < MaxAttempts
    BY <2>1, <2>2 DEF SlotRow, SlotStatus, Executable
  <2>. HIDE DEF r, s
  <2>. QED BY <1>0, <2>1, <2>3, SlotChange
<1>6. ASSUME NEW c \in Caller, FilesInterruption(c)
      PROVE  /\ slot' \in [Slot -> SlotRow]
             /\ RetryLeft'
             /\ attempt' \in [AttemptId -> AttemptStatus]
  <2>. DEFINE s == caller[c].slot
              n == caller[c].number
              k == <<s, n>>
              r == [status |-> "RETRY_PENDING", attempts |-> n, given |-> slot[s].given]
  <2>1. /\ s \in Slot /\ k \in AttemptId /\ n \in 0..MaxAttempts /\ n < MaxAttempts
        /\ slot' = [slot EXCEPT ![s] = r]
        /\ attempt' = [attempt EXCEPT ![k] = "INFRASTRUCTURE_FAILED"]
    BY <1>6, SlotNumbers DEF FilesInterruption
  <2>2. r \in SlotRow /\ r.attempts < MaxAttempts
    BY <1>0, <2>1 DEF SlotRow, SlotStatus, Executable
  <2>3. attempt' \in [AttemptId -> AttemptStatus]
    BY <1>0, <2>1 DEF AttemptStatus
  <2>. HIDE DEF r, s, n
  <2>. QED BY <1>0, <2>1, <2>2, <2>3, SlotChange
<1>. QED BY <1>1, <1>2, <1>3, <1>4, <1>5, <1>6, LedgerWrites

(* Trials of these stages are tried once.                                  *)
LEMMA CoreTypes == kind \in Kind => MaxTries[kind] = 1
BY ConfirmatoryAssumption

(* The initial state is well-typed.                                        *)
LEMMA TypesInit ==
  ASSUME Init
  PROVE  Types
<1>. USE DEF Init, InitCore, InitLedger
<1>1. slot \in [Slot -> SlotRow] /\ attempt \in [AttemptId -> AttemptStatus] /\ RetryLeft
  BY SlotNumbers DEF NewSlot, SlotRow, SlotStatus, AttemptStatus, RetryLeft, Executable
<1>2. CallerOK
  BY IdleLocal DEF CallerOK, LocalOK
<1>3. trial \in [TrialId -> [state: TrialState, tries: 0..MaxTries[kind]]]
  BY CoreTypes DEF Absent, TrialState
<1>4. campaign \in [status: CampaignStatus, emergency: BOOLEAN, failures: Nat]
  BY DEF CampaignStatus
<1>5. block \in BlockStatus /\ overlapped \in BOOLEAN
  BY DEF BlockStatus
<1>. QED BY <1>1, <1>2, <1>3, <1>4, <1>5
         DEF Types, TypeOK, CallerOK, CommandState, LocalOK, OnSlot, SlotRow

(* Every step keeps the types.                                             *)
LEMMA TypesStep ==
  ASSUME Types, [Next]_attemptVars
  PROVE  Types' /\ kind' = kind
<1>1. CoreOK
  BY CoreTypes DEF Types, TypeOK, CoreOK
<1>2. CoreOK' /\ kind' = kind
  BY <1>1, CoreStep
<1>3. /\ slot' \in [Slot -> SlotRow] /\ RetryLeft'
      /\ attempt' \in [AttemptId -> AttemptStatus]
  BY LedgerStep
<1>4. overlapped' \in BOOLEAN
  BY OverlapStep DEF Types, TypeOK
<1>5. CallerOK'
  <2>1. UNCHANGED caller => CallerOK'
    BY DEF Types, CallerOK, LocalOK
  <2>2. ASSUME NEW c \in Caller, Leaving(c)
        PROVE  CallerOK'
    BY <2>2, LeaveOK DEF Types, Leaving, Steer, Crash
  <2>3. UNCHANGED attemptVars \/ Operator \/ Deploy => UNCHANGED caller
    BY DEF attemptVars, coreVars, Operator, Control, Deploy
  <2>. QED BY <2>1, <2>2, <2>3, CallerStep, Steps
<1>6. trial' \in [TrialId -> [state: TrialState, tries: 0..MaxTries[kind']]]
  BY <1>2, CoreTypes DEF CoreOK
<1>. QED BY <1>2, <1>3, <1>4, <1>5, <1>6
         DEF Types, TypeOK, CoreOK, CallerOK, CommandState, LocalOK, OnSlot, SlotRow

(* Every variable of every stage keeps its type, and a command has its     *)
(* slot, an attempt number no greater than three, and its trial when it    *)
(* needs them, however commands overlap.                                   *)
THEOREM TypesHold == Spec => []TypeOK
<1>1. Types /\ [Next]_attemptVars => Types'
  BY TypesStep
<1>2. Types => TypeOK
  BY DEF Types
<1>. QED BY <1>1, <1>2, TypesInit, PTL DEF Spec

-----------------------------------------------------------------------------
(***************************************************************************)
(* Where a command has come to after a step, and what it remembers there.  *)
(***************************************************************************)

(* A command that ends remembers nothing.                                  *)
LEMMA LeaveAfter ==
  ASSUME CallerOK, NEW c \in Caller, Leave(c)
  PROVE  /\ caller'[c] = Idle
         /\ caller'[c].at = "idle" /\ caller'[c].given = {} /\ caller'[c].slot = 0
BY DEF CallerOK, Leave, Idle

(* One that goes on remembers what it did.                                 *)
LEMMA ProceedAfter ==
  ASSUME CallerOK, NEW c \in Caller, NEW at, Proceed(c, at)
  PROVE  /\ caller'[c].at = at
         /\ caller'[c].slot = caller[c].slot
         /\ caller'[c].number = caller[c].number
         /\ caller'[c].given = caller[c].given
         /\ caller'[c].trial = caller[c].trial
         /\ caller'[c].block = caller[c].block
BY DEF CallerOK, Proceed, CommandState

(* One that starts over remembers only its position.                       *)
LEMMA FreshAfter ==
  ASSUME CallerOK, NEW c \in Caller, NEW at,
         caller' = [caller EXCEPT ![c] = [Idle EXCEPT !.at = at]]
  PROVE  caller'[c].at = at /\ caller'[c].given = {} /\ caller'[c].slot = 0
<1>1. /\ [Idle EXCEPT !.at = at].at = at
      /\ [Idle EXCEPT !.at = at].given = {}
      /\ [Idle EXCEPT !.at = at].slot = 0
  BY DEF Idle
<1>2. caller'[c] = [Idle EXCEPT !.at = at]
  BY DEF CallerOK
<1>. QED BY <1>1, <1>2, Zenon

(* Only the command that takes the step moves.                             *)
LEMMA OthersStay ==
  ASSUME CallerOK, NEW c \in Caller, CommandStep(c) \/ Leaving(c),
         NEW d \in Caller, d # c
  PROVE  caller'[d] = caller[d]
<1>1. ASSUME NEW l, caller' = [caller EXCEPT ![c] = l]
      PROVE  caller'[d] = caller[d]
  BY <1>1 DEF CallerOK
<1>2. \E l : caller' = [caller EXCEPT ![c] = l]
  <2>1. CASE Leaving(c)
    BY <2>1 DEF Leaving, Steer, Crash, Leave
  <2>2. CASE \/ Create(c) \/ Insert(c) \/ StartRun(c) \/ ReconcileFirst(c)
             \/ PauseBlock(c) \/ StartBlock(c)
    BY <2>2 DEF Create, CreateCampaign, OpenCampaign, Insert, InsertLedger, StartRun,
       Begin, Enter, ReconcileFirst, PauseBlock, StartBlock, Leave, Proceed
  <2>3. CASE \/ SelectSlot(c) \/ Train(c) \/ Materialize(c) \/ ReadControl(c)
             \/ RecordBaseline(c) \/ CheckTarget(c)
    BY <2>3 DEF SelectSlot, Choose, Finish, Train, Gather, Materialize, ReadControl,
       RecordBaseline, CheckTarget, Leave, Proceed
  <2>4. CASE \/ StartTrial(c) \/ Attach(c) \/ RunTrial(c) \/ Settle(c) \/ Remediate(c)
    BY <2>4 DEF StartTrial, CreateTrial, Attach, RunTrial, Worker, RunOnce, Measured,
       AttemptFails, LeaseLost, Settle, Remediate, Enter, Leave, Proceed
  <2>5. CASE \/ BeginAbandon(c) \/ AbandonReconcile(c) \/ Discard(c) \/ Load(c)
             \/ CommitAnalysis(c) \/ PowerLoss(c) \/ StartInterruption(c)
             \/ RollbackInterrupted(c) \/ FileInterruption(c)
    BY <2>5 DEF BeginAbandon, Enter, AbandonReconcile, Discard, Load, LoadRows,
       CommitAnalysis, PowerLoss, StartInterruption, RollbackInterrupted,
       FileInterruption, Leave, Proceed
  <2>. QED BY <2>1, <2>2, <2>3, <2>4, <2>5 DEF CommandStep
<1>. QED BY <1>1, <1>2

(* Nobody moves otherwise.                                                 *)
LEMMA NobodyMoves ==
  ASSUME UNCHANGED attemptVars \/ Operator \/ Deploy
  PROVE  UNCHANGED <<kind, block, caller, ledgerVars>>
BY DEF attemptVars, coreVars, Operator, Control, Deploy

(* What a command has gathered, until it has written it.                   *)
GivenAt(l) == l.given # {} => l.at \in {"materialize", "baseline"}

(* How a command comes to the places where the ledger or its evidence is   *)
(* written.                                                                *)
LEMMA Arrivals ==
  ASSUME Types, NEW c \in Caller, CommandStep(c), GivenAt(caller[c])
  PROVE  /\ GivenAt(caller'[c])
         /\ caller'[c].at = "ledger" => Create(c)
         /\ caller'[c].at = "analyze" => Load(c)
         /\ caller'[c].given # {} => Train(c) \/ ReadControl(c)
         /\ caller'[c].at = "baseline" => ReadControl(c)
         /\ caller'[c].at = "trial" =>
              Choose(c, Startable, FirstStep) \/ Gives(c) \/ CheckTarget(c)
         /\ caller'[c].at = "attach" => StartTrial(c) /\ Proceed(c, "attach")
<1>. DEFINE l == caller'[c]
            G == /\ GivenAt(l)
                 /\ l.at = "ledger" => Create(c)
                 /\ l.at = "analyze" => Load(c)
                 /\ l.given # {} => Train(c) \/ ReadControl(c)
                 /\ l.at = "baseline" => ReadControl(c)
                 /\ l.at = "trial" =>
                      Choose(c, Startable, FirstStep) \/ Gives(c) \/ CheckTarget(c)
                 /\ l.at = "attach" => StartTrial(c) /\ Proceed(c, "attach")
<1>0. CallerOK
  BY DEF Types
<1>1. ASSUME NEW at, at \notin {"ledger", "analyze", "baseline", "trial", "attach"},
             l.at = at, l.given = {}
      PROVE  G
  BY <1>1 DEF GivenAt
<1>2. Leave(c) => l.at = "idle" /\ l.given = {}
  BY <1>0, LeaveAfter
<1>3. ASSUME NEW at, caller' = [caller EXCEPT ![c] = [Idle EXCEPT !.at = at]]
      PROVE  l.at = at /\ l.given = {}
  BY <1>0, <1>3, FreshAfter
<1>4. ASSUME NEW at, Proceed(c, at), caller[c].at \notin {"materialize", "baseline"}
      PROVE  l.at = at /\ l.given = {}
  BY <1>0, <1>4, ProceedAfter DEF GivenAt
<1>. SUFFICES G
  OBVIOUS
<1>. HIDE DEF l
<1>5. CASE Create(c)
  BY <1>0, <1>4, <1>5 DEF Create, CreateCampaign, OpenCampaign, Quiet, Busy, GivenAt
<1>6. CASE StartRun(c) \/ BeginAbandon(c) \/ StartInterruption(c)
  <2>1. l.at \in {"reconcile", "abandon", "rollback"} /\ l.given = {}
    <3>1. CASE StartRun(c)
      BY <1>0, <3>1 DEF StartRun, Begin, Enter, Idle, CallerOK, l
    <3>2. CASE BeginAbandon(c)
      BY <1>0, <3>2 DEF BeginAbandon, Enter, Idle, CallerOK, l
    <3>3. CASE StartInterruption(c)
      BY <1>0, <3>3 DEF StartInterruption, Enter, Idle, CallerOK, l
    <3>. QED BY <1>6, <3>1, <3>2, <3>3
  <2>. QED BY <1>1, <2>1
<1>7. CASE ReconcileFirst(c)
  <2>1. l.at \in {"exhausted", "start", "run_once", "select", "idle"} /\ l.given = {}
    BY <1>0, <1>7 DEF ReconcileFirst, Idle, CallerOK, l
  <2>. QED BY <1>1, <2>1
<1>8. CASE PauseBlock(c) \/ RollbackInterrupted(c) \/ AbandonReconcile(c)
  <2>1. l.at \in {"pause", "interruption", "discard", "idle"} /\ l.given = {}
    BY <1>2, <1>4, <1>8 DEF PauseBlock, RollbackInterrupted, AbandonReconcile
  <2>. QED BY <1>1, <2>1
<1>9. CASE SelectSlot(c)
  <2>1. CASE Choose(c, Startable, FirstStep)
    <3>1. PICK s \in Slot, n \in 1..MaxAttempts,
               at \in OnSlot \ {"rollback", "interruption"} :
             /\ slot[s].status \in Startable
             /\ at = FirstStep[s]
             /\ n = slot[s].attempts + 1
             /\ caller' = [caller EXCEPT ![c] =
                  [Idle EXCEPT !.at = at, !.slot = s, !.number = n]]
      BY <2>1, SelectedSlot, Zenon
    <3>2. at \in {"train", "trial", "control", "canonical"}
      BY <3>1 DEF FirstStep
    <3>3. l = [Idle EXCEPT !.at = at, !.slot = s, !.number = n]
      BY <1>0, <3>1 DEF CallerOK, l
    <3>4. l.at = at /\ l.given = {}
      BY <3>3 DEF Idle
    <3>. QED BY <2>1, <3>2, <3>4 DEF GivenAt
  <2>2. CASE Finish(c, Startable)
    <3>1. l.at \in {"pause", "idle"} /\ l.given = {}
      BY <1>2, <1>4, <2>2 DEF Finish
    <3>. QED BY <1>1, <3>1
  <2>. QED BY <1>9, <2>1, <2>2 DEF SelectSlot
<1>10. CASE Train(c) \/ ReadControl(c)
  <2>1. \/ l.at = "idle" /\ l.given = {}
        \/ l.at = "materialize" /\ Train(c)
        \/ l.at = "baseline" /\ ReadControl(c)
    <3>1. CASE Leave(c)
      BY <1>2, <3>1
    <3>2. CASE Train(c) /\ ~ Leave(c)
      BY <1>0, <3>2 DEF Train, Gather, Leave, CallerOK, CommandState, l
    <3>3. CASE ReadControl(c) /\ ~ Leave(c)
      BY <1>0, <3>3 DEF ReadControl, Gather, Leave, CallerOK, CommandState, l
    <3>. QED BY <1>10, <3>1, <3>2, <3>3
  <2>. QED BY <1>1, <1>10, <2>1 DEF GivenAt
<1>11. CASE Materialize(c) \/ RecordBaseline(c)
  <2>1. CASE Gives(c)
    <3>1. l.at = "trial" /\ l.given = {}
      <4>1. caller[c].at \in OnSlot
        BY <2>1 DEF Gives, OnSlot
      <4>2. l = [caller[c] EXCEPT !.at = "trial", !.given = {}]
        BY <1>0, <2>1 DEF Gives, CallerOK, l
      <4>. QED BY <1>0, <4>1, <4>2, GatherLocal
    <3>. QED BY <2>1, <3>1 DEF GivenAt
  <2>. QED BY <1>1, <1>2, <1>11, <2>1, GiveEffect
<1>12. CASE CheckTarget(c) \/ StartTrial(c)
  <2>1. CASE Leave(c)
    BY <1>1, <1>2, <2>1
  <2>2. CASE CheckTarget(c) /\ Proceed(c, "trial")
    <3>1. l.at = "trial" /\ l.given = {}
      BY <1>4, <2>2 DEF CheckTarget
    <3>. QED BY <2>2, <3>1 DEF GivenAt
  <2>3. CASE StartTrial(c) /\ Proceed(c, "attach")
    <3>1. l.at = "attach" /\ l.given = {}
      BY <1>4, <2>3 DEF StartTrial
    <3>. QED BY <2>3, <3>1 DEF GivenAt
  <2>. QED BY <1>12, <2>1, <2>2, <2>3 DEF CheckTarget, StartTrial, CreateTrial
<1>13. CASE RunTrial(c)
  <2>1. l.at \in {"measure", "settle", "idle"} /\ l.given = {}
    <3>1. CASE RunOnce(c, "settle")
      BY <1>0, <3>1 DEF RunOnce, Proceed, GivenAt, CallerOK, CommandState, l
    <3>2. CASE Measured(c, "settle")
      BY <1>0, <3>2 DEF Measured, GivenAt, CallerOK, CommandState, l
    <3>3. CASE AttemptFails(c) \/ LeaseLost(c)
      BY <1>2, <3>3 DEF AttemptFails, LeaseLost
    <3>. QED BY <1>13, <3>1, <3>2, <3>3 DEF RunTrial, Worker
  <2>. QED BY <1>1, <2>1
<1>14. CASE \/ StartBlock(c) \/ Attach(c) \/ Settle(c) \/ Remediate(c)
            \/ Discard(c) \/ CommitAnalysis(c)
  <2>1. l.at \in {"run_once", "select", "exhausted", "settle", "stop", "idle"}
        /\ l.given = {}
    BY <1>2, <1>3, <1>14 DEF StartBlock, Attach, Settle, Remediate, Enter, Discard,
       CommitAnalysis
  <2>. QED BY <1>1, <2>1
<1>15. CASE Load(c)
  <2>1. l.at = "analyze" /\ l.given = {}
    BY <1>3, <1>15 DEF Load, LoadRows, Enter
  <2>. QED BY <1>15, <2>1 DEF GivenAt
<1>16. CASE Insert(c) \/ PowerLoss(c) \/ FileInterruption(c)
  BY <1>1, <1>2, <1>16 DEF Insert, InsertLedger, PowerLoss, FileInterruption
<1>. QED BY <1>5, <1>6, <1>7, <1>8, <1>9, <1>10, <1>11, <1>12, <1>13, <1>14, <1>15,
         <1>16 DEF CommandStep

-----------------------------------------------------------------------------
(***************************************************************************)
(* The invariant.  A block is inserted, and its slots start over, only     *)
(* when no outcome of the stage counts any more and nobody works on it or  *)
(* analyses it; what a command has read of completed slots stays true; and *)
(* a Phase B candidate is attached to a trial only with its control.       *)
(***************************************************************************)
AllowsInsert ==
  /\ block \in {"NONE", "FAILED"}
  /\ block = "FAILED" => kind = "h25"

InsertsAlone ==
  /\ block = "FAILED" => kind = "h25"
  /\ \A c \in Caller : caller[c].at = "ledger" =>
       /\ AllowsInsert
       /\ \A d \in Caller : d # c =>
            /\ caller[d].at \notin {"ledger", "analyze"}
            /\ kind # "h25" => caller[d].at = "idle"

AnalysisComplete ==
  \A c \in Caller : caller[c].at = "analyze" /\ kind = "phase-b" =>
    \A s \in Slot : slot[s].status = "COMPLETED"

(* What a command has read for its slot had completed before it.           *)
ReadsEarlier ==
  \A c \in Caller :
    /\ GivenAt(caller[c])
    /\ kind = "h25" => caller[c].given = {}
    /\ \A d \in caller[c].given :
         d < caller[c].slot /\ slot[d].status = "COMPLETED"

(* Whoever starts a trial of a candidate has recorded its control.         *)
HasControl ==
  \A c \in Caller : kind = "phase-b" /\ caller[c].slot \notin Controls =>
    /\ caller[c].at = "baseline" => caller[c].given # {}
    /\ caller[c].at \in {"trial", "attach"} =>
         slot[caller[c].slot].given # {}

GivenEarlier ==
  \A s \in Slot : \A d \in slot[s].given : d < s /\ slot[d].status = "COMPLETED"

TriedWithControl ==
  \A s \in Slot : kind = "phase-b" /\ s \notin Controls
                  /\ slot[s].status \notin {"PLANNED", "PROPOSED"} =>
    slot[s].given # {}

CompleteMeasured ==
  block \in {"OBSERVATIONS_COMPLETE", "ANALYZED"} =>
    \A s \in Slot : slot[s].status \in Terminal \ {"INFRASTRUCTURE_EXHAUSTED"}

AnalyzedComplete ==
  block = "ANALYZED" /\ kind = "phase-b" =>
    \A s \in Slot : slot[s].status = "COMPLETED"

LedgerInv ==
  /\ Types
  /\ InsertsAlone
  /\ AnalysisComplete
  /\ ReadsEarlier /\ HasControl
  /\ GivenEarlier /\ TriedWithControl
  /\ CompleteMeasured /\ AnalyzedComplete

(* The invariant holds initially.                                          *)
LEMMA LedgerInvInit ==
  ASSUME Init
  PROVE  LedgerInv
<1>1. Types
  BY TypesInit
<1>2. /\ \A c \in Caller : caller[c] = Idle
      /\ \A s \in Slot : slot[s].status = "PLANNED" /\ slot[s].given = {}
      /\ block = "NONE"
  BY DEF Init, InitCore, InitLedger, NewSlot
<1>. QED BY <1>1, <1>2, SlotNumbers
         DEF LedgerInv, InsertsAlone, AllowsInsert, AnalysisComplete, ReadsEarlier,
         HasControl, GivenAt, GivenEarlier, TriedWithControl, CompleteMeasured,
         AnalyzedComplete, Idle

(* While a stage has outcomes that count, a settled slot and an attempt    *)
(* with an outcome stay as they are.                                       *)
LEMMA OutcomesStay ==
  ASSUME Types, InsertsAlone, [Next]_attemptVars, ~ \E c \in Caller : Insert(c)
  PROVE  /\ \A s \in Slot : slot[s].status \in Terminal => slot'[s] = slot[s]
         /\ \A k \in AttemptId : attempt[k] \notin {"NONE", "CREATED"} =>
              attempt'[k] = attempt[k]
<1>0. slot \in [Slot -> SlotRow] /\ attempt \in [AttemptId -> AttemptStatus]
  BY DEF Types, TypeOK, SlotRow
<1>1. CASE UNCHANGED ledgerVars
  BY <1>1 DEF ledgerVars
<1>2. CASE \E k \in AttemptId : Files(k)
  BY <1>0, <1>2 DEF Files, InFlight, Terminal
<1>3. CASE \E c \in Caller : Attaches(c)
  BY <1>0, <1>3 DEF Attaches, Terminal, Executable
<1>4. CASE \E c \in Caller : Gives(c)
  BY <1>0, <1>4 DEF Gives, Terminal, Executable
<1>5. CASE \E c \in Caller : FilesInterruption(c)
  BY <1>0, <1>5 DEF FilesInterruption, Terminal
<1>. QED BY <1>1, <1>2, <1>3, <1>4, <1>5, LedgerWrites

(* A new ledger is inserted only when none of its outcomes counts.         *)
LEMMA InsertsFresh ==
  ASSUME Types, InsertsAlone, NEW c \in Caller, Insert(c)
  PROVE  /\ AllowsInsert
         /\ \A s \in Slot : slot'[s].given = {}
                            /\ slot'[s].status \in {"PLANNED", "PROPOSED"}
         /\ block' = "PLANNED" /\ kind' = kind
         /\ \A d \in Caller :
              /\ caller'[d].at \notin {"ledger", "analyze"}
              /\ kind # "h25" => caller'[d] = Idle
<1>. CallerOK
  BY DEF Types
<1>1. AllowsInsert /\ block' = "PLANNED" /\ kind' = kind
  BY DEF Insert, InsertLedger, InsertsAlone
<1>2. \A s \in Slot : slot'[s].given = {} /\ slot'[s].status \in {"PLANNED", "PROPOSED"}
  BY DEF Insert, InsertLedger, NewSlot
<1>3. caller'[c] = Idle /\ caller'[c].at = "idle"
  BY LeaveAfter DEF Insert, InsertLedger
<1>4. ASSUME NEW d \in Caller, d # c
      PROVE  /\ caller'[d].at \notin {"ledger", "analyze"}
             /\ kind # "h25" => caller'[d] = Idle
  <2>1. caller'[d] = caller[d]
    BY <1>4, OthersStay DEF CommandStep
  <2>2. caller[d].at = "idle" => caller[d] = Idle
    BY DEF CallerOK, LocalOK
  <2>. QED BY <1>4, <2>1, <2>2 DEF Insert, InsertLedger, InsertsAlone
<1>. QED BY <1>1, <1>2, <1>3, <1>4

(* While a block is inserted no other command can write the ledger.        *)
LEMMA InsertsAloneStep ==
  ASSUME Types, InsertsAlone, [Next]_attemptVars,
         \A c \in Caller : GivenAt(caller[c])
  PROVE  InsertsAlone'
<1>. CallerOK /\ kind' = kind
  BY TypesStep DEF Types
<1>1. CASE UNCHANGED attemptVars \/ Operator \/ Deploy
  BY <1>1, NobodyMoves DEF InsertsAlone, AllowsInsert
<1>2. ASSUME NEW c \in Caller, Insert(c)
      PROVE  InsertsAlone'
  BY <1>2, InsertsFresh DEF InsertsAlone
<1>3. ASSUME NEW c \in Caller, Create(c)
      PROVE  InsertsAlone'
  <2>1. AllowsInsert /\ block' = block /\ \A d \in Caller : caller[d].at = "idle"
    BY <1>3 DEF Create, CreateCampaign, OpenCampaign, Quiet, Busy, InsertsAlone,
       AllowsInsert
  <2>2. \A d \in Caller : d # c => caller'[d].at = "idle"
    BY <1>3, <2>1, OthersStay DEF CommandStep
  <2>. QED BY <2>1, <2>2 DEF InsertsAlone, AllowsInsert
<1>4. ASSUME NEW c \in Caller, CommandStep(c) \/ Leaving(c), ~ Insert(c), ~ Create(c)
      PROVE  InsertsAlone'
  <2>1. caller'[c].at # "ledger"
    <3>1. CASE CommandStep(c)
      BY <1>4, <3>1, Arrivals
    <3>2. CASE Leaving(c)
      BY <3>2, LeaveAfter DEF Leaving, Steer, Crash
    <3>. QED BY <1>4, <3>1, <3>2
  <2>2. \A d \in Caller : d # c => caller'[d] = caller[d]
    BY <1>4, OthersStay
  <2>3. /\ block' \in {"NONE", "FAILED"} \/ block \notin {"NONE", "FAILED"}
        /\ block' = "FAILED" => block = "FAILED" \/ kind = "h25"
    <3>1. \/ block' = block
          \/ block \in {"PLANNED", "RUNNING", "OBSERVATIONS_COMPLETE"} /\ block' # "FAILED"
          \/ kind = "h25" /\ block' = "FAILED"
      <4>1. CASE PauseBlock(c) \/ StartBlock(c) \/ SelectSlot(c) \/ Discard(c)
                 \/ CommitAnalysis(c)
        BY <4>1 DEF PauseBlock, StartBlock, SelectSlot, Choose, Finish, Discard,
           CommitAnalysis
      <4>2. CASE \/ Create(c) \/ StartRun(c) \/ Remediate(c) \/ BeginAbandon(c)
                 \/ StartInterruption(c) \/ ReconcileFirst(c) \/ Settle(c)
                 \/ AbandonReconcile(c) \/ Materialize(c) \/ RecordBaseline(c)
                 \/ CheckTarget(c) \/ Attach(c) \/ Load(c) \/ Train(c) \/ ReadControl(c)
        BY <4>2 DEF Create, CreateCampaign, OpenCampaign, StartRun, Remediate,
           BeginAbandon, StartInterruption, RowsVars, ReconcileFirst, Settle,
           AbandonReconcile, Materialize, RecordBaseline, CheckTarget, Attach, Load,
           LoadRows, Train, ReadControl, Gather
      <4>3. CASE \/ StartTrial(c) \/ RunTrial(c) \/ PowerLoss(c)
                 \/ RollbackInterrupted(c) \/ FileInterruption(c) \/ Leaving(c)
        BY <4>3 DEF StartTrial, CreateTrial, RunTrial, Worker, RunOnce, Measured,
           AttemptFails, LeaseLost, PowerLoss, RollbackInterrupted, FileInterruption,
           Leaving, Steer, Crash
      <4>. QED BY <1>4, <4>1, <4>2, <4>3 DEF CommandStep
    <3>. QED BY <3>1
  <2>4. ASSUME NEW d \in Caller, caller'[d].at = "ledger",
               NEW e \in Caller, e # d
        PROVE  /\ AllowsInsert'
               /\ caller'[e].at \notin {"ledger", "analyze"}
               /\ kind # "h25" => caller'[e].at = "idle"
    <3>1. d # c /\ caller[d].at = "ledger" /\ AllowsInsert
      BY <2>1, <2>2, <2>4 DEF InsertsAlone
    <3>2. AllowsInsert'
      BY <2>3, <3>1 DEF AllowsInsert
    <3>3. CASE e # c
      BY <2>2, <2>4, <3>1, <3>2, <3>3 DEF InsertsAlone
    <3>4. CASE e = c
      <4>1. caller'[c].at # "analyze"
        <5>1. CASE Leaving(c)
          BY <5>1, LeaveAfter DEF Leaving, Steer, Crash
        <5>2. CASE CommandStep(c)
          <6>1. ~ Load(c)
            BY <3>1 DEF Load, LoadRows, AllowsInsert
          <6>. QED BY <5>2, <6>1, Arrivals
        <5>. QED BY <1>4, <5>1, <5>2
      <4>2. ASSUME kind # "h25"
            PROVE  caller'[c].at = "idle"
        <5>1. caller[c].at = "idle" /\ block = "NONE"
          BY <3>1, <4>2 DEF InsertsAlone, AllowsInsert
        <5>2. CASE Leaving(c)
          BY <5>2, LeaveAfter DEF Leaving, Steer, Crash
        <5>3. ~ Leaving(c) => FALSE
          <6>1. ~ (StartRun(c) \/ Remediate(c) \/ BeginAbandon(c) \/ Load(c)
                   \/ StartInterruption(c))
            BY <4>2, <5>1 DEF StartRun, Begin, Remediate, BeginAbandon, Load, LoadRows,
               StartInterruption
          <6>2. ~ (\/ ReconcileFirst(c) \/ PauseBlock(c) \/ StartBlock(c)
                   \/ SelectSlot(c) \/ Train(c) \/ Materialize(c) \/ ReadControl(c)
                   \/ RecordBaseline(c) \/ CheckTarget(c) \/ StartTrial(c) \/ Attach(c))
            BY <5>1 DEF ReconcileFirst, PauseBlock, StartBlock, SelectSlot, Choose, Finish,
               Train, Gather, Materialize, ReadControl, RecordBaseline, CheckTarget,
               StartTrial, Attach
          <6>3. ~ (\/ RunTrial(c) \/ Settle(c) \/ AbandonReconcile(c) \/ Discard(c)
                   \/ CommitAnalysis(c) \/ PowerLoss(c) \/ RollbackInterrupted(c)
                   \/ FileInterruption(c))
            BY <5>1 DEF RunTrial, Worker, RunOnce, Measured, AttemptFails, LeaseLost,
               Settle, AbandonReconcile, Discard, CommitAnalysis, PowerLoss,
               RollbackInterrupted, FileInterruption
          <6>. QED BY <1>4, <6>1, <6>2, <6>3 DEF CommandStep
        <5>. QED BY <5>2, <5>3
      <4>. QED BY <2>1, <3>2, <3>4, <4>1, <4>2
    <3>. QED BY <3>3, <3>4
  <2>5. ASSUME NEW d \in Caller, caller'[d].at = "ledger"
        PROVE  AllowsInsert'
    BY <2>1, <2>2, <2>3, <2>5 DEF InsertsAlone, AllowsInsert
  <2>. QED BY <2>3, <2>4, <2>5 DEF InsertsAlone
<1>. QED BY <1>1, <1>2, <1>3, <1>4, Steps

(* A block becomes complete, or analysed, only as its slots allow.         *)
LEMMA BlockMoves ==
  ASSUME Types, [Next]_attemptVars
  PROVE  /\ block' = "OBSERVATIONS_COMPLETE" /\ block # "OBSERVATIONS_COMPLETE" =>
              /\ UNCHANGED ledgerVars
              /\ \A s \in Slot :
                   slot[s].status \in Terminal \ {"INFRASTRUCTURE_EXHAUSTED"}
         /\ block' = "ANALYZED" /\ block # "ANALYZED" =>
              /\ block = "OBSERVATIONS_COMPLETE"
              /\ \E c \in Caller : caller[c].at = "analyze"
<1>1. CASE UNCHANGED attemptVars \/ Operator \/ Deploy
  BY <1>1, NobodyMoves
<1>2. ASSUME NEW c \in Caller, CommandStep(c) \/ Leaving(c)
      PROVE  \/ block' = block \/ block' \in {"PLANNED", "PAUSED_INFRASTRUCTURE",
                                              "RUNNING", "FAILED"}
             \/ Finish(c, Startable)
             \/ /\ block' = "ANALYZED" /\ block = "OBSERVATIONS_COMPLETE"
                /\ caller[c].at = "analyze"
  <2>1. CASE PauseBlock(c) \/ StartBlock(c) \/ SelectSlot(c) \/ Discard(c)
             \/ CommitAnalysis(c) \/ Insert(c)
    BY <2>1 DEF PauseBlock, StartBlock, SelectSlot, Choose, Discard,
       CommitAnalysis, Insert, InsertLedger
  <2>2. CASE \/ Create(c) \/ StartRun(c) \/ Remediate(c) \/ BeginAbandon(c)
             \/ StartInterruption(c) \/ ReconcileFirst(c) \/ Settle(c)
             \/ AbandonReconcile(c) \/ Materialize(c) \/ RecordBaseline(c)
             \/ CheckTarget(c) \/ Attach(c) \/ Load(c) \/ Train(c) \/ ReadControl(c)
    BY <2>2 DEF Create, CreateCampaign, OpenCampaign, StartRun, Remediate,
       BeginAbandon, StartInterruption, RowsVars, ReconcileFirst, Settle,
       AbandonReconcile, Materialize, RecordBaseline, CheckTarget, Attach, Load,
       LoadRows, Train, ReadControl, Gather
  <2>3. CASE \/ StartTrial(c) \/ RunTrial(c) \/ PowerLoss(c)
             \/ RollbackInterrupted(c) \/ FileInterruption(c) \/ Leaving(c)
    BY <2>3 DEF StartTrial, CreateTrial, RunTrial, Worker, RunOnce, Measured,
       AttemptFails, LeaseLost, PowerLoss, RollbackInterrupted, FileInterruption,
       Leaving, Steer, Crash
  <2>. QED BY <1>2, <2>1, <2>2, <2>3 DEF CommandStep
<1>3. ASSUME NEW c \in Caller, Finish(c, Startable)
      PROVE  \/ block' = block
             \/ /\ block' = "OBSERVATIONS_COMPLETE" /\ UNCHANGED ledgerVars
                /\ \A s \in Slot :
                     slot[s].status \in Terminal \ {"INFRASTRUCTURE_EXHAUSTED"}
  BY <1>3 DEF Finish
<1>. QED BY <1>1, <1>2, <1>3, Steps

(* What is gathered for a slot comes from completed slots before it, and   *)
(* Phase B has found a control.                                            *)
LEMMA Gathered ==
  ASSUME Types, NEW c \in Caller, Train(c) \/ ReadControl(c)
  PROVE  /\ UNCHANGED <<kind, ledgerVars>>
         /\ \A d \in caller'[c].given :
              d < caller'[c].slot /\ slot[d].status = "COMPLETED"
         /\ caller'[c].given # {} => kind # "h25"
         /\ caller'[c].at = "baseline" => caller'[c].given # {}
<1>. CallerOK
  BY DEF Types
<1>1. CASE Leave(c)
  BY <1>1, LeaveAfter DEF Train, ReadControl, Gather
<1>2. ASSUME NEW at \in {"materialize", "baseline"}, NEW g,
             caller' = [caller EXCEPT ![c] = [caller[c] EXCEPT !.at = at, !.given = g]]
      PROVE  /\ caller'[c].at = at /\ caller'[c].given = g
             /\ caller'[c].slot = caller[c].slot
  BY <1>2 DEF CallerOK, CommandState
<1>3. CASE Train(c) /\ ~ Leave(c)
  <2>1. caller' = [caller EXCEPT ![c] = [caller[c] EXCEPT
          !.at = "materialize", !.given = Completed(caller[c].slot)]]
    BY <1>3 DEF Train, Gather, Leave
  <2>2. /\ caller'[c].at = "materialize" /\ caller'[c].slot = caller[c].slot
        /\ caller'[c].given = Completed(caller[c].slot)
    BY <1>2, <2>1
  <2>. QED BY <1>3, <2>2 DEF Train, Gather, Adapts, Completed
<1>4. CASE ReadControl(c) /\ ~ Leave(c)
  <2>. DEFINE controls == Completed(caller[c].slot) \cap Controls
  <2>1. /\ controls # {}
        /\ caller' = [caller EXCEPT ![c] = [caller[c] EXCEPT
             !.at = "baseline", !.given = Latest(controls)]]
    BY <1>4 DEF ReadControl, Gather, Leave
  <2>2. /\ caller'[c].at = "baseline" /\ caller'[c].slot = caller[c].slot
        /\ caller'[c].given = Latest(controls)
    BY <1>2, <2>1
  <2>3. Latest(controls) # {}
    <3>1. Slots \in Nat /\ controls \in SUBSET (1..Slots)
      BY SlotsAssumption DEF Completed, Slot
    <3>2. PICK x \in controls : \A y \in controls : x >= y
      BY <2>1, <3>1, RangeMax, Zenon
    <3>. QED BY <3>2 DEF Latest
  <2>4. \A d \in Latest(controls) : d < caller[c].slot /\ slot[d].status = "COMPLETED"
    BY DEF Latest, Completed
  <2>. QED BY <1>4, <2>2, <2>3, <2>4 DEF ReadControl, Gather
<1>. QED BY <1>1, <1>3, <1>4

(* What a slot was given changes only when it is given something, and its  *)
(* status advances only as the ledger's writes say.                        *)
LEMMA RowMoves ==
  ASSUME Types, [Next]_attemptVars, ~ \E c \in Caller : Insert(c), NEW s \in Slot
  PROVE  \/ slot'[s] = slot[s]
         \/ slot'[s].given = slot[s].given /\ slot[s].status = "CREATED"
         \/ /\ slot'[s].given = slot[s].given
            /\ \E c \in Caller : caller[c].at = "attach" /\ caller[c].slot = s
         \/ \E c \in Caller :
              /\ Gives(c) /\ caller[c].slot = s
              /\ slot'[s].given = caller[c].given
              /\ slot'[s].status = IF Adapts THEN "PROPOSED" ELSE slot[s].status
<1>0. slot \in [Slot -> SlotRow]
  BY DEF Types, TypeOK, SlotRow
<1>1. CASE UNCHANGED ledgerVars
  BY <1>1 DEF ledgerVars
<1>2. CASE \E k \in AttemptId : Files(k)
  BY <1>0, <1>2 DEF Files, InFlight
<1>3. ASSUME NEW c \in Caller, Attaches(c)
      PROVE  \/ slot'[s] = slot[s]
             \/ /\ slot'[s].given = slot[s].given
                /\ caller[c].at = "attach" /\ caller[c].slot = s
  BY <1>0, <1>3 DEF Attaches
<1>4. ASSUME NEW c \in Caller, Gives(c)
      PROVE  \/ slot'[s] = slot[s]
             \/ /\ caller[c].slot = s
                /\ slot'[s].given = caller[c].given
                /\ slot'[s].status = IF Adapts THEN "PROPOSED" ELSE slot[s].status
  BY <1>0, <1>4 DEF Gives
<1>5. ASSUME NEW c \in Caller, FilesInterruption(c)
      PROVE  \/ slot'[s] = slot[s]
             \/ slot'[s].given = slot[s].given /\ slot[s].status = "CREATED"
  BY <1>0, <1>5 DEF FilesInterruption
<1>. QED BY <1>1, <1>2, <1>3, <1>4, <1>5, LedgerWrites

(* Every step keeps the invariant.                                         *)
LEMMA LedgerInvStep ==
  ASSUME LedgerInv, [Next]_attemptVars
  PROVE  LedgerInv'
<1>. USE DEF LedgerInv
<1>1. Types' /\ kind' = kind
  BY TypesStep
<1>. CallerOK
  BY DEF Types
<1>2. InsertsAlone'
  BY InsertsAloneStep DEF ReadsEarlier
<1>3. ASSUME NEW c \in Caller, Insert(c)
      PROVE  LedgerInv'
  <2>1. /\ \A s \in Slot : slot'[s].given = {}
                           /\ slot'[s].status \in {"PLANNED", "PROPOSED"}
        /\ block' = "PLANNED"
        /\ \A d \in Caller :
             /\ caller'[d].at \notin {"ledger", "analyze"}
             /\ kind # "h25" => caller'[d] = Idle
    BY <1>3, InsertsFresh
  <2>2. \A d \in Caller : caller'[d] = Idle \/ (kind = "h25" /\ caller'[d] = caller[d])
    <3>1. caller'[c] = Idle
      BY <1>3, LeaveAfter DEF Insert, InsertLedger
    <3>2. \A d \in Caller : d # c => caller'[d] = caller[d]
      BY <1>3, OthersStay DEF CommandStep
    <3>. QED BY <2>1, <3>1, <3>2
  <2>3. Idle.at = "idle" /\ Idle.given = {}
    BY DEF Idle
  <2>4. ReadsEarlier'
    BY <1>1, <2>2, <2>3 DEF ReadsEarlier, GivenAt
  <2>5. HasControl'
    BY <1>1, <2>2, <2>3 DEF HasControl
  <2>6. GivenEarlier' /\ TriedWithControl'
    BY <2>1 DEF GivenEarlier, TriedWithControl
  <2>7. AnalysisComplete' /\ CompleteMeasured' /\ AnalyzedComplete'
    BY <2>1 DEF AnalysisComplete, CompleteMeasured, AnalyzedComplete
  <2>. QED BY <1>1, <1>2, <2>4, <2>5, <2>6, <2>7
<1>4. CASE ~ \E c \in Caller : Insert(c)
  <2>1. \A s \in Slot : slot[s].status \in Terminal => slot'[s] = slot[s]
    BY <1>4, OutcomesStay
  <2>2. \A s \in Slot : slot[s].status = "COMPLETED" => slot'[s].status = "COMPLETED"
    BY <2>1 DEF Terminal
  <2>3. GivenEarlier'
    <3>1. ASSUME NEW s \in Slot, NEW d \in slot'[s].given
          PROVE  d < s /\ slot[d].status = "COMPLETED"
      BY <1>4, <3>1, RowMoves DEF GivenEarlier, ReadsEarlier
    <3>2. \A s \in Slot : slot'[s].given \subseteq Slot
      BY <1>1 DEF Types, TypeOK
    <3>. QED BY <2>2, <3>1, <3>2 DEF GivenEarlier
  <2>4. TriedWithControl'
    <3>1. ASSUME NEW s \in Slot, kind = "phase-b", s \notin Controls,
                 slot'[s].status \notin {"PLANNED", "PROPOSED"}
          PROVE  slot'[s].given # {}
      <4>1. ASSUME NEW e \in Caller, Gives(e), caller[e].slot = s
            PROVE  caller[e].given # {}
        BY <3>1, <4>1 DEF HasControl, Gives, Adapts
      <4>2. ASSUME NEW e \in Caller, caller[e].at = "attach", caller[e].slot = s
            PROVE  slot[s].given # {}
        BY <3>1, <4>2 DEF HasControl
      <4>3. slot[s].status \notin {"PLANNED", "PROPOSED"} => slot[s].given # {}
        BY <3>1 DEF TriedWithControl
      <4>. QED BY <1>4, <3>1, <4>1, <4>2, <4>3, RowMoves
    <3>. QED BY <1>1, <3>1 DEF TriedWithControl
  <2>5. CompleteMeasured' /\ AnalyzedComplete'
    <3>1. CompleteMeasured'
      BY <2>1, BlockMoves DEF CompleteMeasured, ledgerVars
    <3>2. AnalyzedComplete'
      BY <1>1, <2>2, BlockMoves DEF AnalyzedComplete, AnalysisComplete
    <3>. QED BY <3>1, <3>2
  <2>6. CASE UNCHANGED attemptVars \/ Operator \/ Deploy
    <3>1. UNCHANGED <<kind, block, caller, ledgerVars>>
      BY <2>6, NobodyMoves
    <3>. QED BY <1>1, <1>2, <2>3, <2>4, <2>5, <3>1
             DEF AnalysisComplete, ReadsEarlier, HasControl, ledgerVars
  <2>7. ASSUME NEW c \in Caller, CommandStep(c) \/ Leaving(c)
        PROVE  AnalysisComplete' /\ ReadsEarlier' /\ HasControl'
    <3>1. \A d \in Caller : d # c => caller'[d] = caller[d]
      BY <2>7, OthersStay
    <3>2. CASE Leaving(c)
      <4>1. caller'[c].at = "idle" /\ caller'[c].given = {} /\ UNCHANGED ledgerVars
        BY <3>2, LeaveAfter DEF Leaving, Steer, Crash
      <4>. QED BY <1>1, <3>1, <4>1
               DEF AnalysisComplete, ReadsEarlier, HasControl, GivenAt, ledgerVars
    <3>3. CASE CommandStep(c)
      <4>0. GivenAt(caller[c])
        BY DEF ReadsEarlier
      <4>1. AnalysisComplete'
        <5>1. Load(c) /\ kind = "phase-b" => \A s \in Slot : slot[s].status = "COMPLETED"
          BY DEF Load, LoadRows, Multifidelity!AllCompleted, Multifidelity!Slot, Slot
        <5>2. caller'[c].at = "analyze" => Load(c)
          BY <3>3, <4>0, Arrivals
        <5>. QED BY <1>1, <2>2, <3>1, <5>1, <5>2 DEF AnalysisComplete
      <4>2. ReadsEarlier'
        <5>1. /\ GivenAt(caller'[c])
              /\ caller'[c].given # {} => Train(c) \/ ReadControl(c)
          BY <3>3, <4>0, Arrivals
        <5>2. /\ kind = "h25" => caller'[c].given = {}
              /\ \A d \in caller'[c].given :
                   d < caller'[c].slot /\ slot[d].status = "COMPLETED"
          BY <5>1, Gathered
        <5>3. \A e \in Caller : caller'[e].given \subseteq Slot
          BY <1>1 DEF Types, CallerOK, CommandState
        <5>. QED BY <1>1, <2>2, <3>1, <5>1, <5>2, <5>3 DEF ReadsEarlier
      <4>3. ASSUME kind = "phase-b", NEW s \in Slot, s \notin Controls,
                   slot[s].given # {}
            PROVE  slot'[s].given # {}
        <5>1. ASSUME NEW e \in Caller, Gives(e), caller[e].slot = s
              PROVE  caller[e].given # {}
          BY <4>3, <5>1 DEF HasControl, Gives, Adapts
        <5>. QED BY <1>4, <4>3, <5>1, RowMoves
      <4>4. ASSUME kind = "phase-b", caller'[c].slot \notin Controls
            PROVE  /\ caller'[c].at = "baseline" => caller'[c].given # {}
                   /\ caller'[c].at \in {"trial", "attach"} =>
                        slot'[caller'[c].slot].given # {}
        <5>1. CASE caller'[c].at = "baseline"
          BY <3>3, <4>0, <5>1, Arrivals, Gathered
        <5>2. CASE caller'[c].at = "trial"
          <6>1. CASE Choose(c, Startable, FirstStep)
            <7>1. PICK s \in Slot, n \in 1..MaxAttempts,
                       at \in OnSlot \ {"rollback", "interruption"} :
                     /\ slot[s].status \in Startable
                     /\ at = FirstStep[s]
                     /\ n = slot[s].attempts + 1
                     /\ caller' = [caller EXCEPT ![c] =
                          [Idle EXCEPT !.at = at, !.slot = s, !.number = n]]
              BY <6>1, SelectedSlot, Zenon
            <7>2. caller'[c] = [Idle EXCEPT !.at = at, !.slot = s, !.number = n]
              BY <7>1 DEF CallerOK
            <7>3. caller'[c].at = at /\ caller'[c].slot = s
              BY <7>2 DEF Idle
            <7>. QED BY <4>4, <5>2, <7>1, <7>3 DEF FirstStep, Adapts
          <6>2. CASE Gives(c)
            <7>1. caller[c].at \in OnSlot /\ caller[c].at = "baseline"
              BY <4>4, <6>2 DEF Gives, Adapts, OnSlot
            <7>2. caller'[c] = [caller[c] EXCEPT !.at = "trial", !.given = {}]
              BY <6>2 DEF Gives, CallerOK
            <7>3. caller'[c].slot = caller[c].slot
              BY <7>2 DEF CallerOK, CommandState
            <7>4. caller[c].given # {}
              BY <4>4, <7>1, <7>3 DEF HasControl
            <7>5. slot'[caller[c].slot].given = caller[c].given
              BY <6>2 DEF Gives, Types, TypeOK
            <7>. QED BY <5>2, <7>3, <7>4, <7>5
          <6>3. CASE CheckTarget(c)
            BY <4>4, <6>3 DEF CheckTarget
          <6>. QED BY <3>3, <4>0, <5>2, <6>1, <6>2, <6>3, Arrivals
        <5>3. CASE caller'[c].at = "attach"
          <6>1. StartTrial(c) /\ Proceed(c, "attach")
            BY <3>3, <4>0, <5>3, Arrivals
          <6>2. caller'[c].slot = caller[c].slot /\ caller[c].at = "trial"
                /\ UNCHANGED ledgerVars
            BY <6>1, ProceedAfter DEF StartTrial
          <6>. QED BY <4>4, <5>3, <6>2 DEF HasControl, ledgerVars
        <5>. QED BY <5>1, <5>2, <5>3
      <4>5. ASSUME NEW d \in Caller, d # c, kind = "phase-b",
                   caller'[d].slot \notin Controls
            PROVE  /\ caller'[d].at = "baseline" => caller'[d].given # {}
                   /\ caller'[d].at \in {"trial", "attach"} =>
                        slot'[caller'[d].slot].given # {}
        <5>1. caller'[d] = caller[d]
          BY <3>1, <4>5
        <5>2. caller[d].at \in {"trial", "attach"} => caller[d].slot \in Slot
          BY SlotNumbers DEF Types, TypeOK
        <5>. QED BY <4>3, <4>5, <5>1, <5>2 DEF HasControl
      <4>. QED BY <1>1, <4>1, <4>2, <4>4, <4>5 DEF HasControl
    <3>. QED BY <2>7, <3>2, <3>3
  <2>. QED BY <1>1, <1>2, <2>3, <2>4, <2>5, <2>6, <2>7, Steps
<1>. QED BY <1>3, <1>4

(* The inductive invariant of what holds however commands overlap.         *)
LEMMA LedgerInvariant == Spec => []LedgerInv
<1>1. LedgerInv /\ [Next]_attemptVars => LedgerInv'
  BY LedgerInvStep
<1>. QED BY <1>1, LedgerInvInit, PTL DEF Spec

(* However commands of any number of callers overlap and are cut off, a    *)
(* block whose observations are complete has an outcome for every slot and *)
(* gave none up, and Phase B is analysed only if every slot completed.     *)
THEOREM CompleteBlocksAreMeasured == Spec => []CompleteIsMeasured
<1>1. LedgerInv => CompleteIsMeasured
  BY DEF LedgerInv, CompleteIsMeasured, CompleteMeasured, AnalyzedComplete,
     Multifidelity!AllCompleted, Multifidelity!Slot, Slot
<1>. QED BY <1>1, LedgerInvariant, PTL

(* What a slot was given is what slots before it measured, and every Phase *)
(* B candidate that ran was given a control, whatever overlaps.            *)
THEOREM InputsAreCausal == Spec => []CausalInputs
<1>1. LedgerInv => CausalInputs
  BY DEF LedgerInv, CausalInputs, GivenEarlier, TriedWithControl, Terminal
<1>. QED BY <1>1, LedgerInvariant, PTL

(* No command, crash, overlap or late reconciliation replaces an outcome   *)
(* that has been filed; only a new H25 block starts over.                  *)
THEOREM FiledOutcomesAreFinal == Spec => OutcomesAreFinal
<1>1. ASSUME LedgerInv, [Next]_attemptVars, block \notin {"NONE", "FAILED"}
      PROVE  /\ \A s \in Slot : slot[s].status \in Terminal => slot'[s] = slot[s]
             /\ \A k \in AttemptId : attempt[k] \notin {"NONE", "CREATED"} =>
                  attempt'[k] = attempt[k]
  <2>1. ~ \E c \in Caller : Insert(c)
    BY <1>1, InsertsFresh DEF LedgerInv, AllowsInsert
  <2>. QED BY <1>1, <2>1, OutcomesStay DEF LedgerInv
<1>2. LedgerInv /\ [Next]_attemptVars =>
        [block \notin {"NONE", "FAILED"} =>
          /\ \A s \in Slot : slot[s].status \in Terminal => slot'[s] = slot[s]
          /\ \A k \in AttemptId : attempt[k] \notin {"NONE", "CREATED"} =>
               attempt'[k] = attempt[k]]_attemptVars
  BY <1>1
<1>. QED BY <1>2, LedgerInvariant, PTL DEF Spec, OutcomesAreFinal
-----------------------------------------------------------------------------
(***************************************************************************)
(* What the order of the slots rests on, however commands overlap.         *)
(***************************************************************************)

(* A command that will not select a slot any more, or will be refused.     *)
Passive(l) ==
  \/ l.at \in {"idle", "exhausted", "pause", "stop"}
  \/ l.at = "reconcile" /\ l.block = "FAILED"

(* Before there is a block, only its creation is under way; while a block  *)
(* is inserted, nobody else works; and only the primary waves plan slots   *)
(* without a configuration.                                                *)
NoneIdle ==
  block = "NONE" => \A c \in Caller : caller[c].at \in {"idle", "ledger"}

LedgerQuiet ==
  \A c \in Caller : caller[c].at = "ledger" =>
    \A d \in Caller : d # c => Passive(caller[d])

NoPlanned ==
  block # "NONE" /\ ~Adapts => \A s \in Slot : slot[s].status # "PLANNED"

(* A trial is tried once.                                                  *)
OneTry ==
  \A t \in TrialId :
    /\ trial[t].state # "UNFILED"
    /\ trial[t].state \in {"NONE", "QUEUED"} => trial[t].tries = 0
    /\ trial[t].state = "RUNNING" => trial[t].tries = 1

(* A running trial is in the hands of a command.                           *)
RunningHeld ==
  \A t \in TrialId : trial[t].state = "RUNNING" =>
    \E c \in Caller : caller[c].at = "measure" /\ caller[c].trial = t

(* An emergency stop is for good.                                          *)
EmergencyEnds == campaign.emergency = TRUE => campaign.status \in {"STOPPED", "FAILED"}

(* How the steps on one trial change it.                                   *)
LEMMA TrialMoves ==
  ASSUME Types, OneTry, [Next]_attemptVars, ~ \E c \in Caller : Insert(c),
         NEW t \in TrialId
  PROVE  \/ trial'[t] = trial[t]
         \/ /\ \E c \in Caller : /\ StartTrial(c)
                                 /\ t = <<caller[c].slot, caller[c].number>>
            /\ trial[t].state = "NONE"
            /\ trial'[t].state = "QUEUED" /\ trial'[t].tries = 0
         \/ /\ trial[t].state \in {"QUEUED", "LAPSED", "INTERRUPTED"}
            /\ trial'[t].state = "RUNNING" /\ trial'[t].tries = 1
            /\ \E c \in Caller : caller'[c].at = "measure" /\ caller'[c].trial = t
         \/ /\ trial[t].state \notin Ended \cup {"NONE"}
            /\ trial'[t].state \in Ended \cup {"LAPSED", "INTERRUPTED"}
<1>. DEFINE G ==
       \/ trial'[t] = trial[t]
       \/ /\ \E c \in Caller : /\ StartTrial(c)
                               /\ t = <<caller[c].slot, caller[c].number>>
          /\ trial[t].state = "NONE"
          /\ trial'[t].state = "QUEUED" /\ trial'[t].tries = 0
       \/ /\ trial[t].state \in {"QUEUED", "LAPSED", "INTERRUPTED"}
          /\ trial'[t].state = "RUNNING" /\ trial'[t].tries = 1
          /\ \E c \in Caller : caller'[c].at = "measure" /\ caller'[c].trial = t
       \/ /\ trial[t].state \notin Ended \cup {"NONE"}
          /\ trial'[t].state \in Ended \cup {"LAPSED", "INTERRUPTED"}
<1>. SUFFICES G
  OBVIOUS
<1>0. /\ trial \in [TrialId -> [state: TrialState, tries: 0..1]]
      /\ CallerOK /\ kind \in Kind /\ MaxTries[kind] = 1
  BY CoreTypes DEF Types, TypeOK
<1>1. ASSUME NEW u \in TrialId, NEW st \in Ended \cup {"LAPSED", "INTERRUPTED"},
             trial[u].state \notin Ended \cup {"NONE"},
             trial' = [trial EXCEPT ![u].state = st]
      PROVE  G
  BY <1>0, <1>1
<1>2. UNCHANGED trial => G
  OBVIOUS
<1>3. CASE Operator
  <2>1. PICK action \in {"pause", "resume", "stop", "emergency-stop"} :
          trial' = [v \in TrialId |->
            IF action = "emergency-stop" /\ v \in Unfinished
              THEN [trial[v] EXCEPT !.state = "CANCELLED"] ELSE trial[v]]
    BY <1>3 DEF Operator, Control
  <2>. QED BY <1>0, <2>1 DEF Unfinished, Ended
<1>4. ASSUME NEW c \in Caller, Leaving(c)
      PROVE  G
  <2>1. CASE Crash(c) /\ caller[c].at = "measure" /\ trial[caller[c].trial].state = "RUNNING"
    <3>1. caller[c].trial \in TrialId
      BY <2>1 DEF Types, TypeOK
    <3>. QED BY <1>1, <2>1, <3>1 DEF Crash, Ended
  <2>. QED BY <1>2, <1>4, <2>1 DEF Leaving, Steer, Crash
<1>5. ASSUME NEW c \in Caller, StartTrial(c)
      PROVE  G
  <2>. DEFINE u == <<caller[c].slot, caller[c].number>>
  <2>1. u \in TrialId
    BY <1>5, SlotNumbers DEF StartTrial, Types, TypeOK
  <2>2. CASE trial[u] = Absent /\ trial' = [trial EXCEPT ![u].state = "QUEUED"]
    <3>1. trial[u].state = "NONE" /\ trial[u].tries = 0
      BY <2>2 DEF Absent
    <3>2. t # u => trial'[t] = trial[t]
      BY <1>0, <2>1, <2>2
    <3>3. trial'[u].state = "QUEUED" /\ trial'[u].tries = 0
      BY <1>0, <2>1, <2>2, <3>1
    <3>. QED BY <1>5, <3>1, <3>2, <3>3
  <2>3. trial' = trial \/ (trial[u] = Absent /\ trial' = [trial EXCEPT ![u].state = "QUEUED"])
    BY <1>5 DEF StartTrial, CreateTrial
  <2>. QED BY <1>2, <2>2, <2>3
<1>6. ASSUME NEW c \in Caller, RunTrial(c)
      PROVE  G
  <2>0. caller[c].at = "measure" => caller[c].trial \in TrialId
    BY DEF Types, TypeOK
  <2>1. CASE RunOnce(c, "settle")
    <3>1. CASE UNCHANGED trial
      BY <3>1
    <3>2. CASE \E u \in Claimable :
            /\ trial' = [trial EXCEPT ![u] = [state |-> "RUNNING", tries |-> @.tries + 1]]
            /\ caller' = [caller EXCEPT ![c].at = "measure", ![c].trial = u]
      <4>1. PICK u \in Claimable :
            /\ trial' = [trial EXCEPT ![u] = [state |-> "RUNNING", tries |-> @.tries + 1]]
            /\ caller' = [caller EXCEPT ![c].at = "measure", ![c].trial = u]
        BY <3>2
      <4>2. /\ u \in TrialId /\ trial[u].tries = 0
            /\ trial[u].state \in {"QUEUED", "LAPSED", "INTERRUPTED"}
        BY <1>0 DEF Claimable
      <4>3. /\ t # u => trial'[t] = trial[t]
            /\ trial'[u].state = "RUNNING" /\ trial'[u].tries = 1
        BY <1>0, <4>1, <4>2
      <4>4. caller'[c].at = "measure" /\ caller'[c].trial = u
        BY <1>0, <4>1 DEF CallerOK, CommandState
      <4>. QED BY <4>2, <4>3, <4>4
    <3>. QED BY <2>1, <3>1, <3>2 DEF RunOnce
  <2>2. CASE Measured(c, "settle")
    <3>1. PICK st \in {"COMPLETED", "INVALID"} :
            trial' = [trial EXCEPT ![caller[c].trial].state = st]
      BY <2>2 DEF Measured
    <3>. QED BY <1>1, <2>0, <2>2, <3>1 DEF Measured, Ended
  <2>3. CASE AttemptFails(c)
    <3>1. trial[caller[c].trial].tries = 1
      BY <2>0, <2>3 DEF AttemptFails, OneTry
    <3>2. PICK st \in {"INFRA", "CANDIDATE"} :
            trial' = [trial EXCEPT ![caller[c].trial].state = st]
      BY <1>0, <2>3, <3>1 DEF AttemptFails
    <3>. QED BY <1>1, <2>0, <2>3, <3>2 DEF AttemptFails, Ended
  <2>4. CASE LeaseLost(c)
    BY <2>4 DEF LeaseLost
  <2>. QED BY <1>6, <2>1, <2>2, <2>3, <2>4 DEF RunTrial, Worker
<1>7. ASSUME NEW c \in Caller, PowerLoss(c)
      PROVE  G
  <2>1. caller[c].trial \in TrialId
    BY <1>7 DEF PowerLoss, Types, TypeOK
  <2>. QED BY <1>1, <1>7, <2>1 DEF PowerLoss, Ended
<1>8. ASSUME NEW c \in Caller, FileInterruption(c)
      PROVE  G
  <2>1. <<caller[c].slot, caller[c].number>> \in TrialId
    BY <1>8, SlotNumbers DEF FileInterruption, Types, TypeOK
  <2>. QED BY <1>1, <1>2, <1>8, <2>1 DEF FileInterruption, Ended
<1>9. ASSUME NEW c \in Caller,
             \/ Create(c) \/ StartRun(c) \/ ReconcileFirst(c) \/ PauseBlock(c)
             \/ StartBlock(c) \/ SelectSlot(c) \/ Train(c) \/ Materialize(c)
             \/ ReadControl(c) \/ RecordBaseline(c) \/ CheckTarget(c)
             \/ Attach(c) \/ Settle(c) \/ Remediate(c) \/ BeginAbandon(c)
             \/ AbandonReconcile(c) \/ Discard(c) \/ Load(c) \/ CommitAnalysis(c)
             \/ StartInterruption(c) \/ RollbackInterrupted(c)
      PROVE  UNCHANGED trial
  BY <1>9 DEF Create, CreateCampaign, OpenCampaign, StartRun, RowsVars, ReconcileFirst,
     PauseBlock, StartBlock, SelectSlot, Choose, Finish, Train, Gather, Materialize,
     ReadControl, RecordBaseline, CheckTarget, Attach, Settle, Remediate, BeginAbandon,
     AbandonReconcile, Discard, Load, LoadRows, CommitAnalysis, StartInterruption,
     RollbackInterrupted
<1>10. UNCHANGED attemptVars \/ Deploy => UNCHANGED trial
  BY DEF attemptVars, coreVars, Deploy
<1>. HIDE DEF G
<1>. QED BY <1>2, <1>3, <1>4, <1>5, <1>6, <1>7, <1>8, <1>9, <1>10, Steps DEF CommandStep

(* What a new ledger leaves of the old trials.                             *)
LEMMA InsertClears ==
  ASSUME NEW c \in Caller, Insert(c)
  PROVE  \A t \in TrialId : trial'[t].state = "NONE" /\ trial'[t].tries = 0
BY DEF Insert, InsertLedger, Absent

(* A trial is claimed once.                                                *)
LEMMA OneTryStep ==
  ASSUME Types, OneTry, [Next]_attemptVars
  PROVE  OneTry'
<1>1. CASE \E c \in Caller : Insert(c)
  BY <1>1, InsertClears DEF OneTry
<1>2. ASSUME ~ \E c \in Caller : Insert(c), NEW t \in TrialId
      PROVE  /\ trial'[t].state # "UNFILED"
             /\ trial'[t].state \in {"NONE", "QUEUED"} => trial'[t].tries = 0
             /\ trial'[t].state = "RUNNING" => trial'[t].tries = 1
  BY <1>2, TrialMoves DEF OneTry, Ended
<1>. QED BY <1>1, <1>2 DEF OneTry

(* A command that has claimed a trial lets go of it only when it has ended *)
(* or lost it.                                                             *)
LEMMA MeasureEnds ==
  ASSUME Types, OneTry, NEW c \in Caller, CommandStep(c) \/ Leaving(c),
         caller[c].at = "measure", trial[caller[c].trial].state = "RUNNING"
  PROVE  trial'[caller[c].trial].state # "RUNNING"
<1>. DEFINE t == caller[c].trial
<1>0. /\ trial \in [TrialId -> [state: TrialState, tries: 0..1]]
      /\ t \in TrialId /\ MaxTries[kind] = 1 /\ trial[t].tries = 1
  BY CoreTypes DEF Types, TypeOK, OneTry
<1>1. CASE Leaving(c)
  BY <1>0, <1>1 DEF Leaving, Steer, Crash
<1>2. CASE RunTrial(c) \/ PowerLoss(c)
  <2>1. CASE Measured(c, "settle")
    BY <1>0, <2>1 DEF Measured
  <2>2. CASE AttemptFails(c)
    BY <1>0, <2>2 DEF AttemptFails
  <2>3. CASE PowerLoss(c)
    BY <1>0, <2>3 DEF PowerLoss
  <2>4. ~ RunOnce(c, "settle") /\ ~ LeaseLost(c)
    BY DEF RunOnce, LeaseLost
  <2>. QED BY <1>2, <2>1, <2>2, <2>3, <2>4 DEF RunTrial, Worker
<1>3. ~ (\/ Create(c) \/ Insert(c) \/ StartRun(c) \/ Remediate(c) \/ BeginAbandon(c)
         \/ Load(c) \/ StartInterruption(c) \/ ReconcileFirst(c) \/ PauseBlock(c)
         \/ StartBlock(c) \/ SelectSlot(c) \/ Train(c) \/ Materialize(c) \/ ReadControl(c)
         \/ RecordBaseline(c) \/ CheckTarget(c) \/ StartTrial(c) \/ Attach(c)
         \/ Settle(c) \/ AbandonReconcile(c) \/ Discard(c)
         \/ CommitAnalysis(c) \/ RollbackInterrupted(c) \/ FileInterruption(c))
  BY DEF Create, CreateCampaign, OpenCampaign, Quiet, Busy, Insert, InsertLedger, StartRun,
     Begin, Enter, Remediate, BeginAbandon, Load, LoadRows, StartInterruption,
     ReconcileFirst, PauseBlock, StartBlock, SelectSlot, Choose, Finish, Train, Gather,
     Materialize, ReadControl, RecordBaseline, CheckTarget, StartTrial, Attach, Settle,
     AbandonReconcile, Discard, CommitAnalysis, RollbackInterrupted, FileInterruption
<1>. QED BY <1>1, <1>2, <1>3 DEF CommandStep

(* A running trial ends, or lapses, when its command does.                 *)
LEMMA RunningHeldStep ==
  ASSUME Types, OneTry, RunningHeld, [Next]_attemptVars
  PROVE  RunningHeld'
<1>1. CASE \E c \in Caller : Insert(c)
  BY <1>1, InsertClears DEF RunningHeld
<1>2. ASSUME ~ \E c \in Caller : Insert(c), NEW t \in TrialId, trial'[t].state = "RUNNING"
      PROVE  \E c \in Caller : caller'[c].at = "measure" /\ caller'[c].trial = t
  <2>1. CASE trial[t].state # "RUNNING"
    BY <1>2, <2>1, TrialMoves DEF Ended
  <2>2. CASE trial[t].state = "RUNNING"
    <3>1. PICK c \in Caller : caller[c].at = "measure" /\ caller[c].trial = t
      BY <2>2 DEF RunningHeld
    <3>2. ~ (CommandStep(c) \/ Leaving(c))
      BY <1>2, <2>2, <3>1, MeasureEnds
    <3>3. caller'[c] = caller[c]
      <4>1. CASE UNCHANGED attemptVars \/ Operator \/ Deploy
        BY <4>1, NobodyMoves
      <4>2. ASSUME NEW d \in Caller, CommandStep(d) \/ Leaving(d)
            PROVE  caller'[c] = caller[c]
        BY <3>2, <4>2, OthersStay DEF Types
      <4>. QED BY <4>1, <4>2, Steps
    <3>. QED BY <3>1, <3>3
  <2>. QED BY <2>1, <2>2
<1>. QED BY <1>1, <1>2 DEF RunningHeld

(* No command and no operator leaves an emergency stop.                    *)
LEMMA EmergencyStep ==
  ASSUME Types, EmergencyEnds, [Next]_attemptVars
  PROVE  EmergencyEnds'
<1>0. campaign \in [status: CampaignStatus, emergency: BOOLEAN, failures: Nat]
  BY DEF Types, TypeOK
<1>1. UNCHANGED campaign => EmergencyEnds'
  BY DEF EmergencyEnds
<1>2. CASE Operator
  <2>1. PICK action \in {"pause", "resume", "stop", "emergency-stop"} :
          /\ campaign.status \in Allowed(action)
          /\ campaign' = [campaign EXCEPT
               !.status = Target(action), !.emergency = @ \/ action = "emergency-stop"]
    BY <1>2 DEF Operator, Control
  <2>2. campaign.emergency = FALSE
    BY <1>0, <2>1 DEF EmergencyEnds, Allowed, Open
  <2>3. campaign'.status = Target(action)
    BY <1>0, <2>1
  <2>4. campaign'.emergency = (campaign.emergency \/ action = "emergency-stop")
    BY <1>0, <2>1
  <2>5. CASE action = "emergency-stop"
    BY <2>3, <2>5 DEF EmergencyEnds, Target
  <2>6. CASE action # "emergency-stop"
    BY <2>2, <2>4, <2>6 DEF EmergencyEnds
  <2>. QED BY <2>5, <2>6
<1>3. ASSUME NEW c \in Caller, Steer(c, "pause") \/ Steer(c, "stop")
      PROVE  EmergencyEnds'
  <2>1. \/ campaign' = campaign
        \/ /\ campaign.status \in Open
           /\ \E st : campaign' = [campaign EXCEPT !.status = st]
    BY <1>3 DEF Steer, Allowed, Open
  <2>2. campaign.status \in Open => campaign.emergency = FALSE
    BY <1>0 DEF EmergencyEnds, Open
  <2>3. ASSUME campaign.emergency = FALSE, NEW st, campaign' = [campaign EXCEPT !.status = st]
        PROVE  campaign'.emergency = FALSE
    BY <1>0, <2>3
  <2>. QED BY <1>1, <2>1, <2>2, <2>3 DEF EmergencyEnds
<1>4. ASSUME NEW c \in Caller, Create(c)
      PROVE  EmergencyEnds'
  BY <1>4 DEF Create, CreateCampaign, OpenCampaign, EmergencyEnds
<1>5. ASSUME NEW c \in Caller, AttemptFails(c)
      PROVE  EmergencyEnds'
  <2>1. \/ campaign' = campaign
        \/ \E n : \E st \in {"FAILED", campaign.status} :
             campaign' = [campaign EXCEPT !.failures = n, !.status = st]
    BY <1>5 DEF AttemptFails
  <2>2. ASSUME NEW n, NEW st, campaign' = [campaign EXCEPT !.failures = n, !.status = st]
        PROVE  campaign'.emergency = campaign.emergency /\ campaign'.status = st
    BY <1>0, <2>2
  <2>. QED BY <1>1, <2>1, <2>2 DEF EmergencyEnds
<1>6. ASSUME NEW c \in Caller, FileInterruption(c)
      PROVE  EmergencyEnds'
  <2>1. campaign' = campaign \/ campaign' = [campaign EXCEPT !.failures = @ + 1]
    BY <1>6 DEF FileInterruption
  <2>2. campaign'.emergency = campaign.emergency /\ campaign'.status = campaign.status
    BY <1>0, <2>1
  <2>. QED BY <2>2 DEF EmergencyEnds
<1>7. ASSUME NEW c \in Caller,
             \/ Insert(c) \/ StartRun(c) \/ ReconcileFirst(c) \/ PauseBlock(c)
             \/ StartBlock(c) \/ SelectSlot(c) \/ Train(c) \/ Materialize(c)
             \/ ReadControl(c) \/ RecordBaseline(c) \/ CheckTarget(c) \/ StartTrial(c)
             \/ Attach(c) \/ Settle(c) \/ Remediate(c) \/ BeginAbandon(c)
             \/ AbandonReconcile(c) \/ Discard(c) \/ Load(c) \/ CommitAnalysis(c)
             \/ PowerLoss(c) \/ StartInterruption(c) \/ RollbackInterrupted(c)
      PROVE  UNCHANGED campaign
  BY <1>7 DEF Insert, InsertLedger, StartRun, RowsVars, ReconcileFirst,
     PauseBlock, StartBlock, SelectSlot, Choose, Finish, Train, Gather, Materialize,
     ReadControl, RecordBaseline, CheckTarget, StartTrial, CreateTrial, Attach, Settle,
     Remediate, BeginAbandon, AbandonReconcile, Discard, Load, LoadRows, CommitAnalysis,
     PowerLoss, StartInterruption, RollbackInterrupted
<1>8. ASSUME NEW c \in Caller, RunTrial(c), ~ AttemptFails(c)
      PROVE  UNCHANGED campaign
  BY <1>8 DEF RunTrial, Worker, RunOnce, Measured, LeaseLost
<1>9. UNCHANGED attemptVars \/ Deploy \/ (\E c \in Caller : Crash(c)) => UNCHANGED campaign
  BY DEF attemptVars, coreVars, Deploy, Crash
<1>. QED BY <1>1, <1>2, <1>3, <1>4, <1>5, <1>6, <1>7, <1>8, <1>9, Steps
         DEF CommandStep, Leaving

(* An idle command begins, alone or overlapping.                           *)
Enters(c) ==
  StartRun(c) \/ Remediate(c) \/ BeginAbandon(c) \/ Load(c) \/ StartInterruption(c)

(* An idle command creates a campaign or enters one that has a block.      *)
LEMMA IdleMoves ==
  ASSUME NEW c \in Caller, CommandStep(c) \/ Leaving(c), caller[c].at = "idle"
  PROVE  \/ Create(c) /\ Quiet /\ UNCHANGED <<block, ledgerVars>>
         \/ /\ Enters(c)
            /\ UNCHANGED <<block, trial, ledgerVars>>
            /\ overlapped' = (overlapped \/ ~Quiet)
            /\ block # "NONE"
            /\ block = "FAILED" =>
                 /\ StartRun(c)
                 /\ caller' = [caller EXCEPT ![c] = [Idle EXCEPT
                      !.at = "reconcile", !.seen = campaign.status, !.block = block]]
<1>1. ~ Leaving(c)
  BY DEF Leaving, Steer, Crash, Busy
<1>2. ~ (\/ Insert(c) \/ ReconcileFirst(c) \/ PauseBlock(c) \/ StartBlock(c)
         \/ SelectSlot(c) \/ Train(c) \/ Materialize(c) \/ ReadControl(c)
         \/ RecordBaseline(c) \/ CheckTarget(c) \/ StartTrial(c) \/ Attach(c)
         \/ RunTrial(c) \/ Settle(c) \/ AbandonReconcile(c) \/ Discard(c)
         \/ CommitAnalysis(c) \/ PowerLoss(c) \/ RollbackInterrupted(c)
         \/ FileInterruption(c))
  BY DEF Insert, InsertLedger, ReconcileFirst, PauseBlock, StartBlock, SelectSlot,
     Choose, Finish, Train, Gather, Materialize, ReadControl, RecordBaseline,
     CheckTarget, StartTrial, Attach, RunTrial, Worker, RunOnce, Measured, AttemptFails,
     LeaseLost, Settle, AbandonReconcile, Discard, CommitAnalysis, PowerLoss,
     RollbackInterrupted, FileInterruption
<1>3. CASE Create(c)
  BY <1>3 DEF Create, CreateCampaign, OpenCampaign
<1>4. CASE Enters(c)
  <2>1. overlapped' = (overlapped \/ ~Quiet)
    BY <1>4, Zenon DEF Enters, StartRun, Begin, Remediate, BeginAbandon, Load, LoadRows,
       StartInterruption, Enter
  <2>2. UNCHANGED <<block, trial, ledgerVars>>
    BY <1>4 DEF Enters, StartRun, RowsVars, Remediate, BeginAbandon, Load, LoadRows,
       StartInterruption
  <2>3. block # "NONE"
    BY <1>4 DEF Enters, StartRun, Begin, Remediate, BeginAbandon, Load, LoadRows,
       StartInterruption
  <2>4. ASSUME block = "FAILED"
        PROVE  /\ StartRun(c)
               /\ caller' = [caller EXCEPT ![c] = [Idle EXCEPT
                    !.at = "reconcile", !.seen = campaign.status, !.block = block]]
    BY <1>4, <2>4 DEF Enters, StartRun, Begin, Enter, Remediate, BeginAbandon, Load,
       LoadRows, StartInterruption
  <2>. QED BY <1>4, <2>1, <2>2, <2>3, <2>4
<1>. QED BY <1>1, <1>2, <1>3, <1>4 DEF CommandStep, Enters

(* A passive command that is under way stays passive, and touches nothing  *)
(* but what a reconciliation does.                                         *)
LEMMA PassiveMoves ==
  ASSUME Types, NEW c \in Caller, CommandStep(c) \/ Leaving(c),
         Passive(caller[c]), caller[c].at # "idle"
  PROVE  /\ Passive(caller'[c])
         /\ UNCHANGED trial
         /\ ReconcileAttempt \/ UNCHANGED ledgerVars
         /\ block' = block \/ block = "RUNNING"
         /\ overlapped' = overlapped
<1>. CallerOK
  BY DEF Types
<1>1. CASE Leaving(c)
  BY <1>1, LeaveAfter DEF Leaving, Steer, Crash, Passive
<1>2. CASE PauseBlock(c)
  BY <1>2, ProceedAfter DEF PauseBlock, Passive
<1>3. CASE ReconcileFirst(c)
  <2>1. caller[c].at = "reconcile" /\ ~ GateOpen(c)
    BY <1>3 DEF ReconcileFirst, Passive, GateOpen
  <2>2. \/ caller' = [caller EXCEPT ![c] = [Idle EXCEPT !.at = "exhausted"]]
        \/ Leave(c)
    BY <1>3, <2>1 DEF ReconcileFirst, Leave
  <2>. QED BY <1>3, <2>2, FreshAfter, LeaveAfter DEF ReconcileFirst, Passive
<1>4. ~ (\/ Create(c) \/ Insert(c) \/ Enters(c) \/ StartBlock(c)
         \/ SelectSlot(c) \/ Train(c) \/ Materialize(c) \/ ReadControl(c)
         \/ RecordBaseline(c) \/ CheckTarget(c) \/ StartTrial(c) \/ Attach(c)
         \/ RunTrial(c) \/ Settle(c) \/ AbandonReconcile(c) \/ Discard(c)
         \/ CommitAnalysis(c) \/ PowerLoss(c) \/ RollbackInterrupted(c)
         \/ FileInterruption(c))
  BY DEF Passive, Create, CreateCampaign, OpenCampaign, Quiet, Busy, Insert, InsertLedger,
     Enters, StartRun, Begin, Enter, Remediate, BeginAbandon, Load, LoadRows,
     StartInterruption, StartBlock, SelectSlot,
     Choose, Finish, Train, Gather, Materialize, ReadControl, RecordBaseline,
     CheckTarget, StartTrial, Attach, RunTrial, Worker, RunOnce, Measured, AttemptFails,
     LeaseLost, Settle, AbandonReconcile, Discard, CommitAnalysis, PowerLoss,
     RollbackInterrupted, FileInterruption
<1>. QED BY <1>1, <1>2, <1>3, <1>4 DEF CommandStep, Enters

(* A command that has created the campaign inserts the block, or dies.     *)
LEMMA InsertMoves ==
  ASSUME NEW c \in Caller, CommandStep(c) \/ Leaving(c), caller[c].at = "ledger"
  PROVE  Insert(c) \/ Leaving(c)
<1>1. ~ (\/ Create(c) \/ Enters(c) \/ ReconcileFirst(c) \/ PauseBlock(c)
         \/ StartBlock(c) \/ SelectSlot(c) \/ Train(c) \/ Materialize(c)
         \/ ReadControl(c) \/ RecordBaseline(c) \/ CheckTarget(c) \/ StartTrial(c)
         \/ Attach(c) \/ RunTrial(c) \/ Settle(c) \/ AbandonReconcile(c)
         \/ Discard(c) \/ CommitAnalysis(c) \/ PowerLoss(c)
         \/ RollbackInterrupted(c) \/ FileInterruption(c))
  BY DEF Create, CreateCampaign, OpenCampaign, Quiet, Busy,
     Enters, StartRun, Begin, Enter, Remediate, BeginAbandon, Load, LoadRows,
     StartInterruption, ReconcileFirst, PauseBlock, StartBlock, SelectSlot,
     Choose, Finish, Train, Gather, Materialize, ReadControl, RecordBaseline,
     CheckTarget, StartTrial, Attach, RunTrial, Worker, RunOnce, Measured,
     AttemptFails, LeaseLost, Settle, AbandonReconcile, Discard, CommitAnalysis,
     PowerLoss, RollbackInterrupted, FileInterruption
<1>. QED BY <1>1 DEF CommandStep, Enters

(* Before there is a block, only its creation is under way.                *)
LEMMA NoneIdleStep ==
  ASSUME LedgerInv, NoneIdle, [Next]_attemptVars
  PROVE  NoneIdle'
<1>. Types /\ CallerOK
  BY DEF LedgerInv, Types
<1>1. CASE UNCHANGED attemptVars \/ Operator \/ Deploy
  BY <1>1, NobodyMoves DEF NoneIdle
<1>2. ASSUME NEW c \in Caller, CommandStep(c) \/ Leaving(c), block' = "NONE"
      PROVE  \A d \in Caller : caller'[d].at \in {"idle", "ledger"}
  <2>1. block = "NONE"
    <3>1. CASE PauseBlock(c) \/ StartBlock(c) \/ SelectSlot(c) \/ Discard(c)
               \/ CommitAnalysis(c) \/ Insert(c)
      BY <1>2, <3>1 DEF PauseBlock, StartBlock, SelectSlot, Choose, Finish, Discard,
         CommitAnalysis, Insert, InsertLedger
    <3>2. CASE \/ Create(c) \/ StartRun(c) \/ Remediate(c) \/ BeginAbandon(c)
               \/ StartInterruption(c) \/ ReconcileFirst(c) \/ Settle(c)
               \/ AbandonReconcile(c) \/ Materialize(c) \/ RecordBaseline(c)
               \/ CheckTarget(c) \/ Attach(c) \/ Load(c) \/ Train(c) \/ ReadControl(c)
      BY <1>2, <3>2 DEF Create, CreateCampaign, OpenCampaign, StartRun, Remediate,
         BeginAbandon, StartInterruption, RowsVars, ReconcileFirst, Settle,
         AbandonReconcile, Materialize, RecordBaseline, CheckTarget, Attach, Load,
         LoadRows, Train, ReadControl, Gather
    <3>3. CASE \/ StartTrial(c) \/ RunTrial(c) \/ PowerLoss(c)
               \/ RollbackInterrupted(c) \/ FileInterruption(c) \/ Leaving(c)
      BY <1>2, <3>3 DEF StartTrial, CreateTrial, RunTrial, Worker, RunOnce, Measured,
         AttemptFails, LeaseLost, PowerLoss, RollbackInterrupted, FileInterruption,
         Leaving, Steer, Crash
    <3>. QED BY <1>2, <3>1, <3>2, <3>3 DEF CommandStep
  <2>2. \A d \in Caller : caller[d].at \in {"idle", "ledger"}
    BY <2>1 DEF NoneIdle
  <2>3. \A d \in Caller : d # c => caller'[d] = caller[d]
    BY <1>2, OthersStay
  <2>4. caller'[c].at \in {"idle", "ledger"}
    <3>1. CASE caller[c].at = "idle"
      <4>1. Create(c)
        BY <1>2, <2>1, <3>1, IdleMoves
      <4>. QED BY <4>1, ProceedAfter DEF Create, CreateCampaign, OpenCampaign
    <3>2. CASE caller[c].at = "ledger"
      <4>1. CASE Leaving(c)
        BY <4>1, LeaveAfter DEF Leaving, Steer, Crash
      <4>2. CASE Insert(c)
        BY <4>2, LeaveAfter DEF Insert, InsertLedger
      <4>. QED BY <1>2, <3>2, <4>1, <4>2, InsertMoves
    <3>. QED BY <2>2, <3>1, <3>2
  <2>. QED BY <2>2, <2>3, <2>4
<1>. QED BY <1>1, <1>2, Steps DEF NoneIdle

(* Who enters while a block is inserted is refused.                        *)
LEMMA LedgerQuietStep ==
  ASSUME LedgerInv, LedgerQuiet, [Next]_attemptVars
  PROVE  LedgerQuiet'
<1>. Types /\ CallerOK
  BY DEF LedgerInv, Types
<1>1. CASE UNCHANGED attemptVars \/ Operator \/ Deploy
  BY <1>1, NobodyMoves DEF LedgerQuiet
<1>2. ASSUME NEW c \in Caller, CommandStep(c) \/ Leaving(c),
             NEW d \in Caller, caller'[d].at = "ledger",
             NEW e \in Caller, e # d
      PROVE  Passive(caller'[e])
  <2>0. GivenAt(caller[c])
    BY DEF LedgerInv, ReadsEarlier
  <2>1. CASE d = c
    <3>1. CommandStep(c)
      BY <1>2, <2>1, LeaveAfter DEF Leaving, Steer, Crash
    <3>2. Create(c)
      BY <1>2, <2>0, <2>1, <3>1, Arrivals
    <3>3. caller[e].at = "idle"
      BY <3>2 DEF Create, CreateCampaign, OpenCampaign, Quiet, Busy
    <3>4. caller'[e] = caller[e]
      BY <1>2, <2>1, OthersStay
    <3>. QED BY <3>3, <3>4 DEF Passive
  <2>2. CASE d # c
    <3>1. caller[d].at = "ledger"
      BY <1>2, <2>2, OthersStay
    <3>2. Passive(caller[e])
      BY <1>2, <3>1 DEF LedgerQuiet
    <3>3. CASE e # c
      BY <1>2, <3>2, <3>3, OthersStay
    <3>4. CASE e = c /\ caller[c].at # "idle"
      BY <1>2, <3>2, <3>4, PassiveMoves
    <3>5. CASE e = c /\ caller[c].at = "idle"
      <4>1. ~ Quiet
        BY <3>1 DEF Quiet, Busy
      <4>2. block \in {"NONE", "FAILED"}
        BY <3>1 DEF LedgerInv, InsertsAlone, AllowsInsert
      <4>3. /\ block = "FAILED"
            /\ caller' = [caller EXCEPT ![c] = [Idle EXCEPT
                 !.at = "reconcile", !.seen = campaign.status, !.block = block]]
        BY <1>2, <3>5, <4>1, <4>2, IdleMoves
      <4>4. caller'[c].at = "reconcile" /\ caller'[c].block = "FAILED"
        BY <4>3 DEF CallerOK, Idle
      <4>. QED BY <3>5, <4>4 DEF Passive
    <3>. QED BY <3>3, <3>4, <3>5
  <2>. QED BY <2>1, <2>2
<1>. QED BY <1>1, <1>2, Steps DEF LedgerQuiet

(* Only the primary waves have slots without a configuration.              *)
LEMMA NoPlannedStep ==
  ASSUME LedgerInv, NoPlanned, NoneIdle, [Next]_attemptVars
  PROVE  NoPlanned'
<1>. Types /\ CallerOK /\ kind' = kind
  BY TypesStep DEF LedgerInv, Types
<1>0. slot \in [Slot -> SlotRow]
  BY DEF Types, TypeOK, SlotRow
<1>1. ASSUME NEW c \in Caller, Insert(c)
      PROVE  NoPlanned'
  BY <1>1 DEF Insert, InsertLedger, NewSlot, NoPlanned, Adapts
<1>2. ASSUME ~ \E c \in Caller : Insert(c), block' # "NONE", ~Adapts, NEW s \in Slot
      PROVE  slot'[s].status # "PLANNED"
  <2>1. block # "NONE"
    <3>1. CASE UNCHANGED attemptVars \/ Operator \/ Deploy
      BY <1>2, <3>1, NobodyMoves
    <3>2. ASSUME NEW c \in Caller, CommandStep(c) \/ Leaving(c), block = "NONE"
          PROVE  FALSE
      <4>1. caller[c].at \in {"idle", "ledger"}
        BY <3>2 DEF NoneIdle
      <4>2. CASE caller[c].at = "idle"
        BY <1>2, <3>2, <4>2, IdleMoves
      <4>3. CASE caller[c].at = "ledger"
        <5>1. Leaving(c)
          BY <1>2, <3>2, <4>3, InsertMoves
        <5>. QED BY <1>2, <3>2, <5>1 DEF Leaving, Steer, Crash
      <4>. QED BY <3>2, <4>1, <4>2, <4>3
    <3>. QED BY <3>1, <3>2, Steps
  <2>2. slot[s].status # "PLANNED"
    BY <1>2, <2>1 DEF NoPlanned
  <2>3. CASE UNCHANGED ledgerVars
    BY <2>2, <2>3 DEF ledgerVars
  <2>4. CASE \E k \in AttemptId : Files(k)
    BY <1>0, <2>2, <2>4, Verdicts DEF Files, Terminal
  <2>5. CASE \E c \in Caller : Attaches(c) \/ Gives(c) \/ FilesInterruption(c)
    BY <1>0, <2>2, <2>5 DEF Attaches, Gives, FilesInterruption
  <2>. QED BY <1>2, <2>3, <2>4, <2>5, LedgerWrites
<1>. QED BY <1>1, <1>2 DEF NoPlanned, Adapts

-----------------------------------------------------------------------------
(***************************************************************************)
(* Slots, attempts and trials.  Story is not inductive by itself: the      *)
(* attempts before the one in flight failed for infrastructure reasons.    *)
(***************************************************************************)
Full(s) ==
  /\ Story(s)
  /\ slot[s].status = "CREATED" =>
       \A m \in 1..slot[s].attempts : attempt[<<s, m>>] = "INFRASTRUCTURE_FAILED"

FullStory == \A s \in Slot : Full(s)

(* A row that is not written keeps its story while its trials only go on.  *)
LEMMA RowStays ==
  ASSUME Types, NEW s \in Slot, Full(s),
         slot'[s] = slot[s],
         \A m \in 1..3 : attempt'[<<s, m>>] = attempt[<<s, m>>],
         \A m \in 1..3 : trial[<<s, m>>].state # "NONE" => trial'[<<s, m>>].state # "NONE",
         \A m \in 1..3 : trial[<<s, m>>].state \in Ended =>
                           trial'[<<s, m>>] = trial[<<s, m>>]
  PROVE  Full(s)'
<1>. DEFINE n == slot[s].attempts
<1>0. MaxAttempts = 3 /\ n \in 0..3
  BY SlotNumbers DEF Types, TypeOK
<1>1. ASSUME NEW m \in 1..3, Settled(<<s, m>>)
      PROVE  /\ Settled(<<s, m>>)'
             /\ AttemptVerdict(<<s, m>>)' = AttemptVerdict(<<s, m>>)
             /\ SlotVerdict(<<s, m>>)' = SlotVerdict(<<s, m>>)
  BY <1>1 DEF Settled, AttemptVerdict, SlotVerdict
<1>2. Story(s)'
  <2>. SUFFICES /\ \A m \in 1..MaxAttempts :
                     /\ m < n => attempt[<<s, m>>] = "INFRASTRUCTURE_FAILED"
                     /\ m > n => attempt[<<s, m>>] =
                                   IF m = n + 1 /\ slot[s].status = "CREATED"
                                     THEN "CREATED" ELSE "NONE"
                     /\ attempt[<<s, m>>] = "CREATED" => trial'[<<s, m>>].state # "NONE"
                /\ slot[s].status \in {"PLANNED", "PROPOSED"} => n = 0
                /\ slot[s].status = "CREATED" => n < MaxAttempts
                /\ slot[s].status \in Terminal \cup {"RETRY_PENDING"} =>
                     /\ n > 0
                     /\ Settled(<<s, n>>)'
                     /\ attempt[<<s, n>>] = AttemptVerdict(<<s, n>>)'
                     /\ slot[s].status = SlotVerdict(<<s, n>>)'
    BY <1>0 DEF Story
  <2>. QED BY <1>0, <1>1 DEF Full, Story
<1>. QED BY <1>0, <1>2 DEF Full

(* An attempt is a slot and a number.                                      *)
LEMMA AttemptPairs ==
  ASSUME NEW k \in AttemptId
  PROVE  k[1] \in Slot /\ k[2] \in 1..3 /\ k = <<k[1], k[2]>>
BY SlotNumbers

(* The attempt in flight is the next one.                                  *)
LEMMA FlightIsNext ==
  ASSUME Types, NEW k \in AttemptId, Full(k[1]),
         slot[k[1]].status = "CREATED", attempt[k] = "CREATED"
  PROVE  k[2] = slot[k[1]].attempts + 1
<1>. DEFINE s == k[1]
            m == k[2]
<1>1. s \in Slot /\ m \in 1..3 /\ MaxAttempts = 3 /\ k = <<s, m>>
      /\ slot[s].attempts \in 0..3
  <2>1. s \in Slot /\ m \in 1..3 /\ k = <<s, m>> /\ MaxAttempts = 3
    BY AttemptPairs, SlotNumbers
  <2>2. \A x \in Slot : slot[x].attempts \in 0..3
    BY <2>1 DEF Types, TypeOK
  <2>. QED BY <2>1, <2>2
<1>2. attempt[<<s, m>>] = "CREATED"
  BY <1>1
<1>. HIDE DEF s, m
<1>3. CASE m <= slot[s].attempts
  BY <1>1, <1>2, <1>3 DEF Full, s
<1>4. CASE m > slot[s].attempts
  BY <1>1, <1>2, <1>4 DEF Full, Story, s
<1>. QED BY <1>1, <1>3, <1>4 DEF s, m

(* Filing the verdict on the attempt in flight.                            *)
LEMMA FiledRow ==
  ASSUME Types, NEW k \in AttemptId, Full(k[1]),
         slot[k[1]].status = "CREATED", attempt[k] = "CREATED",
         Settled(k)', NEW g,
         attempt' = [attempt EXCEPT ![k] = AttemptVerdict(k)'],
         slot' = [slot EXCEPT ![k[1]] =
           [status |-> SlotVerdict(k)', attempts |-> k[2], given |-> g]],
         \A m \in 1..3 : trial[<<k[1], m>>].state # "NONE" =>
                           trial'[<<k[1], m>>].state # "NONE"
  PROVE  Full(k[1])'
<1>. DEFINE s == k[1]
            n == k[2]
<1>1. /\ s \in Slot /\ n \in 1..3 /\ MaxAttempts = 3 /\ k = <<s, n>>
      /\ n = slot[s].attempts + 1 /\ slot[s].attempts \in 0..3
      /\ slot \in [Slot -> SlotRow] /\ attempt \in [AttemptId -> AttemptStatus]
      /\ \A m \in 1..3 : <<s, m>> \in AttemptId
  <2>1. s \in Slot /\ n \in 1..3 /\ k = <<s, n>> /\ MaxAttempts = 3
    BY AttemptPairs, SlotNumbers
  <2>2. slot \in [Slot -> SlotRow] /\ attempt \in [AttemptId -> AttemptStatus]
    BY DEF Types, TypeOK, SlotRow
  <2>3. slot[s].attempts \in 0..3
    BY <2>1, <2>2 DEF SlotRow
  <2>4. n = slot[s].attempts + 1
    BY FlightIsNext
  <2>5. \A m \in 1..3 : <<s, m>> \in AttemptId
    BY <2>1, SlotNumbers
  <2>. QED BY <2>1, <2>2, <2>3, <2>4, <2>5
<1>2. /\ slot'[s].status = SlotVerdict(k)' /\ slot'[s].attempts = n
      /\ attempt'[k] = AttemptVerdict(k)'
      /\ \A m \in 1..3 : m # n => attempt'[<<s, m>>] = attempt[<<s, m>>]
  BY <1>1
<1>3. /\ AttemptVerdict(k)' \in {"COMPLETED", "INFRASTRUCTURE_FAILED", "CANDIDATE_FAILED"}
      /\ SlotVerdict(k)' \in Terminal \cup {"RETRY_PENDING"}
  BY DEF AttemptVerdict, SlotVerdict, Terminal
<1>4. \A m \in 1..3 : m < n => attempt[<<s, m>>] = "INFRASTRUCTURE_FAILED"
  BY <1>1 DEF Full
<1>5. \A m \in 1..3 : m > n => attempt[<<s, m>>] = "NONE"
  BY <1>1 DEF Full, Story
<1>6. \A m \in 1..3 : m # n /\ attempt[<<s, m>>] = "CREATED" =>
        trial'[<<s, m>>].state # "NONE"
  BY <1>1 DEF Full, Story
<1>. HIDE DEF s, n
<1>7. Story(s)'
  <2>1. ASSUME NEW m \in 1..3
        PROVE  /\ m < n => attempt'[<<s, m>>] = "INFRASTRUCTURE_FAILED"
               /\ m > n => attempt'[<<s, m>>] = "NONE"
               /\ attempt'[<<s, m>>] = "CREATED" => trial'[<<s, m>>].state # "NONE"
    BY <1>1, <1>2, <1>3, <1>4, <1>5, <1>6
  <2>2. slot'[s].status \notin {"CREATED", "PLANNED", "PROPOSED"}
    BY <1>2, <1>3 DEF Terminal
  <2>3. k = <<s, n>> /\ n > 0
    BY <1>1
  <2>4. /\ Settled(<<s, n>>)'
        /\ attempt'[<<s, n>>] = AttemptVerdict(<<s, n>>)'
        /\ slot'[s].status = SlotVerdict(<<s, n>>)'
    BY <1>2, <2>3
  <2>. QED BY <1>1, <1>2, <2>1, <2>2, <2>3, <2>4 DEF Story
<1>8. slot'[s].status # "CREATED"
  BY <1>2, <1>3 DEF Terminal
<1>. QED BY <1>7, <1>8 DEF Full, s

(* The trials of a slot only go on.                                        *)
LEMMA TrialsGoOn ==
  ASSUME Types, OneTry, [Next]_attemptVars, ~ \E c \in Caller : Insert(c),
         NEW t \in TrialId
  PROVE  /\ trial[t].state # "NONE" => trial'[t].state # "NONE"
         /\ trial[t].state \in Ended => trial'[t] = trial[t]
<1>1. \/ trial'[t] = trial[t]
      \/ trial[t].state = "NONE"
      \/ /\ trial[t].state \notin Ended
         /\ trial'[t].state # "NONE"
  BY TrialMoves DEF Ended
<1>. QED BY <1>1 DEF Ended

(* A trial that is not there yet is Absent.                                *)
LEMMA NotThere ==
  ASSUME Types, OneTry, NEW t \in TrialId
  PROVE  trial[t].state = "NONE" <=> trial[t] = Absent
<1>1. trial[t] \in [state: TrialState, tries: 0..1]
  BY CoreTypes DEF Types, TypeOK
<1>2. trial[t].state = "NONE" => trial[t].tries = 0
  BY DEF OneTry
<1>. QED BY <1>1, <1>2 DEF Absent

(* Without a new block, commands that have overlapped have overlapped.     *)
LEMMA OverlapGrows ==
  ASSUME Types, [Next]_attemptVars, ~ \E c \in Caller : Insert(c), overlapped = TRUE
  PROVE  overlapped' = TRUE
<1>1. CASE UNCHANGED attemptVars \/ Operator \/ Deploy
  BY <1>1, Zenon DEF attemptVars, coreVars, Operator, Control, Deploy
<1>2. ASSUME NEW c \in Caller, CommandStep(c) \/ Leaving(c)
      PROVE  overlapped' = TRUE
  <2>1. CASE Enters(c)
    <3>1. overlapped' = (overlapped \/ ~Quiet)
      BY <2>1, Zenon DEF Enters, StartRun, Begin, Remediate, BeginAbandon, Load, LoadRows,
         StartInterruption, Enter
    <3>. QED BY <3>1, Zenon
  <2>2. CASE ~ Enters(c)
    <3>1. UNCHANGED overlapped
      <4>1. CASE \/ Create(c) \/ ReconcileFirst(c) \/ PauseBlock(c) \/ StartBlock(c)
                 \/ SelectSlot(c) \/ Train(c) \/ Materialize(c) \/ ReadControl(c)
                 \/ RecordBaseline(c) \/ CheckTarget(c) \/ StartTrial(c) \/ Attach(c)
        BY <4>1, Zenon DEF Create, CreateCampaign, OpenCampaign, ReconcileFirst, PauseBlock,
           StartBlock, SelectSlot, Choose, Finish, Train, Gather, Materialize, ReadControl,
           RecordBaseline, CheckTarget, StartTrial, CreateTrial, Attach
      <4>2. CASE \/ RunTrial(c) \/ Settle(c) \/ AbandonReconcile(c) \/ Discard(c)
                 \/ CommitAnalysis(c) \/ PowerLoss(c) \/ RollbackInterrupted(c)
                 \/ FileInterruption(c) \/ Leaving(c)
        BY <4>2, Zenon DEF RunTrial, Worker, RunOnce, Measured, AttemptFails, LeaseLost,
           Settle, AbandonReconcile, Discard, CommitAnalysis, PowerLoss,
           RollbackInterrupted, FileInterruption, Leaving, Steer, Crash
      <4>. QED BY <1>2, <2>2, <4>1, <4>2 DEF CommandStep, Enters
    <3>. QED BY <3>1, Zenon
  <2>. QED BY <2>1, <2>2
<1>. QED BY <1>1, <1>2, Steps

-----------------------------------------------------------------------------
(***************************************************************************)
(* What a command knows.  One at a time is at work; it selects a slot only *)
(* when none is in flight, and until the trial of its slot is attached,    *)
(* none is, the earlier slots have their outcomes, and its attempt is the  *)
(* next one.                                                               *)
(***************************************************************************)
NoneInFlight == \A s \in Slot : slot[s].status # "CREATED"

Preparing ==
  {"train", "materialize", "control", "baseline", "canonical", "trial", "attach"}

Prepared(l) ==
  /\ NoneInFlight
  /\ l.number = slot[l.slot].attempts + 1
  /\ \A s \in Slot : s < l.slot => slot[s].status \in Terminal
  /\ slot[l.slot].status \in
       IF l.at \in {"train", "materialize"} THEN {"PLANNED"} ELSE Executable

Working(l) ==
  /\ l.at = "select" \/ (l.at = "start" /\ l.open = FALSE) => NoneInFlight
  /\ l.at \in Preparing => Prepared(l)
  /\ l.at = "attach" => trial[<<l.slot, l.number>>].state # "NONE"

Works == \A c \in Caller : Working(caller[c])

Solo == \A c, d \in Caller : c # d => Passive(caller[c]) \/ Passive(caller[d])

Ordered ==
  \A t \in TrialId : trial[t] # Absent =>
    \A s \in Slot : s < t[1] => slot[s].status \in Terminal

(* A passive command prepares nothing.                                     *)
LEMMA PassiveWorks ==
  ASSUME NEW c \in Caller, Passive(caller'[c])
  PROVE  Working(caller[c])'
BY DEF Passive, Working, Preparing

(* At most one slot is in flight: its attempt has a trial, and so the      *)
(* slots before it have their outcomes.                                    *)
LEMMA FlightHasTrial ==
  ASSUME Types, OneTry, FullStory, NEW s \in Slot, slot[s].status = "CREATED"
  PROVE  \E k \in InFlight : k \in TrialId /\ k[1] = s /\ trial[k] # Absent
<1>. DEFINE k == <<s, slot[s].attempts + 1>>
<1>1. Story(s) /\ slot[s].attempts \in 0..3 /\ MaxAttempts = 3
  BY SlotNumbers DEF FullStory, Full, Types, TypeOK
<1>2. slot[s].attempts + 1 \in 1..3
  BY <1>1 DEF Story
<1>3. k \in AttemptId /\ k \in TrialId /\ k[1] = s
  BY <1>2, SlotNumbers
<1>4. attempt[k] = "CREATED" /\ trial[k].state # "NONE"
  BY <1>1, <1>2 DEF Story
<1>5. k \in InFlight
  BY <1>3, <1>4 DEF InFlight
<1>. QED BY <1>3, <1>4, <1>5, NotThere

(* Two slots in flight are the same one.                                   *)
LEMMA OneInFlight ==
  ASSUME Types, OneTry, FullStory, Ordered,
         NEW s \in Slot, slot[s].status = "CREATED",
         NEW d \in Slot, slot[d].status = "CREATED"
  PROVE  s = d
<1>1. ASSUME NEW x \in Slot, NEW y \in Slot, slot[x].status = "CREATED",
             slot[y].status = "CREATED"
      PROVE  ~ (x < y)
  <2>1. PICK k \in InFlight : k \in TrialId /\ k[1] = y /\ trial[k] # Absent
    BY <1>1, FlightHasTrial
  <2>. QED BY <1>1, <2>1 DEF Ordered, Terminal
<1>. QED BY <1>1, SlotNumbers

(* After a reconciliation that found no attempt still running, no slot is  *)
(* in flight.                                                              *)
LEMMA ReconcileClears ==
  ASSUME Types, OneTry, FullStory, Ordered, ReconcileAttempt,
         ~ (InFlight # {} /\ ~Settled(Current))
  PROVE  NoneInFlight'
<1>0. slot \in [Slot -> SlotRow]
  BY DEF Types, TypeOK, SlotRow
<1>1. CASE InFlight = {}
  BY <1>1, FlightHasTrial DEF ReconcileAttempt, ledgerVars, NoneInFlight
<1>2. CASE InFlight # {}
  <2>. DEFINE k == Current
  <2>1. k \in InFlight /\ k \in AttemptId /\ k[1] \in Slot
        /\ slot[k[1]].status = "CREATED"
    BY <1>2, CurrentInFlight, SlotNumbers DEF InFlight
  <2>2. UNCHANGED ledgerVars \/ Files(k)
    BY ReconcileEffect DEF Types
  <2>3. Settled(k)
    BY <1>2
  <2>. HIDE DEF k
  <2>4. Files(k)
    <3>1. slot'[k[1]].status # "CREATED"
      <4>1. slot' = [slot EXCEPT ![k[1]].status = SlotVerdict(k), ![k[1]].attempts = k[2]]
        BY <1>2, <2>3 DEF ReconcileAttempt, k
      <4>2. slot'[k[1]].status = SlotVerdict(k)
        BY <1>0, <2>1, <4>1 DEF SlotRow
      <4>. QED BY <2>1, <4>2, Verdicts DEF Terminal
    <3>. QED BY <2>1, <2>2, <3>1 DEF ledgerVars
  <2>5. slot'[k[1]].status # "CREATED"
    <3>1. slot'[k[1]].status = SlotVerdict(k)
      BY <1>0, <2>1, <2>4 DEF Files
    <3>. QED BY <2>1, <3>1, Verdicts DEF Terminal
  <2>6. ASSUME NEW s \in Slot, s # k[1]
        PROVE  slot'[s].status # "CREATED"
    <3>1. slot'[s] = slot[s]
      BY <1>0, <2>1, <2>4, <2>6 DEF Files
    <3>. QED BY <2>1, <2>6, <3>1, OneInFlight
  <2>. QED BY <2>5, <2>6 DEF NoneInFlight
<1>. QED BY <1>1, <1>2

(* How a command comes to the places where it selects and prepares a slot. *)
LEMMA WorkArrivals ==
  ASSUME Types, NEW c \in Caller, CommandStep(c)
  PROVE  /\ caller'[c].at \in {"select", "start"} => ReconcileFirst(c) \/ StartBlock(c)
         /\ caller'[c].at \in {"train", "control", "canonical"} =>
              Choose(c, Startable, FirstStep)
         /\ caller'[c].at = "materialize" => Train(c)
<1>. DEFINE l == caller'[c]
            G == /\ l.at \in {"select", "start"} => ReconcileFirst(c) \/ StartBlock(c)
                 /\ l.at \in {"train", "control", "canonical"} =>
                      Choose(c, Startable, FirstStep)
                 /\ l.at = "materialize" => Train(c)
<1>. SUFFICES G
  OBVIOUS
<1>0. CallerOK
  BY DEF Types
<1>1. ASSUME l.at \notin {"select", "start", "train", "control", "canonical",
                          "materialize"}
      PROVE  G
  BY <1>1
<1>2. Leave(c) => l.at = "idle"
  BY <1>0, LeaveAfter
<1>3. ASSUME NEW at, caller' = [caller EXCEPT ![c] = [Idle EXCEPT !.at = at]]
      PROVE  l.at = at
  BY <1>0, <1>3, FreshAfter
<1>4. ASSUME NEW at, Proceed(c, at)
      PROVE  l.at = at
  BY <1>0, <1>4, ProceedAfter
<1>5. CASE StartRun(c) \/ BeginAbandon(c) \/ StartInterruption(c)
  <2>1. CASE StartRun(c)
    BY <1>0, <1>1, <2>1 DEF StartRun, Begin, Enter, Idle, CallerOK
  <2>2. CASE BeginAbandon(c)
    BY <1>0, <1>1, <2>2 DEF BeginAbandon, Enter, Idle, CallerOK
  <2>3. CASE StartInterruption(c)
    BY <1>0, <1>1, <2>3 DEF StartInterruption, Enter, Idle, CallerOK
  <2>. QED BY <1>5, <2>1, <2>2, <2>3
<1>6. CASE ReconcileFirst(c)
  BY <1>0, <1>6 DEF ReconcileFirst, Idle, CallerOK
<1>7. CASE StartBlock(c)
  BY <1>3, <1>7 DEF StartBlock
<1>8. CASE SelectSlot(c)
  <2>1. CASE Choose(c, Startable, FirstStep)
    <3>1. PICK s \in Slot, n \in 1..MaxAttempts,
               at \in OnSlot \ {"rollback", "interruption"} :
             /\ slot[s].status \in Startable
             /\ at = FirstStep[s]
             /\ n = slot[s].attempts + 1
             /\ caller' = [caller EXCEPT ![c] =
                  [Idle EXCEPT !.at = at, !.slot = s, !.number = n]]
      BY <2>1, SelectedSlot, Zenon
    <3>2. at \in {"train", "trial", "control", "canonical"}
      BY <3>1 DEF FirstStep
    <3>3. l = [Idle EXCEPT !.at = at, !.slot = s, !.number = n]
      BY <1>0, <3>1 DEF CallerOK
    <3>4. l.at = at
      BY <3>3 DEF Idle
    <3>. QED BY <2>1, <3>2, <3>4
  <2>2. CASE Finish(c, Startable)
    BY <1>1, <1>2, <1>4, <2>2 DEF Finish
  <2>. QED BY <1>8, <2>1, <2>2 DEF SelectSlot
<1>9. CASE Train(c) \/ ReadControl(c)
  <2>1. \/ l.at = "idle"
        \/ l.at = "materialize" /\ Train(c)
        \/ l.at = "baseline"
    <3>1. CASE Leave(c)
      BY <1>2, <3>1
    <3>2. CASE Train(c) /\ ~ Leave(c)
      BY <1>0, <3>2 DEF Train, Gather, Leave, CallerOK, CommandState
    <3>3. CASE ReadControl(c) /\ ~ Leave(c)
      BY <1>0, <3>3 DEF ReadControl, Gather, Leave, CallerOK, CommandState
    <3>. QED BY <1>9, <3>1, <3>2, <3>3
  <2>. QED BY <2>1
<1>10. CASE Materialize(c) \/ RecordBaseline(c)
  <2>1. CASE Gives(c)
    <3>1. caller[c].at \in OnSlot
      BY <2>1 DEF Gives, OnSlot
    <3>2. l = [caller[c] EXCEPT !.at = "trial", !.given = {}]
      BY <1>0, <2>1 DEF Gives, CallerOK
    <3>3. l.at = "trial"
      <4>1. caller[c] \in CommandState
        BY <1>0 DEF CallerOK
      <4>. QED BY <3>2, <4>1 DEF CommandState
    <3>. QED BY <1>1, <3>3
  <2>. QED BY <1>1, <1>2, <1>10, <2>1, GiveEffect
<1>11. CASE RunTrial(c)
  <2>1. CASE RunOnce(c, "settle")
    BY <1>0, <1>1, <2>1 DEF RunOnce, Proceed, CallerOK, CommandState
  <2>2. CASE Measured(c, "settle")
    BY <1>0, <1>1, <2>2 DEF Measured, CallerOK, CommandState
  <2>3. CASE AttemptFails(c) \/ LeaseLost(c)
    BY <1>1, <1>2, <2>3 DEF AttemptFails, LeaseLost
  <2>. QED BY <1>11, <2>1, <2>2, <2>3 DEF RunTrial, Worker
<1>12. CASE \/ Create(c) \/ PauseBlock(c) \/ RollbackInterrupted(c)
            \/ AbandonReconcile(c) \/ CheckTarget(c) \/ StartTrial(c)
  BY <1>1, <1>2, <1>4, <1>12 DEF Create, CreateCampaign, OpenCampaign, PauseBlock,
     RollbackInterrupted, AbandonReconcile, CheckTarget, StartTrial, CreateTrial
<1>13. CASE \/ Attach(c) \/ Settle(c) \/ Remediate(c) \/ Discard(c)
            \/ CommitAnalysis(c) \/ Load(c)
  BY <1>1, <1>2, <1>3, <1>13 DEF Attach, Settle, Remediate, Enter, Discard,
     CommitAnalysis, Load, LoadRows
<1>14. CASE Insert(c) \/ PowerLoss(c) \/ FileInterruption(c)
  BY <1>1, <1>2, <1>14 DEF Insert, InsertLedger, PowerLoss, FileInterruption
<1>. HIDE DEF G
<1>. QED BY <1>5, <1>6, <1>7, <1>8, <1>9, <1>10, <1>11, <1>12, <1>13, <1>14
         DEF CommandStep

(* Before it selects, a command has seen that no slot is in flight.        *)
LEMMA SelectsClear ==
  ASSUME Types, OneTry, FullStory, Ordered, NEW c \in Caller,
         Working(caller[c]), ReconcileFirst(c) \/ StartBlock(c),
         caller'[c].at = "select" \/ (caller'[c].at = "start" /\ caller'[c].open = FALSE)
  PROVE  NoneInFlight'
<1>0. CallerOK
  BY DEF Types
<1>1. CASE ReconcileFirst(c)
  <2>. DEFINE open == InFlight # {} /\ ~Settled(Current)
  <2>1. PICK o \in BOOLEAN : o = open
    OBVIOUS
  <2>2. ReconcileAttempt
    BY <1>1 DEF ReconcileFirst
  <2>3. CASE o = TRUE
    <3>1. \/ Leave(c)
          \/ caller' = [caller EXCEPT ![c] = [Idle EXCEPT !.at = "exhausted"]]
          \/ \E next \in {"start", "run_once"} :
               caller' = [caller EXCEPT ![c] = [Idle EXCEPT !.at = next, !.open = o]]
      BY <1>1, <2>1, <2>3 DEF ReconcileFirst, Leave
    <3>2. ASSUME NEW next \in {"start", "run_once"},
                 caller' = [caller EXCEPT ![c] = [Idle EXCEPT !.at = next, !.open = o]]
          PROVE  caller'[c].at = next /\ caller'[c].open = o
      BY <1>0, <3>2 DEF CallerOK, Idle
    <3>3. Leave(c) => caller'[c].at = "idle"
      BY <1>0, LeaveAfter
    <3>4. caller' = [caller EXCEPT ![c] = [Idle EXCEPT !.at = "exhausted"]] =>
            caller'[c].at = "exhausted"
      BY <1>0, FreshAfter
    <3>. QED BY <2>3, <3>1, <3>2, <3>3, <3>4
  <2>4. CASE ~ open
    BY <2>2, <2>4, ReconcileClears
  <2>. HIDE DEF open
  <2>. QED BY <2>1, <2>3, <2>4
<1>2. CASE StartBlock(c)
  <2>1. CASE caller[c].open = FALSE
    <3>1. NoneInFlight /\ slot' = slot
      BY <1>2, <2>1 DEF StartBlock, Working, ledgerVars
    <3>. QED BY <3>1 DEF NoneInFlight
  <2>2. CASE caller[c].open # FALSE
    <3>1. caller' = [caller EXCEPT ![c] = [Idle EXCEPT !.at = "run_once"]]
      <4>1. caller[c].open = TRUE
        BY <1>0, <2>2 DEF CallerOK, CommandState
      <4>. QED BY <1>2, <4>1 DEF StartBlock
    <3>2. caller'[c].at = "run_once"
      BY <1>0, <3>1, FreshAfter
    <3>. QED BY <3>2
  <2>. QED BY <2>1, <2>2
<1>. QED BY <1>1, <1>2

(* The slot it selects is the next one, and so is the attempt.             *)
LEMMA SelectsNext ==
  ASSUME Types, NoPlanned, NoneIdle, NEW c \in Caller, Working(caller[c]),
         Choose(c, Startable, FirstStep)
  PROVE  /\ caller'[c].at \notin {"select", "start", "materialize", "attach"}
         /\ Prepared(caller'[c])
<1>0. CallerOK /\ slot \in [Slot -> SlotRow]
  BY DEF Types, TypeOK, SlotRow
<1>. DEFINE s == Min(Runnable(Startable))
            n == slot[s].attempts + 1
            l == [Idle EXCEPT !.at = FirstStep[s], !.slot = s, !.number = n]
<1>1. /\ caller[c].at = "select" /\ Runnable(Startable) # {}
      /\ caller' = [caller EXCEPT ![c] = l]
  BY DEF Choose
<1>2. s \in Slot /\ slot[s].status \in Startable
      /\ \A d \in Slot : slot[d].status \in Startable => s <= d
  BY <1>1, FirstSlot DEF Runnable
<1>. HIDE DEF s
<1>3. NoneInFlight
  BY <1>1 DEF Working
<1>4. \A d \in Slot : d < s => slot[d].status \in Terminal
  <2>1. ASSUME NEW d \in Slot, d < s
        PROVE  slot[d].status \in Terminal
    <3>1. slot[d].status \notin Startable
      BY <1>2, <2>1, SlotNumbers
    <3>2. slot[d].status # "CREATED" /\ slot[d].status \in SlotStatus
      BY <1>0, <1>3 DEF NoneInFlight, SlotRow
    <3>3. slot[d].status # "PLANNED"
      <4>1. CASE Adapts
        BY <3>1, <4>1 DEF Startable
      <4>2. CASE ~ Adapts
        BY <1>1, <4>2 DEF NoPlanned, NoneIdle
      <4>. QED BY <4>1, <4>2
    <3>. QED BY <3>1, <3>2, <3>3 DEF SlotStatus, Startable
  <2>. QED BY <2>1
<1>5. /\ FirstStep[s] \in {"train", "trial", "control", "canonical"}
      /\ FirstStep[s] = "train" => slot[s].status = "PLANNED"
      /\ FirstStep[s] # "train" => slot[s].status \in Executable
  <2>1. FirstStep[s] =
          CASE Adapts -> IF slot[s].status = "PLANNED" THEN "train" ELSE "trial"
            [] kind = "phase-b" -> IF s \in Controls THEN "trial" ELSE "control"
            [] kind = "h25" -> "canonical"
            [] OTHER -> "trial"
    BY <1>2 DEF FirstStep
  <2>2. CASE Adapts
    <3>1. FirstStep[s] = IF slot[s].status = "PLANNED" THEN "train" ELSE "trial"
      BY <2>1, <2>2 DEF Adapts
    <3>2. slot[s].status \in Executable \cup {"PLANNED"}
      BY <1>2, <2>2 DEF Startable
    <3>. QED BY <3>1, <3>2
  <2>3. CASE ~ Adapts
    <3>1. slot[s].status \in Executable
      BY <1>2, <2>3 DEF Startable
    <3>2. FirstStep[s] \in {"trial", "control", "canonical"}
      BY <2>1, <2>3 DEF Adapts
    <3>. QED BY <3>1, <3>2
  <2>. QED BY <2>2, <2>3
<1>6. l.at = FirstStep[s] /\ l.slot = s /\ l.number = n
  BY DEF Idle
<1>7. caller'[c] = l
  BY <1>0, <1>1 DEF CallerOK
<1>. HIDE DEF l
<1>. QED BY <1>2, <1>3, <1>4, <1>5, <1>6, <1>7 DEF Prepared

(* What prepares a slot further keeps what the command knows.              *)
LEMMA PreparesFurther ==
  ASSUME Types, OneTry, NEW c \in Caller, Working(caller[c]),
         Train(c) \/ ReadControl(c) \/ Gives(c) \/ CheckTarget(c)
           \/ (StartTrial(c) /\ Proceed(c, "attach")),
         caller'[c].at # "idle"
  PROVE  Working(caller[c])'
<1>0. CallerOK /\ slot \in [Slot -> SlotRow] /\ caller[c] \in CommandState
  BY DEF Types, TypeOK, SlotRow, CallerOK
<1>1. Leave(c) => caller'[c].at = "idle"
  BY <1>0, LeaveAfter
<1>2. ASSUME UNCHANGED slot, caller[c].at \in Preparing,
             caller'[c].slot = caller[c].slot, caller'[c].number = caller[c].number,
             caller'[c].at \in Preparing,
             caller'[c].at \in {"train", "materialize"} <=>
               caller[c].at \in {"train", "materialize"},
             caller'[c].at = "attach" =>
               trial'[<<caller[c].slot, caller[c].number>>].state # "NONE"
      PROVE  Working(caller[c])'
  BY <1>2 DEF Working, Prepared, NoneInFlight, Preparing
<1>3. CASE Train(c) \/ ReadControl(c)
  <2>1. PICK from \in {"train", "control"}, to \in {"materialize", "baseline"} :
          /\ caller[c].at = from
          /\ from = "train" <=> to = "materialize"
          /\ \E g : Leave(c) \/ caller' = [caller EXCEPT ![c].at = to, ![c].given = g]
    BY <1>3 DEF Train, ReadControl, Gather, Leave
  <2>2. PICK g : caller' = [caller EXCEPT ![c].at = to, ![c].given = g]
    BY <1>1, <2>1
  <2>3. /\ caller'[c].at = to /\ caller'[c].slot = caller[c].slot
        /\ caller'[c].number = caller[c].number
    BY <1>0, <2>2 DEF CallerOK, CommandState
  <2>4. UNCHANGED slot
    BY <1>3 DEF Train, ReadControl, Gather, ledgerVars
  <2>. QED BY <1>2, <2>1, <2>3, <2>4 DEF Preparing
<1>4. CASE CheckTarget(c)
  <2>1. Proceed(c, "trial") /\ UNCHANGED slot /\ caller[c].at = "canonical"
    BY <1>1, <1>4 DEF CheckTarget, ledgerVars
  <2>2. /\ caller'[c].at = "trial" /\ caller'[c].slot = caller[c].slot
        /\ caller'[c].number = caller[c].number
    BY <1>0, <2>1, ProceedAfter
  <2>. QED BY <1>2, <2>1, <2>2 DEF Preparing
<1>5. CASE StartTrial(c) /\ Proceed(c, "attach")
  <2>. DEFINE k == <<caller[c].slot, caller[c].number>>
  <2>1. /\ caller'[c].at = "attach" /\ caller'[c].slot = caller[c].slot
        /\ caller'[c].number = caller[c].number
    BY <1>0, <1>5, ProceedAfter
  <2>2. UNCHANGED slot /\ caller[c].at = "trial"
    BY <1>5 DEF StartTrial, ledgerVars
  <2>3. k \in TrialId /\ trial \in [TrialId -> [state: TrialState, tries: 0..1]]
    BY <2>2, CoreTypes, SlotNumbers DEF Types, TypeOK
  <2>4. trial' = IF trial[k] = Absent THEN [trial EXCEPT ![k].state = "QUEUED"] ELSE trial
    <3>1. ~ Leave(c)
      BY <1>1, <2>1
    <3>. QED BY <1>5, <3>1 DEF StartTrial, CreateTrial
  <2>5. trial'[k].state # "NONE"
    BY <2>3, <2>4, NotThere
  <2>. QED BY <1>2, <2>1, <2>2, <2>5 DEF Preparing
<1>6. CASE Gives(c)
  <2>. DEFINE s == caller[c].slot
  <2>1. s \in Slot /\ caller[c].at \in {"materialize", "baseline"}
    BY <1>6 DEF Gives
  <2>2. Prepared(caller[c])
    BY <2>1 DEF Working, Preparing
  <2>3. /\ caller'[c].at = "trial" /\ caller'[c].slot = s
        /\ caller'[c].number = caller[c].number
    <3>1. caller'[c] = [caller[c] EXCEPT !.at = "trial", !.given = {}]
      BY <1>0, <1>6 DEF Gives, CallerOK
    <3>. QED BY <1>0, <3>1 DEF CommandState
  <2>4. /\ slot'[s].attempts = slot[s].attempts
        /\ slot'[s].status \in Executable
        /\ \A d \in Slot : d # s => slot'[d] = slot[d]
    <3>1. slot[s].status \in Executable \/ Adapts
      BY <1>6 DEF Gives
    <3>. QED BY <1>0, <1>6, <2>1, <3>1 DEF Gives, Executable
  <2>5. NoneInFlight'
    BY <2>2, <2>4 DEF Prepared, NoneInFlight, Executable
  <2>6. ASSUME NEW d \in Slot, d < s
        PROVE  slot'[d].status \in Terminal
    <3>1. d # s
      BY <2>1, <2>6, SlotNumbers
    <3>2. slot[d].status \in Terminal
      BY <2>2, <2>6 DEF Prepared
    <3>. QED BY <2>4, <3>1, <3>2
  <2>7. slot'[s].attempts + 1 = caller[c].number
    BY <2>2, <2>4 DEF Prepared
  <2>. HIDE DEF s
  <2>. QED BY <2>3, <2>4, <2>5, <2>6, <2>7 DEF Working, Prepared
<1>. QED BY <1>3, <1>4, <1>5, <1>6

(* What a command at work knows, another cannot change unless they overlap.*)
LEMMA WorkIsKept ==
  ASSUME LedgerInv, OneTry, Solo, Works, [Next]_attemptVars,
         ~ \E c \in Caller : Insert(c), ~overlapped',
         NEW d \in Caller, caller'[d] = caller[d], ~ (CommandStep(d) \/ Leaving(d))
  PROVE  Working(caller[d])'
<1>0. Types /\ CallerOK
  BY DEF LedgerInv, Types
<1>1. CASE Passive(caller[d])
  BY <1>1, PassiveWorks
<1>2. CASE ~ Passive(caller[d])
  <2>. DEFINE l == caller[d]
  <2>1. Working(l)
    BY DEF Works
  <2>2. NoneInFlight => UNCHANGED slot
    <3>1. CASE UNCHANGED attemptVars \/ Operator \/ Deploy
      BY <3>1, NobodyMoves DEF ledgerVars
    <3>2. ASSUME NEW c \in Caller, CommandStep(c) \/ Leaving(c)
          PROVE  NoneInFlight => UNCHANGED slot
      <4>1. c # d
        BY <3>2
      <4>2. Passive(caller[c])
        BY <1>2, <4>1 DEF Solo
      <4>3. caller[c].at # "idle"
        <5>1. ASSUME caller[c].at = "idle"
              PROVE  FALSE
          <6>1. ~ Quiet
            BY <1>2 DEF Quiet, Busy, Passive
          <6>. QED BY <3>2, <5>1, <6>1, IdleMoves, Zenon
        <5>. QED BY <5>1
      <4>4. ReconcileAttempt \/ UNCHANGED ledgerVars
        BY <1>0, <3>2, <4>2, <4>3, PassiveMoves
      <4>5. NoneInFlight => InFlight = {}
        BY AttemptPairs DEF NoneInFlight, InFlight
      <4>. QED BY <4>4, <4>5 DEF ReconcileAttempt, ledgerVars
    <3>. QED BY <3>1, <3>2, Steps
  <2>3. l.at = "attach" => trial'[<<l.slot, l.number>>].state # "NONE"
    <3>1. ASSUME l.at = "attach"
          PROVE  <<l.slot, l.number>> \in TrialId
      BY <1>0, <3>1, SlotNumbers DEF CallerOK, LocalOK, OnSlot
    <3>. QED BY <1>0, <2>1, <3>1, TrialsGoOn DEF Working
  <2>. QED BY <2>1, <2>2, <2>3 DEF Working, Prepared, NoneInFlight, Preparing
<1>. QED BY <1>1, <1>2

-----------------------------------------------------------------------------
(***************************************************************************)
(* The steps, one part of the invariant at a time, as long as commands do  *)
(* not overlap and no new block is inserted.                               *)
(***************************************************************************)
LEMMA SoloStep ==
  ASSUME LedgerInv, Solo, [Next]_attemptVars, ~ \E c \in Caller : Insert(c), ~overlapped'
  PROVE  Solo'
<1>0. Types /\ CallerOK
  BY DEF LedgerInv, Types
<1>1. CASE UNCHANGED attemptVars \/ Operator \/ Deploy
  BY <1>1, NobodyMoves DEF Solo, Passive
<1>2. ASSUME NEW c \in Caller, CommandStep(c) \/ Leaving(c)
      PROVE  Solo'
  <2>1. \A d \in Caller : d # c => caller'[d] = caller[d]
    BY <1>0, <1>2, OthersStay
  <2>2. Passive(caller[c]) => \/ Passive(caller'[c])
                              \/ \A d \in Caller : d # c => Passive(caller[d])
    <3>1. CASE caller[c].at = "idle"
      <4>1. Quiet
        BY <1>2, <3>1, IdleMoves, Zenon
      <4>2. \A d \in Caller : caller[d].at = "idle"
        BY <4>1 DEF Quiet, Busy
      <4>. QED BY <4>2 DEF Passive
    <3>2. CASE caller[c].at # "idle"
      BY <1>0, <1>2, <3>2, PassiveMoves
    <3>. QED BY <3>1, <3>2
  <2>3. ASSUME NEW d \in Caller, NEW e \in Caller, d # e
        PROVE  Passive(caller'[d]) \/ Passive(caller'[e])
    <3>1. CASE d # c /\ e # c
      BY <2>1, <2>3, <3>1 DEF Solo
    <3>2. ASSUME NEW f \in Caller, f # c
          PROVE  Passive(caller'[f]) \/ Passive(caller'[c])
      <4>1. caller'[f] = caller[f]
        BY <2>1, <3>2
      <4>2. Passive(caller[f]) \/ Passive(caller[c])
        BY <3>2 DEF Solo
      <4>. QED BY <2>2, <3>2, <4>1, <4>2
    <3>. QED BY <2>3, <3>1, <3>2
  <2>. QED BY <2>3 DEF Solo, Passive
<1>. QED BY <1>1, <1>2, Steps

(* What a command relies on when it prepares a slot stays true.            *)
LEMMA WorksStep ==
  ASSUME LedgerInv, OneTry, NoPlanned, NoneIdle, Solo, Works, FullStory, Ordered,
         [Next]_attemptVars, ~ \E c \in Caller : Insert(c), ~overlapped'
  PROVE  Works'
<1>0. Types /\ CallerOK
  BY DEF LedgerInv, Types
<1>1. ASSUME NEW d \in Caller, ~ (CommandStep(d) \/ Leaving(d))
      PROVE  Working(caller[d])'
  <2>1. caller'[d] = caller[d]
    <3>1. CASE UNCHANGED attemptVars \/ Operator \/ Deploy
      BY <3>1, NobodyMoves
    <3>2. ASSUME NEW c \in Caller, CommandStep(c) \/ Leaving(c)
          PROVE  caller'[d] = caller[d]
      BY <1>0, <1>1, <3>2, OthersStay
    <3>. QED BY <3>1, <3>2, Steps
  <2>. QED BY <1>1, <2>1, WorkIsKept
<1>2. ASSUME NEW c \in Caller, CommandStep(c) \/ Leaving(c)
      PROVE  Working(caller[c])'
  <2>. DEFINE at == caller'[c].at
  <2>0. Working(caller[c]) /\ GivenAt(caller[c])
    BY DEF Works, LedgerInv, ReadsEarlier
  <2>1. CASE at \notin Preparing \cup {"select", "start"}
    BY <2>1 DEF Working, Preparing
  <2>2. CASE CommandStep(c) /\ at \in {"select", "start"}
    <3>1. ReconcileFirst(c) \/ StartBlock(c)
      BY <1>0, <2>2, WorkArrivals
    <3>2. (at = "select" \/ (at = "start" /\ caller'[c].open = FALSE)) => NoneInFlight'
      BY <1>0, <2>0, <3>1, SelectsClear
    <3>. QED BY <2>2, <3>2 DEF Working, Preparing
  <2>3. CASE CommandStep(c) /\ at \in Preparing
    <3>1. CASE Choose(c, Startable, FirstStep)
      <4>1. Prepared(caller'[c]) /\ at # "attach" /\ at \notin {"select", "start"}
        BY <1>0, <2>0, <3>1, SelectsNext
      <4>2. UNCHANGED slot
        BY <3>1 DEF Choose, ledgerVars
      <4>. QED BY <4>1, <4>2 DEF Working, Prepared, NoneInFlight
    <3>2. CASE \/ Train(c) \/ ReadControl(c) \/ Gives(c) \/ CheckTarget(c)
               \/ (StartTrial(c) /\ Proceed(c, "attach"))
      <4>1. at # "idle"
        BY <2>3 DEF Preparing
      <4>. QED BY <1>0, <2>0, <3>2, <4>1, PreparesFurther
    <3>. QED BY <1>0, <2>0, <2>3, <3>1, <3>2, Arrivals, WorkArrivals DEF Preparing
  <2>4. Leaving(c) => at = "idle"
    BY <1>0, LeaveAfter DEF Leaving, Steer, Crash
  <2>. QED BY <1>2, <2>1, <2>2, <2>3, <2>4 DEF Preparing
<1>. QED BY <1>1, <1>2 DEF Works

(* Only an infrastructure failure is tried again.                          *)
LEMMA RetryVerdict ==
  ASSUME NEW k, SlotVerdict(k) = "RETRY_PENDING"
  PROVE  AttemptVerdict(k) = "INFRASTRUCTURE_FAILED"
<1>1. AttemptVerdict(k) \in
        {"COMPLETED", "INFRASTRUCTURE_FAILED", "CANDIDATE_FAILED"}
  BY DEF AttemptVerdict
<1>2. AttemptVerdict(k) # "INFRASTRUCTURE_FAILED" => SlotVerdict(k) = AttemptVerdict(k)
  BY DEF SlotVerdict
<1>. QED BY <1>1, <1>2

(* An attempt that is attached is the next of its slot, whose earlier ones *)
(* failed for infrastructure reasons.                                      *)
LEMMA AttachedRow ==
  ASSUME Types, NEW c \in Caller, Working(caller[c]), Attaches(c),
         NEW s \in Slot, s = caller[c].slot, Full(s)
  PROVE  Full(s)'
<1>. DEFINE n == slot[s].attempts
            k == <<s, n + 1>>
<1>1. /\ caller[c].at = "attach" /\ slot[s].status \in Executable
      /\ caller[c].number = n + 1 /\ trial[k].state # "NONE"
  BY DEF Attaches, Working, Preparing, Prepared
<1>2. /\ s \in Slot /\ k \in AttemptId /\ MaxAttempts = 3 /\ n \in 0..2
      /\ slot \in [Slot -> SlotRow] /\ attempt \in [AttemptId -> AttemptStatus]
      /\ \A m \in 1..3 : <<s, m>> \in AttemptId
  <2>1. k \in AttemptId /\ slot \in [Slot -> SlotRow]
        /\ attempt \in [AttemptId -> AttemptStatus]
    BY <1>1 DEF Attaches, Types, TypeOK, SlotRow
  <2>2. s \in Slot /\ MaxAttempts = 3 /\ \A m \in 1..3 : <<s, m>> \in AttemptId
    BY <2>1, SlotNumbers
  <2>3. n \in 0..3 /\ n < 3
    BY <1>1, <2>1, <2>2 DEF Types, RetryLeft, SlotRow
  <2>. QED BY <2>1, <2>2, <2>3
<1>3. n > 0 => attempt[<<s, n>>] = "INFRASTRUCTURE_FAILED"
  <2>1. slot[s].status = "PROPOSED" => n = 0
    BY DEF Full, Story
  <2>2. slot[s].status = "RETRY_PENDING" =>
          /\ attempt[<<s, n>>] = AttemptVerdict(<<s, n>>)
          /\ SlotVerdict(<<s, n>>) = "RETRY_PENDING"
    BY DEF Full, Story
  <2>3. SlotVerdict(<<s, n>>) = "RETRY_PENDING" =>
          AttemptVerdict(<<s, n>>) = "INFRASTRUCTURE_FAILED"
    BY RetryVerdict
  <2>. QED BY <1>1, <2>1, <2>2, <2>3 DEF Executable
<1>4. /\ \A m \in 1..3 : m <= n => attempt[<<s, m>>] = "INFRASTRUCTURE_FAILED"
      /\ \A m \in 1..3 : m > n => attempt[<<s, m>>] = "NONE"
  BY <1>1, <1>2, <1>3 DEF Full, Story, Executable
<1>5. /\ attempt' = [attempt EXCEPT ![k] = IF @ = "NONE" THEN "CREATED" ELSE @]
      /\ slot' = [slot EXCEPT ![s] = [status |-> "CREATED", attempts |-> n,
                                      given |-> slot[s].given]]
      /\ trial' = trial
  BY <1>1 DEF Attaches
<1>6. /\ slot'[s].status = "CREATED" /\ slot'[s].attempts = n
      /\ attempt'[k] = "CREATED"
      /\ \A m \in 1..3 : m # n + 1 => attempt'[<<s, m>>] = attempt[<<s, m>>]
  <2>1. attempt[k] = "NONE"
    BY <1>2, <1>4
  <2>. QED BY <1>2, <1>5, <2>1
<1>7. \A m \in 1..3 : attempt[<<s, m>>] = "CREATED" => trial[<<s, m>>].state # "NONE"
  BY <1>2, <1>4
<1>. HIDE DEF n
<1>8. ASSUME NEW m \in 1..3
      PROVE  /\ m < n + 1 => attempt'[<<s, m>>] = "INFRASTRUCTURE_FAILED"
             /\ m = n + 1 => attempt'[<<s, m>>] = "CREATED"
             /\ m > n + 1 => attempt'[<<s, m>>] = "NONE"
             /\ attempt'[<<s, m>>] = "CREATED" => trial'[<<s, m>>].state # "NONE"
  BY <1>1, <1>2, <1>4, <1>5, <1>6, <1>7
<1>9. Story(s)'
  BY <1>2, <1>6, <1>8 DEF Story, Terminal
<1>. QED BY <1>2, <1>6, <1>8, <1>9 DEF Full

(* A slot that is given its configuration or its control has not been      *)
(* tried since.                                                            *)
LEMMA GivenRow ==
  ASSUME Types, NEW c \in Caller, Gives(c), NEW s \in Slot, s = caller[c].slot, Full(s)
  PROVE  Full(s)'
<1>. DEFINE n == slot[s].attempts
<1>1. /\ n \in 0..3 /\ MaxAttempts = 3 /\ slot \in [Slot -> SlotRow]
      /\ UNCHANGED <<trial, attempt>>
  <2>1. MaxAttempts = 3 /\ slot \in [Slot -> SlotRow]
    BY SlotNumbers DEF Types, TypeOK, SlotRow
  <2>2. n \in 0..3
    BY <2>1 DEF SlotRow
  <2>. QED BY <2>1, <2>2 DEF Gives
<1>2. PICK v : v = IF Adapts THEN "PROPOSED" ELSE slot[s].status
  OBVIOUS
<1>3. slot' = [slot EXCEPT ![s] = [status |-> v, attempts |-> n, given |-> caller[c].given]]
  BY <1>2 DEF Gives
<1>4. slot'[s].status = v /\ slot'[s].attempts = n
  BY <1>1, <1>3
<1>5. /\ v \in Executable /\ slot[s].status \in Executable \cup {"PLANNED"}
      /\ v = slot[s].status \/ (v = "PROPOSED" /\ slot[s].status = "PLANNED")
  BY <1>2 DEF Gives, Executable, Adapts
<1>6. ASSUME NEW m
      PROVE  /\ Settled(<<s, m>>)' = Settled(<<s, m>>)
             /\ AttemptVerdict(<<s, m>>)' = AttemptVerdict(<<s, m>>)
             /\ SlotVerdict(<<s, m>>)' = SlotVerdict(<<s, m>>)
  BY <1>1 DEF Settled, AttemptVerdict, SlotVerdict
<1>. HIDE DEF n
<1>7. /\ \A m \in 1..3 :
           /\ m < n => attempt[<<s, m>>] = "INFRASTRUCTURE_FAILED"
           /\ m > n => attempt[<<s, m>>] = "NONE"
           /\ attempt[<<s, m>>] = "CREATED" => trial[<<s, m>>].state # "NONE"
      /\ v = "PROPOSED" => n = 0
      /\ v = "RETRY_PENDING" =>
           /\ n > 0 /\ Settled(<<s, n>>)
           /\ attempt[<<s, n>>] = AttemptVerdict(<<s, n>>)
           /\ v = SlotVerdict(<<s, n>>)
  BY <1>1, <1>5 DEF Full, Story, Executable, n
<1>8. /\ v \notin Terminal \cup {"CREATED", "PLANNED"}
  BY <1>5 DEF Executable, Terminal
<1>9. Story(s)'
  BY <1>1, <1>4, <1>6, <1>7, <1>8 DEF Story
<1>. QED BY <1>4, <1>8, <1>9 DEF Full

(* Slots, attempts and trials go on agreeing.                              *)
LEMMA StoryStep ==
  ASSUME LedgerInv, OneTry, Works, FullStory,
         [Next]_attemptVars, ~ \E c \in Caller : Insert(c)
  PROVE  FullStory'
<1>0. Types /\ slot \in [Slot -> SlotRow] /\ attempt \in [AttemptId -> AttemptStatus]
  BY DEF LedgerInv, Types, TypeOK, SlotRow
<1>1. ASSUME NEW s \in Slot
      PROVE  /\ \A m \in 1..3 : trial[<<s, m>>].state # "NONE" =>
                                  trial'[<<s, m>>].state # "NONE"
             /\ \A m \in 1..3 : trial[<<s, m>>].state \in Ended =>
                                  trial'[<<s, m>>] = trial[<<s, m>>]
  BY <1>0, TrialsGoOn, SlotNumbers
<1>2. ASSUME NEW s \in Slot, slot'[s] = slot[s],
             \A m \in 1..3 : attempt'[<<s, m>>] = attempt[<<s, m>>]
      PROVE  Full(s)'
  BY <1>0, <1>1, <1>2, RowStays DEF FullStory
<1>3. CASE UNCHANGED ledgerVars
  BY <1>2, <1>3 DEF ledgerVars, FullStory
<1>4. ASSUME NEW k \in AttemptId,
             \A s \in Slot : s # k[1] => slot'[s] = slot[s],
             \A j \in AttemptId : j # k => attempt'[j] = attempt[j],
             Full(k[1])'
      PROVE  FullStory'
  <2>1. ASSUME NEW s \in Slot, s # k[1]
        PROVE  Full(s)'
    <3>1. \A m \in 1..3 : <<s, m>> \in AttemptId /\ <<s, m>> # k
      BY <2>1, AttemptPairs, SlotNumbers
    <3>. QED BY <1>2, <1>4, <2>1, <3>1
  <2>2. k[1] \in Slot
    BY AttemptPairs
  <2>3. ASSUME NEW s \in Slot
        PROVE  Full(s)'
    <3>1. CASE s = k[1]
      BY <1>4, <3>1
    <3>. QED BY <2>1, <3>1
  <2>. QED BY <2>3 DEF FullStory
<1>5. ASSUME UNCHANGED trial, NEW k \in AttemptId, Files(k)
      PROVE  FullStory'
  <2>1. /\ k[1] \in Slot /\ slot[k[1]].status = "CREATED" /\ attempt[k] = "CREATED"
        /\ Full(k[1])
    BY <1>5, AttemptPairs DEF Files, InFlight, FullStory
  <2>2. /\ Settled(k)' /\ AttemptVerdict(k)' = AttemptVerdict(k)
        /\ SlotVerdict(k)' = SlotVerdict(k)
    BY <1>5 DEF Files, Settled, AttemptVerdict, SlotVerdict
  <2>3. PICK g : g = slot[k[1]].given
    OBVIOUS
  <2>4. /\ attempt' = [attempt EXCEPT ![k] = AttemptVerdict(k)']
        /\ slot' = [slot EXCEPT ![k[1]] =
             [status |-> SlotVerdict(k)', attempts |-> k[2], given |-> g]]
    BY <1>5, <2>2, <2>3 DEF Files
  <2>5. Full(k[1])'
    BY <1>0, <1>1, <2>1, <2>2, <2>4, FiledRow, Zenon
  <2>6. /\ \A s \in Slot : s # k[1] => slot'[s] = slot[s]
        /\ \A j \in AttemptId : j # k => attempt'[j] = attempt[j]
    BY <1>0, <2>1, <2>4
  <2>. QED BY <1>4, <2>5, <2>6
<1>6. ASSUME NEW c \in Caller, Attaches(c)
      PROVE  FullStory'
  <2>. DEFINE k == <<caller[c].slot, caller[c].number>>
  <2>1. PICK s : s = caller[c].slot
    OBVIOUS
  <2>2. k \in AttemptId /\ s \in Slot
    BY <1>6, <2>1, SlotNumbers DEF Attaches
  <2>3. Full(s)'
    BY <1>0, <1>6, <2>1, <2>2, AttachedRow DEF Works, FullStory
  <2>4. /\ \A d \in Slot : d # s => slot'[d] = slot[d]
        /\ \A j \in AttemptId : j # k => attempt'[j] = attempt[j]
    BY <1>0, <1>6, <2>1, <2>2 DEF Attaches
  <2>5. PICK j \in AttemptId : j = k /\ j[1] = s
    BY <2>1, <2>2
  <2>. HIDE DEF k
  <2>. QED BY <1>4, <2>3, <2>4, <2>5
<1>7. ASSUME NEW c \in Caller, Gives(c)
      PROVE  FullStory'
  <2>1. PICK s \in Slot : s = caller[c].slot
    BY <1>7 DEF Gives
  <2>2. Full(s)'
    BY <1>0, <1>7, <2>1, GivenRow DEF FullStory
  <2>3. /\ \A d \in Slot : d # s => slot'[d] = slot[d]
        /\ attempt' = attempt
    BY <1>0, <1>7, <2>1 DEF Gives
  <2>4. ASSUME NEW d \in Slot
        PROVE  Full(d)'
    BY <1>2, <2>2, <2>3, <2>4
  <2>. QED BY <2>4 DEF FullStory
<1>8. ASSUME NEW c \in Caller, FilesInterruption(c)
      PROVE  FullStory'
  <2>1. PICK k \in AttemptId : k = <<caller[c].slot, caller[c].number>>
    BY <1>8 DEF FilesInterruption
  <2>2. /\ k[1] \in Slot /\ slot[k[1]].status = "CREATED" /\ attempt[k] = "CREATED"
        /\ Full(k[1]) /\ k[2] < MaxAttempts /\ k \in TrialId
    BY <1>8, <2>1, AttemptPairs, SlotNumbers DEF FilesInterruption, FullStory
  <2>3. trial'[k].state = "INFRA"
    <3>1. trial \in [TrialId -> [state: TrialState, tries: 0..1]]
      BY <1>0, CoreTypes DEF Types, TypeOK
    <3>2. trial' = [trial EXCEPT ![k].state = "INFRA"]
      BY <1>8, <2>1 DEF FilesInterruption
    <3>. QED BY <2>2, <3>1, <3>2
  <2>4. /\ Settled(k)' /\ AttemptVerdict(k)' = "INFRASTRUCTURE_FAILED"
        /\ SlotVerdict(k)' = "RETRY_PENDING"
    <3>1. Settled(k)' /\ AttemptVerdict(k)' = "INFRASTRUCTURE_FAILED"
      BY <2>3 DEF Settled, AttemptVerdict, Ended
    <3>. QED BY <2>2, <3>1 DEF SlotVerdict, MaxAttempts
  <2>5. PICK g : g = slot[k[1]].given
    OBVIOUS
  <2>6. /\ attempt' = [attempt EXCEPT ![k] = AttemptVerdict(k)']
        /\ slot' = [slot EXCEPT ![k[1]] =
             [status |-> SlotVerdict(k)', attempts |-> k[2], given |-> g]]
    BY <1>8, <2>1, <2>4, <2>5 DEF FilesInterruption
  <2>7. Full(k[1])'
    BY <1>0, <1>1, <2>2, <2>4, <2>6, FiledRow, Zenon
  <2>8. /\ \A s \in Slot : s # k[1] => slot'[s] = slot[s]
        /\ \A j \in AttemptId : j # k => attempt'[j] = attempt[j]
    BY <1>0, <2>2, <2>6
  <2>. QED BY <1>4, <2>7, <2>8
<1>. QED BY <1>0, <1>3, <1>5, <1>6, <1>7, <1>8, LedgerWrites

(* A trial is inserted for the lowest slot without an outcome only.        *)
LEMMA OrderedStep ==
  ASSUME LedgerInv, OneTry, Works, Ordered,
         [Next]_attemptVars, ~ \E c \in Caller : Insert(c)
  PROVE  Ordered'
<1>0. Types /\ InsertsAlone
  BY DEF LedgerInv
<1>1. ASSUME NEW t \in TrialId, trial'[t] # Absent, NEW s \in Slot, s < t[1]
      PROVE  slot'[s].status \in Terminal
  <2>1. slot[s].status \in Terminal
    <3>1. CASE trial[t] # Absent
      BY <1>1, <3>1 DEF Ordered
    <3>2. CASE trial[t] = Absent
      <4>1. trial[t].state = "NONE"
        BY <3>2 DEF Absent
      <4>2. PICK c \in Caller : StartTrial(c) /\ t = <<caller[c].slot, caller[c].number>>
        BY <1>0, <1>1, <3>2, <4>1, TrialMoves
      <4>3. Prepared(caller[c])
        BY <4>2 DEF Works, Working, Preparing, StartTrial
      <4>. QED BY <1>1, <4>2, <4>3 DEF Prepared
    <3>. QED BY <3>1, <3>2
  <2>. QED BY <1>0, <2>1, OutcomesStay
<1>. QED BY <1>1 DEF Ordered

-----------------------------------------------------------------------------
(***************************************************************************)
(* A Phase B candidate is promoted against the last control before it.     *)
(***************************************************************************)
LastControl(s) == Latest(Completed(s) \cap Controls)

Baselines ==
  kind = "phase-b" =>
    /\ \A s \in Slot : slot[s].given # {} =>
         /\ slot[s].given = LastControl(s)
         /\ \A d \in Slot : d < s => slot[d].status \in Terminal
    /\ \A c \in Caller : caller[c].at = "baseline" =>
         caller[c].given = LastControl(caller[c].slot)

(* It does not change once the slots before have their outcomes.           *)
LEMMA LastControlStays ==
  ASSUME Types, InsertsAlone, [Next]_attemptVars, ~ \E c \in Caller : Insert(c),
         NEW s \in Slot, \A d \in Slot : d < s => slot[d].status \in Terminal
  PROVE  /\ LastControl(s)' = LastControl(s)
         /\ \A d \in Slot : d < s => slot'[d].status \in Terminal
<1>1. \A d \in Slot : d < s => slot'[d] = slot[d]
  BY OutcomesStay
<1>2. Completed(s)' = Completed(s)
  BY <1>1 DEF Completed
<1>. QED BY <1>1, <1>2 DEF LastControl, Latest

(* The control a command reads is the last one.                            *)
LEMMA ReadsLast ==
  ASSUME Types, NEW c \in Caller, ReadControl(c), caller'[c].at = "baseline"
  PROVE  /\ caller'[c].given = LastControl(caller[c].slot)
         /\ caller'[c].slot = caller[c].slot
         /\ UNCHANGED slot
<1>0. CallerOK
  BY DEF Types
<1>1. PICK g : g = LastControl(caller[c].slot)
  OBVIOUS
<1>2. ~ Leave(c)
  BY <1>0, LeaveAfter
<1>3. caller' = [caller EXCEPT ![c].at = "baseline", ![c].given = g]
  BY <1>1, <1>2 DEF ReadControl, Gather, LastControl, Leave
<1>4. caller'[c].given = g /\ caller'[c].slot = caller[c].slot
  BY <1>0, <1>3 DEF CallerOK, CommandState
<1>. QED BY <1>1, <1>4 DEF ReadControl, Gather, ledgerVars

(* A recorded baseline stays the last control before the candidate.        *)
LEMMA BaselinesStep ==
  ASSUME LedgerInv, OneTry, Works, Baselines,
         [Next]_attemptVars, ~ \E c \in Caller : Insert(c)
  PROVE  Baselines'
<1>0. Types /\ CallerOK /\ InsertsAlone /\ kind' = kind
  BY TypesStep DEF LedgerInv, Types
<1>. SUFFICES ASSUME kind = "phase-b"
              PROVE  /\ \A s \in Slot : slot'[s].given # {} =>
                          /\ slot'[s].given = LastControl(s)'
                          /\ \A d \in Slot : d < s => slot'[d].status \in Terminal
                     /\ \A c \in Caller : caller'[c].at = "baseline" =>
                          caller'[c].given = LastControl(caller[c].slot)'
  BY <1>0 DEF Baselines
<1>1. ASSUME NEW s \in Slot, slot'[s].given # {}
      PROVE  /\ slot'[s].given = LastControl(s)'
             /\ \A d \in Slot : d < s => slot'[d].status \in Terminal
  <2>1. CASE slot'[s].given = slot[s].given
    BY <1>0, <1>1, <2>1, LastControlStays DEF Baselines
  <2>2. CASE slot'[s].given # slot[s].given
    <3>1. PICK c \in Caller : Gives(c) /\ caller[c].slot = s
                              /\ slot'[s].given = caller[c].given
      BY <1>0, <2>2, RowMoves
    <3>2. caller[c].at = "baseline"
      BY <3>1 DEF Gives, Adapts
    <3>3. caller[c].given = LastControl(s)
      BY <3>1, <3>2 DEF Baselines
    <3>4. \A d \in Slot : d < s => slot[d].status \in Terminal
      BY <3>1, <3>2 DEF Works, Working, Preparing, Prepared
    <3>. QED BY <1>0, <3>1, <3>3, <3>4, LastControlStays
  <2>. QED BY <2>1, <2>2
<1>2. ASSUME NEW c \in Caller, caller'[c].at = "baseline"
      PROVE  caller'[c].given = LastControl(caller[c].slot)'
  <2>1. CASE caller'[c] = caller[c]
    <3>1. PICK s \in Slot : s = caller[c].slot /\ s = caller'[c].slot
      BY <1>0, <1>2, <2>1, SlotNumbers DEF CallerOK, LocalOK, OnSlot
    <3>2. caller'[c].given = LastControl(s)
      BY <1>2, <2>1, <3>1 DEF Baselines
    <3>3. \A d \in Slot : d < s => slot[d].status \in Terminal
      BY <1>2, <2>1, <3>1 DEF Works, Working, Preparing, Prepared
    <3>4. LastControl(s)' = LastControl(s)
      BY <1>0, <3>3, LastControlStays
    <3>. QED BY <3>1, <3>2, <3>4 DEF LastControl, Completed
  <2>2. CASE caller'[c] # caller[c]
    <3>1. CommandStep(c) \/ Leaving(c)
      <4>1. CASE UNCHANGED attemptVars \/ Operator \/ Deploy
        BY <2>2, <4>1, NobodyMoves
      <4>2. ASSUME NEW d \in Caller, CommandStep(d) \/ Leaving(d)
            PROVE  CommandStep(c) \/ Leaving(c)
        BY <1>0, <2>2, <4>2, OthersStay
      <4>. QED BY <4>1, <4>2, Steps
    <3>2. CommandStep(c)
      BY <1>0, <1>2, <3>1, LeaveAfter DEF Leaving, Steer, Crash
    <3>3. GivenAt(caller[c])
      BY DEF LedgerInv, ReadsEarlier
    <3>4. ReadControl(c)
      BY <1>0, <1>2, <3>2, <3>3, Arrivals
    <3>5. /\ caller'[c].given = LastControl(caller[c].slot)
          /\ caller'[c].slot = caller[c].slot /\ slot' = slot
      BY <1>0, <1>2, <3>4, ReadsLast
    <3>. QED BY <3>5 DEF LastControl, Completed, Latest
  <2>. QED BY <2>1, <2>2
<1>. QED BY <1>1, <1>2

-----------------------------------------------------------------------------
(***************************************************************************)
(* The invariant: what holds always, and what holds while commands do not  *)
(* overlap.                                                                *)
(***************************************************************************)
Serial == Solo /\ Works /\ FullStory /\ Ordered /\ Baselines

OrderInv ==
  /\ LedgerInv
  /\ NoneIdle /\ LedgerQuiet /\ NoPlanned
  /\ OneTry /\ RunningHeld /\ EmergencyEnds
  /\ ~overlapped => Serial

(* A new block starts over, and whoever inserts it is alone at work.       *)
LEMMA InsertsSerial ==
  ASSUME Types, LedgerQuiet, NEW c \in Caller, Insert(c)
  PROVE  Serial'
<1>0. CallerOK /\ caller[c].at = "ledger" /\ Leave(c)
  BY DEF Types, Insert, InsertLedger
<1>1. caller'[c] = Idle /\ \A d \in Caller : d # c => caller'[d] = caller[d]
  <2>1. CommandStep(c)
    BY DEF CommandStep
  <2>. QED BY <1>0, <2>1, LeaveAfter, OthersStay
<1>2. \A d \in Caller : Passive(caller'[d])
  BY <1>0, <1>1 DEF LedgerQuiet, Passive, Idle
<1>3. /\ \A s \in Slot : /\ slot'[s].status \in {"PLANNED", "PROPOSED"}
                         /\ slot'[s].attempts = 0 /\ slot'[s].given = {}
      /\ \A k \in AttemptId : attempt'[k] = "NONE"
      /\ \A t \in TrialId : trial'[t] = Absent
  BY DEF Insert, InsertLedger, NewSlot
<1>4. Solo' /\ Works'
  <2>1. Solo'
    BY <1>2 DEF Solo, Passive
  <2>2. ASSUME NEW d \in Caller
        PROVE  Working(caller[d])'
    BY <1>2, PassiveWorks
  <2>. QED BY <2>1, <2>2 DEF Works
<1>5. FullStory'
  <2>1. ASSUME NEW s \in Slot
        PROVE  Full(s)'
    <3>1. \A m \in 1..3 : attempt'[<<s, m>>] = "NONE"
      BY <1>3, SlotNumbers
    <3>2. MaxAttempts = 3
      BY SlotNumbers
    <3>. QED BY <1>3, <3>1, <3>2 DEF Full, Story, Terminal
  <2>. QED BY <2>1 DEF FullStory
<1>6. Ordered'
  BY <1>3 DEF Ordered
<1>7. Baselines'
  BY <1>2, <1>3 DEF Baselines, Passive
<1>. QED BY <1>4, <1>5, <1>6, <1>7 DEF Serial

(* The invariant holds initially.                                          *)
LEMMA OrderInvInit ==
  ASSUME Init
  PROVE  OrderInv
<1>0. Types
  BY TypesInit
<1>1. /\ \A c \in Caller : caller[c].at = "idle"
      /\ \A t \in TrialId : trial[t] = Absent
      /\ block = "NONE" /\ campaign.emergency = FALSE
      /\ \A s \in Slot : slot[s] = NewSlot("PLANNED")
      /\ \A k \in AttemptId : attempt[k] = "NONE"
  BY DEF Init, InitCore, InitLedger, Idle
<1>2. \A s \in Slot : slot[s].status = "PLANNED" /\ slot[s].attempts = 0
                      /\ slot[s].given = {}
  BY <1>1 DEF NewSlot
<1>3. LedgerInv
  BY LedgerInvInit
<1>4. NoneIdle /\ LedgerQuiet /\ NoPlanned /\ OneTry /\ RunningHeld
  BY <1>1 DEF NoneIdle, LedgerQuiet, NoPlanned, OneTry, RunningHeld, Absent
<1>5. EmergencyEnds
  BY <1>1 DEF EmergencyEnds
<1>6. Solo /\ Works /\ Ordered /\ Baselines
  BY <1>1, <1>2 DEF Solo, Passive, Works, Working, Preparing, Ordered, Baselines
<1>7. FullStory
  <2>1. ASSUME NEW s \in Slot
        PROVE  Full(s)
    <3>1. \A m \in 1..3 : attempt[<<s, m>>] = "NONE"
      BY <1>1, SlotNumbers
    <3>2. MaxAttempts = 3
      BY SlotNumbers
    <3>. QED BY <1>2, <3>1, <3>2 DEF Full, Story, Terminal
  <2>. QED BY <2>1 DEF FullStory
<1>. QED BY <1>3, <1>4, <1>5, <1>6, <1>7 DEF OrderInv, Serial

(* Every step keeps the invariant.                                         *)
LEMMA OrderInvStep ==
  ASSUME OrderInv, [Next]_attemptVars
  PROVE  OrderInv'
<1>. USE DEF OrderInv
<1>0. Types
  BY DEF LedgerInv
<1>1. LedgerInv'
  BY LedgerInvStep
<1>2. NoneIdle' /\ LedgerQuiet' /\ NoPlanned'
  BY NoneIdleStep, LedgerQuietStep, NoPlannedStep
<1>3. OneTry' /\ RunningHeld' /\ EmergencyEnds'
  BY <1>0, OneTryStep, RunningHeldStep, EmergencyStep
<1>4. ASSUME ~overlapped'
      PROVE  Serial'
  <2>1. ASSUME NEW c \in Caller, Insert(c)
        PROVE  Serial'
    BY <1>0, <2>1, InsertsSerial
  <2>2. CASE ~ \E c \in Caller : Insert(c)
    <3>1. overlapped \in BOOLEAN
      BY <1>0 DEF Types, TypeOK
    <3>2. ~overlapped
      BY <1>0, <1>4, <2>2, <3>1, OverlapGrows, Zenon
    <3>3. Solo /\ Works /\ FullStory /\ Ordered /\ Baselines
      BY <3>2, Zenon DEF Serial
    <3>4. Solo' /\ Works'
      BY <1>4, <2>2, <3>3, SoloStep, WorksStep, Zenon
    <3>5. FullStory' /\ Ordered' /\ Baselines'
      BY <2>2, <3>3, StoryStep, OrderedStep, BaselinesStep, Zenon
    <3>. QED BY <3>4, <3>5 DEF Serial
  <2>. QED BY <2>1, <2>2
<1>. QED BY <1>1, <1>2, <1>3, <1>4, Zenon

(* The inductive invariant of commands that do not overlap.                *)
LEMMA OrderInvariant == Spec => []OrderInv
<1>1. OrderInv /\ [Next]_attemptVars => OrderInv'
  BY OrderInvStep
<1>. QED BY <1>1, OrderInvInit, PTL DEF Spec

(* Slots, attempts and trials tell the same story wherever a command was   *)
(* cut off, as long as commands did not overlap.                           *)
THEOREM LedgerTellsOneStory == Spec => []LedgerAgrees
<1>1. OrderInv => LedgerAgrees
  <2>1. Serial => \A s \in Slot : Story(s)
    BY DEF Serial, FullStory, Full
  <2>. QED BY <2>1, Zenon DEF OrderInv, LedgerAgrees
<1>. QED BY <1>1, OrderInvariant, PTL

(* The slots of a plan run in its physical order.                          *)
THEOREM SlotsRunInOrder == Spec => []InOrder
<1>1. OrderInv => InOrder
  BY Zenon DEF OrderInv, Serial, Ordered, InOrder
<1>. QED BY <1>1, OrderInvariant, PTL

-----------------------------------------------------------------------------
(***************************************************************************)
(* A running stage can go on, or is stuck for a known reason.              *)
(***************************************************************************)
LEMMA LargestIs ==
  ASSUME NEW S \in SUBSET Nat, NEW m \in S, \A x \in S : m >= x
  PROVE  /\ Latest(S) = {m}
         /\ Max(S) = m
         /\ F4!Max(S) = m /\ H25!Max(S) = m /\ Multifidelity!Max(S) = m
<1>1. \A y \in S : (\A x \in S : y >= x) => y = m
  OBVIOUS
<1>2. (CHOOSE y \in S : \A x \in S : y >= x) = m
  BY <1>1
<1>3. Latest(S) = {m}
  BY <1>1 DEF Latest
<1>4. Max(S) = m
  BY <1>2 DEF Max
<1>5. F4!Max(S) = m /\ H25!Max(S) = m /\ Multifidelity!Max(S) = m
  BY <1>2 DEF F4!Max, H25!Max, Multifidelity!Max
<1>. QED BY <1>3, <1>4, <1>5

(* The trial in flight can be settled or claimed, or its process died.     *)
LEMMA FlightGoesOn ==
  ASSUME Types, OneTry, RunningHeld, EmergencyEnds, FullStory, Quiet,
         campaign.status = "RUNNING", NEW k \in InFlight
  PROVE  Settled(k) \/ k \in Claimable \/ Dead(k)
<1>1. /\ k \in AttemptId /\ k[1] \in Slot /\ attempt[k] = "CREATED"
      /\ k \in TrialId /\ k = <<k[1], k[2]>> /\ k[2] \in 1..MaxAttempts
  BY AttemptPairs, SlotNumbers DEF InFlight
<1>2. trial[k].state # "NONE"
  <2>1. Story(k[1])
    BY <1>1 DEF FullStory, Full
  <2>2. attempt[<<k[1], k[2]>>] = "CREATED" => trial[<<k[1], k[2]>>].state # "NONE"
    BY <1>1, <2>1 DEF Story
  <2>. QED BY <1>1, <2>2
<1>3. trial[k].state # "RUNNING"
  BY <1>1 DEF RunningHeld, Quiet, Busy
<1>4. trial[k].state \in TrialState /\ trial[k].state # "UNFILED"
  BY <1>1 DEF Types, TypeOK, OneTry
<1>5. CASE trial[k].state = "QUEUED"
  <2>1. campaign.emergency = FALSE
    BY DEF EmergencyEnds, Types, TypeOK
  <2>2. trial[k].tries = 0 /\ MaxTries[kind] = 1
    BY <1>1, <1>5, CoreTypes DEF OneTry, Types, TypeOK
  <2>. QED BY <1>1, <1>5, <2>1, <2>2 DEF Claimable
<1>. QED BY <1>2, <1>3, <1>4, <1>5 DEF TrialState, Settled, Dead

(* Without a trial in flight, the lowest slot that can run is preceded by  *)
(* outcomes.                                                               *)
LEMMA LowestReady ==
  ASSUME Types, OneTry, FullStory, NoPlanned, block # "NONE", InFlight = {},
         NEW z \in Slot, slot[z].status \notin Terminal
  PROVE  LET ready == Runnable(Executable \cup {"PLANNED"}) IN
         \E s \in ready :
           /\ \A d \in ready : s <= d
           /\ \A d \in Slot : d < s => slot[d].status \in Terminal
           /\ slot[s].status = "PLANNED" => Adapts
<1>. DEFINE ready == Runnable(Executable \cup {"PLANNED"})
            s == Min(ready)
<1>0. \A d \in Slot : slot[d].status \in SlotStatus
  BY DEF Types, TypeOK
<1>1. \A d \in Slot : slot[d].status # "CREATED"
  BY FlightHasTrial
<1>2. \A d \in Slot : d \notin ready => slot[d].status \in Terminal
  BY <1>0, <1>1 DEF Runnable, SlotStatus
<1>3. ready \subseteq Slot /\ z \in ready
  BY <1>2 DEF Runnable
<1>4. s \in ready /\ \A d \in ready : s <= d
  BY <1>3, FirstSlot
<1>. HIDE DEF s, ready
<1>5. \A d \in Slot : d < s => slot[d].status \in Terminal
  BY <1>2, <1>3, <1>4, SlotNumbers
<1>6. slot[s].status = "PLANNED" => Adapts
  BY <1>3, <1>4 DEF NoPlanned
<1>. QED BY <1>4, <1>5, <1>6 DEF ready

(* A running stage can go on or is stuck for one of the known reasons.     *)
LEMMA ProceedsOrStuck ==
  ASSUME OrderInv, ~overlapped, Quiet,
         campaign.status = "RUNNING", block \in {"PLANNED", "RUNNING"}
  PROVE  CanProceed \/ KnownStuck
<1>0. Types /\ OneTry /\ RunningHeld /\ EmergencyEnds /\ NoPlanned
  BY DEF OrderInv, LedgerInv
<1>1. FullStory /\ Baselines
  BY Zenon DEF OrderInv, Serial
<1>. DEFINE ready == Runnable(Executable \cup {"PLANNED"})
            Unexhausted == \A s \in Slot :
              slot[s].status \in Terminal \ {"INFRASTRUCTURE_EXHAUSTED"}
<1>2. CASE InFlight # {}
  <2>1. PICK k \in InFlight : TRUE
    BY <1>2
  <2>. QED BY <1>0, <1>1, <2>1, FlightGoesOn DEF CanProceed, KnownStuck
<1>3. CASE Unexhausted
  BY <1>3 DEF CanProceed
<1>4. CASE InFlight = {} /\ ~ Unexhausted
  <2>1. PICK z \in Slot : slot[z].status \notin Terminal \ {"INFRASTRUCTURE_EXHAUSTED"}
    BY <1>4
  <2>2. CASE slot[z].status = "INFRASTRUCTURE_EXHAUSTED"
    BY <2>2 DEF KnownStuck
  <2>3. CASE slot[z].status \notin Terminal
    <3>1. block # "NONE"
      OBVIOUS
    <3>2. PICK s \in ready :
            /\ \A d \in ready : s <= d
            /\ \A d \in Slot : d < s => slot[d].status \in Terminal
            /\ slot[s].status = "PLANNED" => Adapts
      BY <1>0, <1>1, <1>4, <2>3, <3>1, LowestReady
    <3>3. s \in Slot /\ slot[s].status \in Executable \cup {"PLANNED"}
      BY <3>2 DEF Runnable
    <3>. DEFINE controls == {d \in Controls : d < s /\ slot[d].status = "COMPLETED"}
    <3>4. CASE HasInputs(s)
      BY <1>4, <3>2, <3>4 DEF CanProceed
    <3>5. CASE /\ slot[s].status = "PLANNED"
               /\ ~ (Cardinality(Primary!Training(s)) >= MinTraining)
      <4>1. Cardinality(Primary!Training(s)) \in Nat
        <5>1. Primary!Training(s) \subseteq Slot /\ IsFiniteSet(Slot)
          BY FS_Interval, SlotsAssumption DEF Primary!Training, Primary!Slot, Slot
        <5>. QED BY <5>1, FS_Subset, FS_CardinalityType
      <4>2. Cardinality(Primary!Training(s)) < MinTraining
        BY <3>5, <4>1, ConfirmatoryAssumption
      <4>3. s \in Runnable({"PLANNED"})
        BY <3>3, <3>5 DEF Runnable
      <4>. QED BY <3>2, <3>5, <4>2, <4>3 DEF KnownStuck, Adapts
    <3>6. CASE kind = "phase-b" /\ s \notin Controls /\ controls = {}
      <4>1. slot[s].status \notin Terminal
        BY <3>3 DEF Executable, Terminal
      <4>2. \A d \in Controls : d < s => slot[d].status \in Terminal \ {"COMPLETED"}
        BY <3>2, <3>6, ConfirmatoryAssumption
      <4>. QED BY <3>3, <3>6, <4>1, <4>2 DEF KnownStuck
    <3>7. CASE kind = "phase-b" /\ s \notin Controls /\ controls # {}
      <4>1. slot[s].status # "PLANNED"
        BY <3>2, <3>7 DEF Adapts
      <4>2. controls \subseteq Slot /\ controls = Completed(s) \cap Controls
        BY ConfirmatoryAssumption DEF Completed
      <4>3. slot[s].given \in {{}, {Max(controls)}}
        <5>1. CASE slot[s].given # {}
          <6>1. slot[s].given = Latest(controls)
            BY <1>1, <3>3, <3>7, <4>2, <5>1 DEF Baselines, LastControl
          <6>2. PICK m \in controls : \A e \in controls : m >= e
            BY <5>1, <6>1 DEF Latest
          <6>3. controls \in SUBSET Nat
            BY <4>2, SlotNumbers
          <6>. HIDE DEF controls
          <6>4. Latest(controls) = {m} /\ Max(controls) = m
            BY <6>2, <6>3, LargestIs
          <6>. QED BY <6>1, <6>4
        <5>. QED BY <5>1
      <4>4. HasInputs(s)
        BY <3>7, <4>1, <4>3 DEF HasInputs
      <4>. QED BY <3>4, <4>4
    <3>8. CASE /\ slot[s].status = "PLANNED" =>
                    Cardinality(Primary!Training(s)) >= MinTraining
               /\ ~ (kind = "phase-b" /\ s \notin Controls)
      BY <3>4, <3>8 DEF HasInputs
    <3>. QED BY <3>5, <3>6, <3>7, <3>8
  <2>. QED BY <2>1, <2>2, <2>3
<1>. QED BY <1>2, <1>3, <1>4

(* The latest attempt of a slot is its last, and carries its outcome.      *)
LEMMA LatestAttempt ==
  ASSUME Types, NEW s \in Slot, Full(s), slot[s].status \in Terminal
  PROVE  /\ slot[s].attempts \in Tried(s)
         /\ \A m \in Tried(s) : slot[s].attempts >= m
         /\ slot[s].status = "COMPLETED" =>
              /\ attempt[<<s, slot[s].attempts>>] = "COMPLETED"
              /\ trial[<<s, slot[s].attempts>>].state = "COMPLETED"
<1>. DEFINE n == slot[s].attempts
            k == <<s, n>>
<1>1. MaxAttempts = 3 /\ n \in 0..3
  BY SlotNumbers DEF Types, TypeOK
<1>2. slot[s].status # "CREATED"
  BY DEF Terminal
<1>3. /\ n > 0 /\ attempt[k] = AttemptVerdict(k) /\ slot[s].status = SlotVerdict(k)
      /\ \A m \in 1..3 : m > n => attempt[<<s, m>>] = "NONE"
  BY <1>1, <1>2 DEF Full, Story
<1>4. AttemptVerdict(k) \in {"COMPLETED", "INFRASTRUCTURE_FAILED", "CANDIDATE_FAILED"}
  BY DEF AttemptVerdict
<1>5. n \in Tried(s)
  BY <1>1, <1>3, <1>4 DEF Tried
<1>6. \A m \in Tried(s) : n >= m
  BY <1>1, <1>3 DEF Tried
<1>7. ASSUME slot[s].status = "COMPLETED"
      PROVE  attempt[k] = "COMPLETED" /\ trial[k].state = "COMPLETED"
  <2>1. AttemptVerdict(k) = "COMPLETED"
    BY <1>3, <1>4, <1>7 DEF SlotVerdict
  <2>2. trial[k].state = "COMPLETED"
    BY <2>1 DEF AttemptVerdict
  <2>. QED BY <1>3, <2>1, <2>2
<1>. QED BY <1>5, <1>6, <1>7

(* The rows of a complete block are the evidence an analysis asks for.     *)
LEMMA RowsAreEvidence ==
  ASSUME Types, FullStory, \A s \in Slot : slot[s].status \in Terminal
  PROVE  Authenticated /\ F4!Authenticated /\ H25!Authenticated
           /\ Multifidelity!Authenticated
<1>. DEFINE Last(s) == slot[s].attempts
<1>1. ASSUME NEW s \in Slot
      PROVE  /\ Tried(s) # {} /\ Tried(s) \in SUBSET Nat
             /\ Max(Tried(s)) = Last(s) /\ F4!Max(Tried(s)) = Last(s)
             /\ H25!Max(Tried(s)) = Last(s) /\ Multifidelity!Max(Tried(s)) = Last(s)
             /\ slot[s].status = "COMPLETED" =>
                  /\ attempt[<<s, Last(s)>>] = "COMPLETED"
                  /\ trial[<<s, Last(s)>>].state = "COMPLETED"
  <2>1. Full(s)
    BY DEF FullStory
  <2>2. /\ Last(s) \in Tried(s)
        /\ \A m \in Tried(s) : Last(s) >= m
        /\ slot[s].status = "COMPLETED" =>
             /\ attempt[<<s, Last(s)>>] = "COMPLETED"
             /\ trial[<<s, Last(s)>>].state = "COMPLETED"
    BY <2>1, LatestAttempt
  <2>3. Tried(s) \in SUBSET Nat
    BY SlotNumbers DEF Tried
  <2>. HIDE DEF Last
  <2>. QED BY <2>2, <2>3, LargestIs
<1>2. \A s \in Slot : /\ F4!Tried(s) = Tried(s) /\ H25!Tried(s) = Tried(s)
                      /\ Multifidelity!Tried(s) = Tried(s)
  BY DEF Tried, F4!Tried, H25!Tried, Multifidelity!Tried, MaxAttempts, F4!MaxAttempts,
     H25!MaxAttempts, Multifidelity!MaxAttempts
<1>3. F4!Slot = Slot /\ H25!Slot = Slot /\ Multifidelity!Slot = Slot
  BY DEF Slot, F4!Slot, H25!Slot, Multifidelity!Slot
<1>. HIDE DEF Last
<1>4. Authenticated
  BY <1>1 DEF Authenticated
<1>5. F4!Authenticated
  BY <1>1, <1>2, <1>3 DEF F4!Authenticated
<1>6. H25!Authenticated
  BY <1>1, <1>2, <1>3 DEF H25!Authenticated
<1>7. Multifidelity!Authenticated
  BY <1>1, <1>2, <1>3 DEF Multifidelity!Authenticated
<1>. QED BY <1>4, <1>5, <1>6, <1>7

(* When all slots of Phase B completed, a candidate was given the last     *)
(* control before it.                                                      *)
LEMMA GivenTheLastControl ==
  ASSUME LedgerInv, Baselines, kind = "phase-b",
         \A s \in Slot : slot[s].status = "COMPLETED",
         NEW s \in Slot, s \notin Controls
  PROVE  slot[s].given = {Multifidelity!Max({d \in Controls : d < s})}
<1>. DEFINE S == {d \in Controls : d < s}
<1>1. slot[s].given # {}
  BY DEF LedgerInv, TriedWithControl
<1>2. Completed(s) \cap Controls = S
  BY ConfirmatoryAssumption DEF Completed
<1>3. slot[s].given = Latest(S)
  BY <1>1, <1>2 DEF Baselines, LastControl
<1>4. PICK m \in S : \A x \in S : m >= x
  BY <1>1, <1>3 DEF Latest
<1>5. S \in SUBSET Nat
  BY ConfirmatoryAssumption, SlotNumbers
<1>. HIDE DEF S
<1>6. Latest(S) = {m} /\ Multifidelity!Max(S) = m
  BY <1>4, <1>5, LargestIs
<1>. QED BY <1>3, <1>6 DEF S

(* A complete block can be analysed, unless a slot of Phase B failed.      *)
LEMMA CompleteCanBeAnalysed ==
  ASSUME OrderInv, ~overlapped, block = "OBSERVATIONS_COMPLETE"
  PROVE  Analysable \/ (kind = "phase-b" /\ ~Multifidelity!AllCompleted)
<1>1. LedgerInv /\ Types /\ FullStory /\ Baselines
  BY Zenon DEF OrderInv, LedgerInv, Serial
<1>2. \A s \in Slot : slot[s].status \in Terminal
  BY <1>1 DEF LedgerInv, CompleteMeasured
<1>3. Authenticated /\ F4!Authenticated /\ H25!Authenticated
        /\ Multifidelity!Authenticated
  BY <1>1, <1>2, RowsAreEvidence
<1>4. CASE kind = "phase-b" /\ Multifidelity!AllCompleted
  <2>1. \A s \in Slot : slot[s].status = "COMPLETED"
    BY <1>4 DEF Multifidelity!AllCompleted, Multifidelity!Slot, Slot
  <2>2. \A s \in Slot \ Controls :
          slot[s].given = {Multifidelity!Max({d \in Controls : d < s})}
    BY <1>1, <1>4, <2>1, GivenTheLastControl
  <2>3. Multifidelity!Slot = Slot
    BY DEF Multifidelity!Slot, Slot
  <2>4. Multifidelity!Evidence
    BY <1>3, <1>4, <2>2, <2>3 DEF Multifidelity!Evidence
  <2>. QED BY <1>4, <2>4 DEF Analysable
<1>5. CASE kind = "f4"
  BY <1>3, <1>5 DEF Analysable, F4!Evidence
<1>6. CASE kind = "h25"
  BY <1>3, <1>6 DEF Analysable, H25!Evidence
<1>7. CASE kind \notin {"f4", "h25", "phase-b"}
  BY <1>7 DEF Analysable
<1>. QED BY <1>4, <1>5, <1>6, <1>7

(* Whatever cut a command off, a running stage on which nothing else works *)
(* can go on or is stuck for one of the known reasons, and a complete one  *)
(* can be analysed, unless a slot of Phase B failed.                       *)
THEOREM StagesAreNeverWedged == Spec => []NeverWedged
<1>1. OrderInv => NeverWedged
  BY ProceedsOrStuck, CompleteCanBeAnalysed, Zenon DEF NeverWedged
<1>. QED BY <1>1, OrderInvariant, PTL

=============================================================================
