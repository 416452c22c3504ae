------------------------ MODULE StageCampaigns_proofs ------------------------
(***************************************************************************)
(* Proofs about the stages before the primary campaign, for every number   *)
(* of callers, runs and repetitions, and whichever stages may be worked on *)
(* by several commands at once.                                            *)
(***************************************************************************)
EXTENDS StageCampaigns, Integers, WellFoundedInduction, TLAPS

-----------------------------------------------------------------------------
(* A set of naturals has a least element.                                  *)
LEMMA NatMin ==
  ASSUME NEW S \in SUBSET Nat, S # {}
  PROVE  \E x \in S : \A y \in S : x <= y
<1>. DEFINE R == {p \in Nat \X Nat : p[1] < p[2]}
<1>1. IsWellFoundedOn(R, Nat)
  BY NatLessThanWellFounded, Zenon DEF OpToRel
<1>2. \E x \in S : \A y \in S : ~ (<<y, x>> \in R)
  <2>. HIDE DEF R
  <2>. QED BY <1>1, WFMin, Zenon
<1>3. \A x, y \in Nat : y < x => <<y, x>> \in R
  OBVIOUS
<1>. HIDE DEF R
<1>4. PICK x \in S : \A y \in S : ~ (<<y, x>> \in R)
  BY <1>2
<1>5. ASSUME NEW y \in S PROVE x <= y
  <2>1. ~ (y < x)
    BY <1>3, <1>4
  <2>. QED BY <2>1
<1>. QED BY <1>5

(* The run, ladder or repetition a command takes is one it may take.       *)
LEMMA LeastOf ==
  ASSUME NEW S \in SUBSET Nat, S # {}
  PROVE  Min(S) \in S
<1>1. \E x \in S : \A y \in S : x <= y
  BY NatMin
<1>. QED BY <1>1 DEF Min
-----------------------------------------------------------------------------
(***************************************************************************)
(* The stages take the same steps, in their own order and under their own  *)
(* names of a block's statuses.  RunStep and RestoreStep say once what a   *)
(* command of any stage may do next; the lemmas after them show that each  *)
(* stage's module does nothing else.                                       *)
(***************************************************************************)
Staged == kind \in {"screening", "recovery", "reference", "warmup"}
Analyzed == kind \in {"screening", "recovery", "reference"}

Plan1 == IF kind = "recovery" THEN "RECOVERY_PLANNED"
         ELSE IF kind = "warmup" THEN "WARMUP_PLANNED" ELSE "INITIAL_PLANNED"
Run1 == IF kind = "recovery" THEN "RECOVERY_RUNNING"
        ELSE IF kind = "warmup" THEN "WARMUP_RUNNING" ELSE "INITIAL_RUNNING"
Done1 == IF kind = "warmup" THEN "WARMUP_COMPLETE" ELSE "INITIAL_COMPLETE"
Plan2 == IF kind = "reference" THEN "CONTINGENCY_PLANNED"
         ELSE IF kind = "warmup" THEN "WARMUP_FROZEN" ELSE "OAT_PLANNED"
Run2 == IF kind = "reference" THEN "CONTINGENCY_RUNNING"
        ELSE IF kind = "warmup" THEN "DURATION_RUNNING" ELSE "OAT_RUNNING"
Done2 == IF kind = "reference" THEN "CONTINGENCY_COMPLETE"
         ELSE IF kind = "warmup" THEN "COMPLETED" ELSE "OAT_COMPLETE"

Starts == [b \in {Plan1, Plan2} |-> IF b = Plan1 THEN Run1 ELSE Run2]
Fatal == IF kind \in {"screening", "recovery"} THEN {"INFRA"} ELSE Failures
Final == IF kind = "warmup" THEN {"COMPLETED", "FAILED"} ELSE {"PASSED", "BLOCKED", "FAILED"}

RowsVars == <<kind, campaign, block, trial, target, ledgerVars>>

Create(c) ==
  CreateCampaign(c, block = "NONE" /\ (kind = "recovery" => validation = "PASSED"))

Insert(c) ==
  InsertRuns(c, IF Staged THEN First ELSE Slot, IF Staged THEN Plan1 ELSE "PLANNED")

StartRun(c) == Begin(c, "reconcile") /\ UNCHANGED RowsVars

StageReconciles(c) == Staged /\ ReconcileFirst(c, Fatal, Starts)
StageSettles(c) == Staged /\ ReconcileLast(c, Fatal)
StageFails(c) == Staged /\ FailBlock(c, Final, IF kind = "warmup" THEN "pause" ELSE "stop")
StageStarts(c) == Staged /\ StartBlock(c, Starts)

StageSelects(c) ==
  LET initial == caller[c].block = Run1
      runs == IF initial THEN First ELSE Second
  IN /\ Staged
     /\ \/ ChooseRun(c, runs)
        \/ CompletePart(c, runs, IF initial THEN Done1 ELSE Done2, kind # "warmup")

CreateRun(c) ==
  /\ kind # "saturation"
  /\ caller[c].at = "trial"
  /\ CreateTrial(c, RunTrial(caller[c].slot), "attach")
  /\ UNCHANGED ledgerVars

Attach(c) ==
  /\ kind # "saturation"
  /\ caller[c].at = "attach"
  /\ IF slot[caller[c].slot] = "PLANNED"
       THEN /\ slot' = [slot EXCEPT ![caller[c].slot] = "CREATED"]
            /\ caller' = [caller EXCEPT ![c] = [Idle EXCEPT !.at = "run_once"]]
       ELSE UNCHANGED slot /\ Leave(c)
  /\ UNCHANGED <<kind, campaign, block, trial, target, overlapped, verdict, ladder,
                 passedOver>>

Works(c) ==
  /\ \/ RunOnce(c, "settle") \/ AttemptFails(c) \/ LeaseLost(c)
     \/ kind # "saturation" /\ Measured(c, "settle")
  /\ UNCHANGED ledgerVars

Load(c) ==
  /\ Analyzed
  /\ LoadRuns(c, {Done1, Done2}, kind = "reference" =>
       \A s \in Slot : slot[s] \in {"ABSENT", "COMPLETED"})

Decide(c) == Analyzed /\ CommitVerdict(c, Done1, Plan2)

Measures(p) == \A s \in Part(p) : slot[s] = "COMPLETED"

AnalyzeWarmup ==
  /\ kind = "warmup" /\ block = Done1 /\ Measures(1)
  /\ verdict' = [verdict EXCEPT ![1] = "MORE"]
  /\ UNCHANGED <<coreVars, slot, ladder, passedOver>>

Freeze(c) ==
  /\ kind = "warmup" /\ block = Done1 /\ verdict[1] = "MORE"
  /\ Enter(c, [Idle EXCEPT !.at = "freeze"])
  /\ UNCHANGED RowsVars

CommitFreeze(c) ==
  /\ kind = "warmup"
  /\ caller[c].at = "freeze"
  /\ IF block = Done1 /\ \A s \in Second : slot[s] = "ABSENT"
       THEN /\ slot' = [s \in Slot |-> IF s \in Second THEN "PLANNED" ELSE slot[s]]
            /\ block' = Plan2
       ELSE UNCHANGED <<slot, block>>
  /\ Leave(c)
  /\ UNCHANGED <<kind, campaign, trial, target, overlapped, verdict, ladder, passedOver>>

AnalyzeDuration ==
  /\ kind = "warmup" /\ block = Done2 /\ Measures(2)
  /\ \E v \in Outcomes(2) : verdict' = [verdict EXCEPT ![2] = v]
  /\ UNCHANGED <<coreVars, slot, ladder, passedOver>>

(* Phase two of the saturation.                                            *)
ProbeReconciles(c) ==
  /\ kind = "phase2"
  /\ caller[c].at \in {"reconcile", "settle"}
  /\ ReconcileRun
  /\ \/ Proceed(c, "pause") \/ Leave(c)
     \/ Proceed(c, "run_once")
     \/ Filed \notin Failures /\ ~Pending /\ Proceed(c, "select")
  /\ UNCHANGED <<kind, campaign, block, trial, target, overlapped, verdict, ladder,
                 passedOver>>

ProbeSelects(c) ==
  /\ kind = "phase2"
  /\ \/ ChooseRun(c, Slot)
     \/ /\ caller[c].at = "select"
        /\ Proceed(c, "stop")
        /\ UNCHANGED <<kind, campaign, block, trial, target, overlapped, ledgerVars>>

(* Phase one.                                                              *)
Own(l) == <<0, l>>
AtWork == {l \in 1..2 : ladder[l] \in {"PREPARING", "READY", "RUNNING"}}
Finalizable(l) ==
  (\E s \in Part(l) : slot[s] = "FAILED") \/ (\A s \in Part(l) : slot[s] = "COMPLETED")

CoreRows == <<kind, campaign, block, trial, overlapped, slot, verdict, passedOver>>

LadderReconciles(c) ==
  /\ kind = "saturation"
  /\ caller[c].at \in {"reconcile", "settle"}
  /\ ReconcileRun
  /\ \/ Leave(c)
     \/ caller' = [caller EXCEPT ![c] = [Idle EXCEPT !.at = "finalize?", !.open = Pending]]
  /\ UNCHANGED <<kind, campaign, block, trial, target, overlapped, verdict, ladder,
                 passedOver>>

ToFinalize(c, l) ==
  \E outcome \in {"FAILED", "COMPLETED"} :
    caller' = [caller EXCEPT ![c] =
      [Idle EXCEPT !.at = "rollback", !.number = l, !.block = outcome]]

AsksToFinalize(c) ==
  /\ kind = "saturation"
  /\ caller[c].at = "finalize?"
  /\ \/ \E l \in AtWork : Finalizable(l) /\ ToFinalize(c, l)
     \/ Proceed(c, IF caller[c].open THEN "run_once" ELSE "select")
  /\ UNCHANGED <<CoreRows, target, ladder>>

RollsBack(c) ==
  /\ kind = "saturation"
  /\ caller[c].at = "rollback"
  /\ target' = Default
  /\ Proceed(c, "finalize")
  /\ UNCHANGED <<CoreRows, ladder>>

Finalizes(c) ==
  LET l == caller[c].number IN
  /\ kind = "saturation"
  /\ caller[c].at = "finalize"
  /\ IF ladder[l] = "RUNNING"
       THEN ladder' = [ladder EXCEPT ![l] = caller[c].block]
       ELSE UNCHANGED ladder
  /\ Proceed(c, "pause") \/ Leave(c)
  /\ UNCHANGED <<CoreRows, target>>

LadderSelects(c) ==
  /\ kind = "saturation"
  /\ caller[c].at = "select"
  /\ \/ Proceed(c, "pause") \/ Leave(c)
     \/ \E l \in 1..2 :
          /\ (ladder[l] = "PLANNED" /\ AtWork = {}) \/ ladder[l] = "PREPARING"
          /\ caller' = [caller EXCEPT ![c] = [Idle EXCEPT !.at = "prepare", !.number = l]]
     \/ \E l \in 1..2, s \in Slot :
          /\ ladder[l] \in {"READY", "RUNNING"}
          /\ slot[s] = "PLANNED"
          /\ caller' = [caller EXCEPT ![c] =
               [Idle EXCEPT !.at = "drift?", !.slot = s, !.block = ladder[l]]]
     \/ \E l \in AtWork : Finalizable(l) /\ ToFinalize(c, l)
  /\ UNCHANGED <<CoreRows, target, ladder>>

Prepares(c) ==
  LET l == caller[c].number IN
  /\ kind = "saturation"
  /\ caller[c].at = "prepare"
  /\ ladder' = [ladder EXCEPT ![l] = IF @ = "PLANNED" THEN "PREPARING" ELSE @]
  /\ Proceed(c, "apply")
  /\ UNCHANGED <<CoreRows, target>>

Applies(c) ==
  /\ kind = "saturation"
  /\ caller[c].at = "apply"
  /\ target' = Own(caller[c].number)
  /\ Proceed(c, "ready")
  /\ UNCHANGED <<CoreRows, ladder>>

Readies(c) ==
  LET l == caller[c].number IN
  /\ kind = "saturation"
  /\ caller[c].at = "ready"
  /\ ladder' = [ladder EXCEPT ![l] = IF @ = "PREPARING" THEN "READY" ELSE @]
  /\ Leave(c)
  /\ UNCHANGED <<CoreRows, target>>

ChecksDrift(c) ==
  /\ kind = "saturation"
  /\ caller[c].at = "drift?"
  /\ (Proceed(c, "probe") /\ target = Own(PartOf(caller[c].slot))) \/ Leave(c)
  /\ UNCHANGED <<CoreRows, target, ladder>>

CreateProbe(c) ==
  LET s == caller[c].slot
      l == PartOf(s)
  IN
  /\ kind = "saturation"
  /\ caller[c].at = "probe"
  /\ IF slot[s] = "PLANNED"
       THEN /\ trial' = [trial EXCEPT ![RunTrial(s)] =
                 IF @ = Absent THEN [state |-> "QUEUED", tries |-> 0] ELSE @]
            /\ slot' = [slot EXCEPT ![s] = "CREATED"]
            /\ ladder' = [ladder EXCEPT ![l] =
                 IF caller[c].block = "READY" /\ @ = "READY" THEN "RUNNING" ELSE @]
            /\ Proceed(c, "run_once")
       ELSE UNCHANGED <<trial, slot, ladder>> /\ Leave(c)
  /\ UNCHANGED <<kind, campaign, block, target, overlapped, verdict, passedOver>>

Probed(c) ==
  LET t == caller[c].trial IN
  /\ kind = "saturation"
  /\ caller[c].at = "measure"
  /\ trial[t].state = "RUNNING"
  /\ \E state \in {"COMPLETED", "UNFILED"} : trial' = [trial EXCEPT ![t].state = state]
  /\ caller' = [caller EXCEPT ![c].at = "settle", ![c].trial = NoTrial]
  /\ UNCHANGED <<kind, campaign, block, target, overlapped, ledgerVars>>

RunStep(c) ==
  \/ Create(c) \/ Insert(c) \/ StartRun(c)
  \/ StageReconciles(c) \/ StageSettles(c) \/ StageFails(c) \/ StageStarts(c)
  \/ StageSelects(c)
  \/ CreateRun(c) \/ Attach(c) \/ Works(c)
  \/ Load(c) \/ Decide(c)
  \/ AnalyzeWarmup \/ Freeze(c) \/ CommitFreeze(c) \/ AnalyzeDuration
  \/ ProbeReconciles(c) \/ ProbeSelects(c)
  \/ LadderReconciles(c) \/ AsksToFinalize(c) \/ RollsBack(c) \/ Finalizes(c)
  \/ LadderSelects(c) \/ Prepares(c) \/ Applies(c) \/ Readies(c)
  \/ ChecksDrift(c) \/ CreateProbe(c) \/ Probed(c)

(* Restores.                                                               *)
NewSeries ==
  /\ kind \in {"recovery", "soak"}
  /\ Idling
  /\ kind = "soak" => validation \notin {"PLANNED", "RUNNING"}
  /\ \/ (kind = "recovery" => validation = "NONE") /\ PlanSeries(FALSE)
     \/ kind = "recovery" /\ remediation = "PASSED" /\ ~supersedes /\ PlanSeries(TRUE)

NewRemediation == kind = "recovery" /\ PlanRemediation

RestoreStep(c) ==
  \/ kind \in {"recovery", "soak"} /\ Repetition(c)
  \/ kind = "recovery" /\ (ClaimRemediation(c) \/ Rebuild(c))

(* The screening takes no other step.                                      *)
LEMMA ScreeningSteps ==
  ASSUME NEW c \in Caller, Screen!Command(c)
  PROVE  RunStep(c)
<1>0. kind = "screening"
  BY DEF Screen!Command, Screen!Active
<1>. USE DEF RowsVars
<1>a. Screen!Starts = Starts
  BY <1>0 DEF Screen!Starts, Starts, Plan1, Plan2, Run1, Run2
<1>1. CASE Screen!CreateCampaign(c, Screen!Ready)
  <2>1. Create(c)
    BY <1>0, <1>1 DEF Busy, Create, CreateCampaign, Default, Idle, Leave,
     NoTrial, Open, OpenCampaign, Proceed, Quiet, Screen!Busy,
     Screen!CreateCampaign, Screen!Default, Screen!Idle, Screen!Leave,
     Screen!NoTrial, Screen!Open, Screen!OpenCampaign, Screen!Proceed,
     Screen!Quiet, Screen!Ready, Screen!ledgerVars, ledgerVars
  <2>. QED BY <2>1 DEF RunStep
<1>2. CASE Screen!InsertPlan(c)
  <2>1. Insert(c)
    BY <1>0, <1>2 DEF Busy, Idle, Insert, InsertRuns, Leave, NoTrial, Plan1,
     Proceed, Quiet, Screen!Busy, Screen!Idle, Screen!InsertPlan,
     Screen!InsertRuns, Screen!Leave, Screen!NoTrial, Screen!Proceed,
     Screen!Quiet, Screen!Slot, Screen!ledgerVars, Slot, Staged, ledgerVars
  <2>. QED BY <2>1 DEF RunStep
<1>3. CASE Screen!RunNext(c)
  <2>1. StartRun(c)
    BY <1>0, <1>3 DEF Begin, Busy, Enter, Idle, Leave, NoTrial, Proceed,
     Quiet, Screen!Begin, Screen!Busy, Screen!Enter, Screen!Idle,
     Screen!Leave, Screen!NoTrial, Screen!Proceed, Screen!Quiet,
     Screen!RunNext, Screen!ledgerVars, StartRun, ledgerVars
  <2>. QED BY <2>1 DEF RunStep
<1>4. CASE Screen!ReconcileFirst(c, Screen!Fatal, Screen!Starts)
  <2>1. StageReconciles(c)
    BY <1>0, <1>4, <1>a, Zenon DEF Busy, Ended, Failures, Fatal, Filed, Idle,
     InFlight, Leave, Min, NoTrial, Pending, Proceed, Quiet, ReconcileFirst,
     ReconcileRun, RunTrial, Screen!Busy, Screen!Ended, Screen!Failures,
     Screen!Fatal, Screen!Filed, Screen!Idle, Screen!InFlight, Screen!Leave,
     Screen!Min, Screen!NoTrial, Screen!Pending, Screen!Proceed,
     Screen!Quiet, Screen!ReconcileFirst, Screen!ReconcileRun,
     Screen!RunTrial, Screen!Settled, Screen!Slot, Screen!ledgerVars,
     Settled, Slot, StageReconciles, Staged, ledgerVars
  <2>. QED BY <2>1 DEF RunStep
<1>5. CASE Screen!ReconcileLast(c, Screen!Fatal)
  <2>1. StageSettles(c)
    BY <1>0, <1>5 DEF Busy, Ended, Failures, Fatal, Filed, Idle, InFlight,
     Leave, Min, NoTrial, Pending, Proceed, Quiet, ReconcileLast,
     ReconcileRun, RunTrial, Screen!Busy, Screen!Ended, Screen!Failures,
     Screen!Fatal, Screen!Filed, Screen!Idle, Screen!InFlight, Screen!Leave,
     Screen!Min, Screen!NoTrial, Screen!Pending, Screen!Proceed,
     Screen!Quiet, Screen!ReconcileLast, Screen!ReconcileRun,
     Screen!RunTrial, Screen!Settled, Screen!Slot, Screen!ledgerVars,
     Settled, Slot, StageSettles, Staged, ledgerVars
  <2>. QED BY <2>1 DEF RunStep
<1>6. CASE Screen!FailBlock(c, Screen!Final, "stop")
  <2>1. StageFails(c)
    BY <1>0, <1>6 DEF Busy, FailBlock, Final, Idle, Leave, NoTrial, Proceed,
     Quiet, Screen!Busy, Screen!FailBlock, Screen!Final, Screen!Idle,
     Screen!Leave, Screen!NoTrial, Screen!Proceed, Screen!Quiet,
     Screen!ledgerVars, StageFails, Staged, ledgerVars
  <2>. QED BY <2>1 DEF RunStep
<1>7. CASE Screen!StartBlock(c, Screen!Starts)
  <2>1. StageStarts(c)
    BY <1>0, <1>7, <1>a DEF Busy, Idle, Leave, NoTrial, Proceed, Quiet,
     Screen!Busy, Screen!Idle, Screen!Leave, Screen!NoTrial, Screen!Proceed,
     Screen!Quiet, Screen!StartBlock, Screen!ledgerVars, StageStarts,
     Staged, StartBlock, ledgerVars
  <2>. QED BY <2>1 DEF RunStep
<1>8. CASE Screen!SelectRun(c)
  <2>1. StageSelects(c)
    BY <1>0, <1>8 DEF Busy, ChooseRun, CompletePart, Done1, Done2, Idle,
     Leave, Min, NoTrial, Planned, Proceed, Quiet, Run1, Screen!Busy,
     Screen!ChooseRun, Screen!CompletePart, Screen!Idle, Screen!Leave,
     Screen!Min, Screen!NoTrial, Screen!Planned, Screen!Proceed,
     Screen!Quiet, Screen!Second, Screen!SelectRun, Screen!Slot,
     Screen!ledgerVars, Second, Slot, StageSelects, Staged, ledgerVars
  <2>. QED BY <2>1 DEF RunStep
<1>9. CASE /\ caller[c].at = "trial"
           /\ Screen!CreateTrial(c, Screen!RunTrial(caller[c].slot), "attach")
           /\ UNCHANGED Screen!ledgerVars
  <2>1. CreateRun(c)
    BY <1>0, <1>9 DEF Absent, AcceptsTrials, Busy, CreateRun, CreateTrial,
     Idle, Leave, NoTrial, Open, Proceed, Quiet, RunTrial, Screen!Absent,
     Screen!AcceptsTrials, Screen!Busy, Screen!CreateTrial, Screen!Idle,
     Screen!Leave, Screen!NoTrial, Screen!Open, Screen!Proceed,
     Screen!Quiet, Screen!RunTrial, Screen!ledgerVars, ledgerVars
  <2>. QED BY <2>1 DEF RunStep
<1>10. CASE /\ caller[c].at = "attach"
            /\ IF slot[caller[c].slot] = "PLANNED"
                 THEN /\ slot' = [slot EXCEPT ![caller[c].slot] = "CREATED"]
                      /\ caller' = [caller EXCEPT ![c] = [Screen!Idle EXCEPT !.at = "run_once"]]
                 ELSE UNCHANGED slot /\ Screen!Leave(c)
            /\ UNCHANGED <<kind, campaign, block, trial, target, overlapped, verdict,
                           ladder, passedOver>>
  <2>1. Attach(c)
    BY <1>0, <1>10 DEF Attach, Busy, Idle, Leave, NoTrial, Proceed, Quiet,
     Screen!Busy, Screen!Idle, Screen!Leave, Screen!NoTrial, Screen!Proceed,
     Screen!Quiet, Screen!ledgerVars, ledgerVars
  <2>. QED BY <2>1 DEF RunStep
<1>11. CASE Screen!Worker(c, "settle") /\ UNCHANGED Screen!ledgerVars
  <2>1. Works(c)
    BY <1>0, <1>11 DEF AttemptFails, Busy, Claimable, Default, Idle,
     LeaseLost, Leave, Measured, NoTrial, Proceed, Quiet, RunOnce,
     Screen!AttemptFails, Screen!Busy, Screen!Claimable, Screen!Default,
     Screen!Idle, Screen!LeaseLost, Screen!Leave, Screen!Measured,
     Screen!NoTrial, Screen!Proceed, Screen!Quiet, Screen!RunOnce,
     Screen!Worker, Screen!ledgerVars, Worker, Works, ledgerVars
  <2>. QED BY <2>1 DEF RunStep
<1>12. CASE Screen!LoadRuns(c, {"INITIAL_COMPLETE", "OAT_COMPLETE"}, TRUE)
  <2>1. Load(c)
    BY <1>0, <1>12 DEF Analyzed, Busy, Done1, Done2, Enter, Idle, Leave,
     Load, LoadRuns, NoTrial, Proceed, Quiet, Screen!Busy, Screen!Enter,
     Screen!Idle, Screen!Leave, Screen!LoadRuns, Screen!NoTrial,
     Screen!Proceed, Screen!Quiet, Screen!Slot, Screen!ledgerVars, Slot,
     ledgerVars
  <2>. QED BY <2>1 DEF RunStep
<1>13. CASE Screen!CommitVerdict(c, "INITIAL_COMPLETE", "OAT_PLANNED")
  <2>1. Decide(c)
    BY <1>0, <1>13 DEF Analyzed, Busy, CommitVerdict, Decide, Done1, Idle,
     Leave, NoTrial, Outcomes, Plan2, Proceed, Quiet, Screen!Busy,
     Screen!CommitVerdict, Screen!Idle, Screen!Leave, Screen!NoTrial,
     Screen!Outcomes, Screen!Proceed, Screen!Quiet, Screen!Second,
     Screen!Slot, Screen!ledgerVars, Second, Slot, ledgerVars
  <2>. QED BY <2>1 DEF RunStep
<1>. QED BY <1>1, <1>2, <1>3, <1>4, <1>5, <1>6, <1>7, <1>8, <1>9, <1>10,
     <1>11, <1>12, <1>13
         DEF Screen!Command, Screen!Reconcile, Screen!ExecuteRun,
     Screen!Analyze

(* Neither does the campaign of its recovery.                              *)
LEMMA RecoverySteps ==
  ASSUME NEW c \in Caller, Recovery!Campaign(c)
  PROVE  RunStep(c)
<1>0. kind = "recovery"
  BY DEF Recovery!Campaign, Recovery!Active
<1>. USE DEF RowsVars
<1>a. Recovery!Starts = Starts
  BY <1>0 DEF Recovery!Starts, Starts, Plan1, Plan2, Run1, Run2
<1>1. CASE Recovery!CreateCampaign(c, Recovery!Ready)
  <2>1. Create(c)
    BY <1>0, <1>1 DEF Busy, Create, CreateCampaign, Default, Idle, Leave,
     NoTrial, Open, OpenCampaign, Proceed, Quiet, Recovery!Busy,
     Recovery!CreateCampaign, Recovery!Default, Recovery!Idle,
     Recovery!Leave, Recovery!NoTrial, Recovery!Open, Recovery!OpenCampaign,
     Recovery!Proceed, Recovery!Quiet, Recovery!Ready, Recovery!ledgerVars,
     ledgerVars
  <2>. QED BY <2>1 DEF RunStep
<1>2. CASE Recovery!InsertPlan(c)
  <2>1. Insert(c)
    BY <1>0, <1>2 DEF Busy, Idle, Insert, InsertRuns, Leave, NoTrial, Plan1,
     Proceed, Quiet, Recovery!Busy, Recovery!Idle, Recovery!InsertPlan,
     Recovery!InsertRuns, Recovery!Leave, Recovery!NoTrial,
     Recovery!Proceed, Recovery!Quiet, Recovery!Slot, Recovery!ledgerVars,
     Slot, Staged, ledgerVars
  <2>. QED BY <2>1 DEF RunStep
<1>3. CASE Recovery!RunNext(c)
  <2>1. StartRun(c)
    BY <1>0, <1>3 DEF Begin, Busy, Enter, Idle, Leave, NoTrial, Proceed,
     Quiet, Recovery!Begin, Recovery!Busy, Recovery!Enter, Recovery!Idle,
     Recovery!Leave, Recovery!NoTrial, Recovery!Proceed, Recovery!Quiet,
     Recovery!RunNext, Recovery!ledgerVars, StartRun, ledgerVars
  <2>. QED BY <2>1 DEF RunStep
<1>4. CASE Recovery!ReconcileFirst(c, Recovery!Fatal, Recovery!Starts)
  <2>1. StageReconciles(c)
    BY <1>0, <1>4, <1>a DEF Busy, Ended, Failures, Fatal, Filed, Idle,
     InFlight, Leave, Min, NoTrial, Pending, Proceed, Quiet, ReconcileFirst,
     ReconcileRun, Recovery!Busy, Recovery!Ended, Recovery!Failures,
     Recovery!Fatal, Recovery!Filed, Recovery!Idle, Recovery!InFlight,
     Recovery!Leave, Recovery!Min, Recovery!NoTrial, Recovery!Pending,
     Recovery!Proceed, Recovery!Quiet, Recovery!ReconcileFirst,
     Recovery!ReconcileRun, Recovery!RunTrial, Recovery!Settled,
     Recovery!Slot, Recovery!ledgerVars, RunTrial, Settled, Slot,
     StageReconciles, Staged, ledgerVars
  <2>. QED BY <2>1 DEF RunStep
<1>5. CASE Recovery!ReconcileLast(c, Recovery!Fatal)
  <2>1. StageSettles(c)
    BY <1>0, <1>5 DEF Busy, Ended, Failures, Fatal, Filed, Idle, InFlight,
     Leave, Min, NoTrial, Pending, Proceed, Quiet, ReconcileLast,
     ReconcileRun, Recovery!Busy, Recovery!Ended, Recovery!Failures,
     Recovery!Fatal, Recovery!Filed, Recovery!Idle, Recovery!InFlight,
     Recovery!Leave, Recovery!Min, Recovery!NoTrial, Recovery!Pending,
     Recovery!Proceed, Recovery!Quiet, Recovery!ReconcileLast,
     Recovery!ReconcileRun, Recovery!RunTrial, Recovery!Settled,
     Recovery!Slot, Recovery!ledgerVars, RunTrial, Settled, Slot,
     StageSettles, Staged, ledgerVars
  <2>. QED BY <2>1 DEF RunStep
<1>6. CASE Recovery!FailBlock(c, Recovery!Final, "stop")
  <2>1. StageFails(c)
    BY <1>0, <1>6 DEF Busy, FailBlock, Final, Idle, Leave, NoTrial, Proceed,
     Quiet, Recovery!Busy, Recovery!FailBlock, Recovery!Final,
     Recovery!Idle, Recovery!Leave, Recovery!NoTrial, Recovery!Proceed,
     Recovery!Quiet, Recovery!ledgerVars, StageFails, Staged, ledgerVars
  <2>. QED BY <2>1 DEF RunStep
<1>7. CASE Recovery!StartBlock(c, Recovery!Starts)
  <2>1. StageStarts(c)
    BY <1>0, <1>7, <1>a DEF Busy, Idle, Leave, NoTrial, Proceed, Quiet,
     Recovery!Busy, Recovery!Idle, Recovery!Leave, Recovery!NoTrial,
     Recovery!Proceed, Recovery!Quiet, Recovery!StartBlock,
     Recovery!ledgerVars, StageStarts, Staged, StartBlock, ledgerVars
  <2>. QED BY <2>1 DEF RunStep
<1>8. CASE Recovery!SelectRun(c)
  <2>1. StageSelects(c)
    BY <1>0, <1>8 DEF Busy, ChooseRun, CompletePart, Done1, Done2, Idle,
     Leave, Min, NoTrial, Planned, Proceed, Quiet, Recovery!Busy,
     Recovery!ChooseRun, Recovery!CompletePart, Recovery!Idle,
     Recovery!Leave, Recovery!Min, Recovery!NoTrial, Recovery!Planned,
     Recovery!Proceed, Recovery!Quiet, Recovery!Second, Recovery!SelectRun,
     Recovery!Slot, Recovery!ledgerVars, Run1, Second, Slot, StageSelects,
     Staged, ledgerVars
  <2>. QED BY <2>1 DEF RunStep
<1>9. CASE /\ caller[c].at = "trial"
           /\ Recovery!CreateTrial(c, Recovery!RunTrial(caller[c].slot), "attach")
           /\ UNCHANGED Recovery!ledgerVars
  <2>1. CreateRun(c)
    BY <1>0, <1>9 DEF Absent, AcceptsTrials, Busy, CreateRun, CreateTrial,
     Idle, Leave, NoTrial, Open, Proceed, Quiet, Recovery!Absent,
     Recovery!AcceptsTrials, Recovery!Busy, Recovery!CreateTrial,
     Recovery!Idle, Recovery!Leave, Recovery!NoTrial, Recovery!Open,
     Recovery!Proceed, Recovery!Quiet, Recovery!RunTrial,
     Recovery!ledgerVars, RunTrial, ledgerVars
  <2>. QED BY <2>1 DEF RunStep
<1>10. CASE /\ caller[c].at = "attach"
            /\ IF slot[caller[c].slot] = "PLANNED"
                 THEN /\ slot' = [slot EXCEPT ![caller[c].slot] = "CREATED"]
                      /\ caller' = [caller EXCEPT ![c] = [Recovery!Idle EXCEPT !.at = "run_once"]]
                 ELSE UNCHANGED slot /\ Recovery!Leave(c)
            /\ UNCHANGED <<kind, campaign, block, trial, target, overlapped, verdict,
                           ladder, passedOver>>
  <2>1. Attach(c)
    BY <1>0, <1>10 DEF Attach, Busy, Idle, Leave, NoTrial, Proceed, Quiet,
     Recovery!Busy, Recovery!Idle, Recovery!Leave, Recovery!NoTrial,
     Recovery!Proceed, Recovery!Quiet, Recovery!ledgerVars, ledgerVars
  <2>. QED BY <2>1 DEF RunStep
<1>11. CASE Recovery!Worker(c, "settle") /\ UNCHANGED Recovery!ledgerVars
  <2>1. Works(c)
    BY <1>0, <1>11 DEF AttemptFails, Busy, Claimable, Default, Idle,
     LeaseLost, Leave, Measured, NoTrial, Proceed, Quiet,
     Recovery!AttemptFails, Recovery!Busy, Recovery!Claimable,
     Recovery!Default, Recovery!Idle, Recovery!LeaseLost, Recovery!Leave,
     Recovery!Measured, Recovery!NoTrial, Recovery!Proceed, Recovery!Quiet,
     Recovery!RunOnce, Recovery!Worker, Recovery!ledgerVars, RunOnce,
     Worker, Works, ledgerVars
  <2>. QED BY <2>1 DEF RunStep
<1>12. CASE Recovery!LoadRuns(c, {"INITIAL_COMPLETE", "OAT_COMPLETE"}, TRUE)
  <2>1. Load(c)
    BY <1>0, <1>12 DEF Analyzed, Busy, Done1, Done2, Enter, Idle, Leave,
     Load, LoadRuns, NoTrial, Proceed, Quiet, Recovery!Busy, Recovery!Enter,
     Recovery!Idle, Recovery!Leave, Recovery!LoadRuns, Recovery!NoTrial,
     Recovery!Proceed, Recovery!Quiet, Recovery!Slot, Recovery!ledgerVars,
     Slot, ledgerVars
  <2>. QED BY <2>1 DEF RunStep
<1>13. CASE Recovery!CommitVerdict(c, "INITIAL_COMPLETE", "OAT_PLANNED")
  <2>1. Decide(c)
    BY <1>0, <1>13 DEF Analyzed, Busy, CommitVerdict, Decide, Done1, Idle,
     Leave, NoTrial, Outcomes, Plan2, Proceed, Quiet, Recovery!Busy,
     Recovery!CommitVerdict, Recovery!Idle, Recovery!Leave,
     Recovery!NoTrial, Recovery!Outcomes, Recovery!Proceed, Recovery!Quiet,
     Recovery!Second, Recovery!Slot, Recovery!ledgerVars, Second, Slot,
     ledgerVars
  <2>. QED BY <2>1 DEF RunStep
<1>. QED BY <1>1, <1>2, <1>3, <1>4, <1>5, <1>6, <1>7, <1>8, <1>9, <1>10,
     <1>11, <1>12, <1>13
         DEF Recovery!Campaign, Recovery!Reconcile, Recovery!ExecuteRun,
     Recovery!Analyze

(* Neither does the default reference.                                     *)
LEMMA ReferenceSteps ==
  ASSUME NEW c \in Caller, Reference!Command(c)
  PROVE  RunStep(c)
<1>0. kind = "reference"
  BY DEF Reference!Command, Reference!Active
<1>. USE DEF RowsVars
<1>a. Reference!Starts = Starts
  BY <1>0 DEF Reference!Starts, Starts, Plan1, Plan2, Run1, Run2
<1>1. CASE Reference!CreateCampaign(c, Reference!Ready)
  <2>1. Create(c)
    BY <1>0, <1>1 DEF Busy, Create, CreateCampaign, Default, Idle, Leave,
     NoTrial, Open, OpenCampaign, Proceed, Quiet, Reference!Busy,
     Reference!CreateCampaign, Reference!Default, Reference!Idle,
     Reference!Leave, Reference!NoTrial, Reference!Open,
     Reference!OpenCampaign, Reference!Proceed, Reference!Quiet,
     Reference!Ready, Reference!ledgerVars, ledgerVars
  <2>. QED BY <2>1 DEF RunStep
<1>2. CASE Reference!InsertPlan(c)
  <2>1. Insert(c)
    BY <1>0, <1>2 DEF Busy, Idle, Insert, InsertRuns, Leave, NoTrial, Plan1,
     Proceed, Quiet, Reference!Busy, Reference!Idle, Reference!InsertPlan,
     Reference!InsertRuns, Reference!Leave, Reference!NoTrial,
     Reference!Proceed, Reference!Quiet, Reference!Slot,
     Reference!ledgerVars, Slot, Staged, ledgerVars
  <2>. QED BY <2>1 DEF RunStep
<1>3. CASE Reference!RunNext(c)
  <2>1. StartRun(c)
    BY <1>0, <1>3 DEF Begin, Busy, Enter, Idle, Leave, NoTrial, Proceed,
     Quiet, Reference!Begin, Reference!Busy, Reference!Enter,
     Reference!Idle, Reference!Leave, Reference!NoTrial, Reference!Proceed,
     Reference!Quiet, Reference!RunNext, Reference!ledgerVars, StartRun,
     ledgerVars
  <2>. QED BY <2>1 DEF RunStep
<1>4. CASE Reference!ReconcileFirst(c, Reference!Failures, Reference!Starts)
  <2>1. StageReconciles(c)
    BY <1>0, <1>4, <1>a, Zenon DEF Busy, Ended, Failures, Fatal, Filed, Idle,
     InFlight, Leave, Min, NoTrial, Pending, Proceed, Quiet, ReconcileFirst,
     ReconcileRun, Reference!Busy, Reference!Ended, Reference!Failures,
     Reference!Filed, Reference!Idle, Reference!InFlight, Reference!Leave,
     Reference!Min, Reference!NoTrial, Reference!Pending, Reference!Proceed,
     Reference!Quiet, Reference!ReconcileFirst, Reference!ReconcileRun,
     Reference!RunTrial, Reference!Settled, Reference!Slot,
     Reference!ledgerVars, RunTrial, Settled, Slot, StageReconciles, Staged,
     ledgerVars
  <2>. QED BY <2>1 DEF RunStep
<1>5. CASE Reference!ReconcileLast(c, Reference!Failures)
  <2>1. StageSettles(c)
    BY <1>0, <1>5 DEF Busy, Ended, Failures, Fatal, Filed, Idle, InFlight,
     Leave, Min, NoTrial, Pending, Proceed, Quiet, ReconcileLast,
     ReconcileRun, Reference!Busy, Reference!Ended, Reference!Failures,
     Reference!Filed, Reference!Idle, Reference!InFlight, Reference!Leave,
     Reference!Min, Reference!NoTrial, Reference!Pending, Reference!Proceed,
     Reference!Quiet, Reference!ReconcileLast, Reference!ReconcileRun,
     Reference!RunTrial, Reference!Settled, Reference!Slot,
     Reference!ledgerVars, RunTrial, Settled, Slot, StageSettles, Staged,
     ledgerVars
  <2>. QED BY <2>1 DEF RunStep
<1>6. CASE Reference!FailBlock(c, Reference!Final, "stop")
  <2>1. StageFails(c)
    BY <1>0, <1>6 DEF Busy, FailBlock, Final, Idle, Leave, NoTrial, Proceed,
     Quiet, Reference!Busy, Reference!FailBlock, Reference!Final,
     Reference!Idle, Reference!Leave, Reference!NoTrial, Reference!Proceed,
     Reference!Quiet, Reference!ledgerVars, StageFails, Staged, ledgerVars
  <2>. QED BY <2>1 DEF RunStep
<1>7. CASE Reference!StartBlock(c, Reference!Starts)
  <2>1. StageStarts(c)
    BY <1>0, <1>7, <1>a DEF Busy, Idle, Leave, NoTrial, Proceed, Quiet,
     Reference!Busy, Reference!Idle, Reference!Leave, Reference!NoTrial,
     Reference!Proceed, Reference!Quiet, Reference!StartBlock,
     Reference!ledgerVars, StageStarts, Staged, StartBlock, ledgerVars
  <2>. QED BY <2>1 DEF RunStep
<1>8. CASE Reference!SelectRun(c)
  <2>1. StageSelects(c)
    BY <1>0, <1>8 DEF Busy, ChooseRun, CompletePart, Done1, Done2, Idle,
     Leave, Min, NoTrial, Planned, Proceed, Quiet, Reference!Busy,
     Reference!ChooseRun, Reference!CompletePart, Reference!Idle,
     Reference!Leave, Reference!Min, Reference!NoTrial, Reference!Planned,
     Reference!Proceed, Reference!Quiet, Reference!Second,
     Reference!SelectRun, Reference!Slot, Reference!ledgerVars, Run1,
     Second, Slot, StageSelects, Staged, ledgerVars
  <2>. QED BY <2>1 DEF RunStep
<1>9. CASE /\ caller[c].at = "trial"
           /\ Reference!CreateTrial(c, Reference!RunTrial(caller[c].slot), "attach")
           /\ UNCHANGED Reference!ledgerVars
  <2>1. CreateRun(c)
    BY <1>0, <1>9 DEF Absent, AcceptsTrials, Busy, CreateRun, CreateTrial,
     Idle, Leave, NoTrial, Open, Proceed, Quiet, Reference!Absent,
     Reference!AcceptsTrials, Reference!Busy, Reference!CreateTrial,
     Reference!Idle, Reference!Leave, Reference!NoTrial, Reference!Open,
     Reference!Proceed, Reference!Quiet, Reference!RunTrial,
     Reference!ledgerVars, RunTrial, ledgerVars
  <2>. QED BY <2>1 DEF RunStep
<1>10. CASE /\ caller[c].at = "attach"
            /\ IF slot[caller[c].slot] = "PLANNED"
                 THEN /\ slot' = [slot EXCEPT ![caller[c].slot] = "CREATED"]
                      /\ caller' = [caller EXCEPT ![c] = [Reference!Idle EXCEPT !.at = "run_once"]]
                 ELSE UNCHANGED slot /\ Reference!Leave(c)
            /\ UNCHANGED <<kind, campaign, block, trial, target, overlapped, verdict,
                           ladder, passedOver>>
  <2>1. Attach(c)
    BY <1>0, <1>10 DEF Attach, Busy, Idle, Leave, NoTrial, Proceed, Quiet,
     Reference!Busy, Reference!Idle, Reference!Leave, Reference!NoTrial,
     Reference!Proceed, Reference!Quiet, Reference!ledgerVars, ledgerVars
  <2>. QED BY <2>1 DEF RunStep
<1>11. CASE Reference!Worker(c, "settle") /\ UNCHANGED Reference!ledgerVars
  <2>1. Works(c)
    BY <1>0, <1>11 DEF AttemptFails, Busy, Claimable, Default, Idle,
     LeaseLost, Leave, Measured, NoTrial, Proceed, Quiet,
     Reference!AttemptFails, Reference!Busy, Reference!Claimable,
     Reference!Default, Reference!Idle, Reference!LeaseLost,
     Reference!Leave, Reference!Measured, Reference!NoTrial,
     Reference!Proceed, Reference!Quiet, Reference!RunOnce,
     Reference!Worker, Reference!ledgerVars, RunOnce, Worker, Works,
     ledgerVars
  <2>. QED BY <2>1 DEF RunStep
<1>12. CASE Reference!LoadRuns(c, {"INITIAL_COMPLETE", "CONTINGENCY_COMPLETE"}, Reference!AllMeasured)
  <2>1. Load(c)
    BY <1>0, <1>12 DEF Analyzed, Busy, Done1, Done2, Enter, Idle, Leave,
     Load, LoadRuns, NoTrial, Proceed, Quiet, Reference!AllMeasured,
     Reference!Busy, Reference!Enter, Reference!Idle, Reference!Leave,
     Reference!LoadRuns, Reference!NoTrial, Reference!Proceed,
     Reference!Quiet, Reference!Slot, Reference!ledgerVars, Slot, ledgerVars
  <2>. QED BY <2>1 DEF RunStep
<1>13. CASE Reference!CommitVerdict(c, "INITIAL_COMPLETE", "CONTINGENCY_PLANNED")
  <2>1. Decide(c)
    BY <1>0, <1>13 DEF Analyzed, Busy, CommitVerdict, Decide, Done1, Idle,
     Leave, NoTrial, Outcomes, Plan2, Proceed, Quiet, Reference!Busy,
     Reference!CommitVerdict, Reference!Idle, Reference!Leave,
     Reference!NoTrial, Reference!Outcomes, Reference!Proceed,
     Reference!Quiet, Reference!Second, Reference!Slot,
     Reference!ledgerVars, Second, Slot, ledgerVars
  <2>. QED BY <2>1 DEF RunStep
<1>. QED BY <1>1, <1>2, <1>3, <1>4, <1>5, <1>6, <1>7, <1>8, <1>9, <1>10,
     <1>11, <1>12, <1>13
         DEF Reference!Command, Reference!Reconcile, Reference!ExecuteRun,
     Reference!Analyze

(* Neither does the warm-up pilot.                                         *)
LEMMA WarmupSteps ==
  ASSUME NEW c \in Caller, Warmup!Command(c)
  PROVE  RunStep(c)
<1>0. kind = "warmup"
  BY DEF Warmup!Command, Warmup!Active
<1>. USE DEF RowsVars
<1>a. Warmup!Starts = Starts
  BY <1>0 DEF Warmup!Starts, Starts, Plan1, Plan2, Run1, Run2
<1>1. CASE Warmup!CreateCampaign(c, Warmup!Ready)
  <2>1. Create(c)
    BY <1>0, <1>1 DEF Busy, Create, CreateCampaign, Default, Idle, Leave,
     NoTrial, Open, OpenCampaign, Proceed, Quiet, Warmup!Busy,
     Warmup!CreateCampaign, Warmup!Default, Warmup!Idle, Warmup!Leave,
     Warmup!NoTrial, Warmup!Open, Warmup!OpenCampaign, Warmup!Proceed,
     Warmup!Quiet, Warmup!Ready, Warmup!ledgerVars, ledgerVars
  <2>. QED BY <2>1 DEF RunStep
<1>2. CASE Warmup!InsertPlan(c)
  <2>1. Insert(c)
    BY <1>0, <1>2 DEF Busy, Idle, Insert, InsertRuns, Leave, NoTrial, Plan1,
     Proceed, Quiet, Slot, Staged, Warmup!Busy, Warmup!Idle,
     Warmup!InsertPlan, Warmup!InsertRuns, Warmup!Leave, Warmup!NoTrial,
     Warmup!Proceed, Warmup!Quiet, Warmup!Slot, Warmup!ledgerVars,
     ledgerVars
  <2>. QED BY <2>1 DEF RunStep
<1>3. CASE Warmup!RunNext(c)
  <2>1. StartRun(c)
    BY <1>0, <1>3 DEF Begin, Busy, Enter, Idle, Leave, NoTrial, Proceed,
     Quiet, StartRun, Warmup!Begin, Warmup!Busy, Warmup!Enter, Warmup!Idle,
     Warmup!Leave, Warmup!NoTrial, Warmup!Proceed, Warmup!Quiet,
     Warmup!RunNext, Warmup!ledgerVars, ledgerVars
  <2>. QED BY <2>1 DEF RunStep
<1>4. CASE Warmup!ReconcileFirst(c, Warmup!Failures, Warmup!Starts)
  <2>1. StageReconciles(c)
    BY <1>0, <1>4, <1>a, Zenon DEF Busy, Ended, Failures, Fatal, Filed, Idle,
     InFlight, Leave, Min, NoTrial, Pending, Proceed, Quiet, ReconcileFirst,
     ReconcileRun, RunTrial, Settled, Slot, StageReconciles, Staged,
     Warmup!Busy, Warmup!Ended, Warmup!Failures, Warmup!Filed, Warmup!Idle,
     Warmup!InFlight, Warmup!Leave, Warmup!Min, Warmup!NoTrial,
     Warmup!Pending, Warmup!Proceed, Warmup!Quiet, Warmup!ReconcileFirst,
     Warmup!ReconcileRun, Warmup!RunTrial, Warmup!Settled, Warmup!Slot,
     Warmup!ledgerVars, ledgerVars
  <2>. QED BY <2>1 DEF RunStep
<1>5. CASE Warmup!ReconcileLast(c, Warmup!Failures)
  <2>1. StageSettles(c)
    BY <1>0, <1>5 DEF Busy, Ended, Failures, Fatal, Filed, Idle, InFlight,
     Leave, Min, NoTrial, Pending, Proceed, Quiet, ReconcileLast,
     ReconcileRun, RunTrial, Settled, Slot, StageSettles, Staged,
     Warmup!Busy, Warmup!Ended, Warmup!Failures, Warmup!Filed, Warmup!Idle,
     Warmup!InFlight, Warmup!Leave, Warmup!Min, Warmup!NoTrial,
     Warmup!Pending, Warmup!Proceed, Warmup!Quiet, Warmup!ReconcileLast,
     Warmup!ReconcileRun, Warmup!RunTrial, Warmup!Settled, Warmup!Slot,
     Warmup!ledgerVars, ledgerVars
  <2>. QED BY <2>1 DEF RunStep
<1>6. CASE Warmup!FailBlock(c, {"COMPLETED", "FAILED"}, "pause")
  <2>1. StageFails(c)
    BY <1>0, <1>6 DEF Busy, FailBlock, Final, Idle, Leave, NoTrial, Proceed,
     Quiet, StageFails, Staged, Warmup!Busy, Warmup!FailBlock, Warmup!Idle,
     Warmup!Leave, Warmup!NoTrial, Warmup!Proceed, Warmup!Quiet,
     Warmup!ledgerVars, ledgerVars
  <2>. QED BY <2>1 DEF RunStep
<1>7. CASE Warmup!StartBlock(c, Warmup!Starts)
  <2>1. StageStarts(c)
    BY <1>0, <1>7, <1>a DEF Busy, Idle, Leave, NoTrial, Proceed, Quiet,
     StageStarts, Staged, StartBlock, Warmup!Busy, Warmup!Idle,
     Warmup!Leave, Warmup!NoTrial, Warmup!Proceed, Warmup!Quiet,
     Warmup!StartBlock, Warmup!ledgerVars, ledgerVars
  <2>. QED BY <2>1 DEF RunStep
<1>8. CASE Warmup!SelectRun(c)
  <2>1. StageSelects(c)
    BY <1>0, <1>8 DEF Busy, ChooseRun, CompletePart, Done1, Done2, Idle,
     Leave, Min, NoTrial, Planned, Proceed, Quiet, Run1, Second, Slot,
     StageSelects, Staged, Warmup!Busy, Warmup!ChooseRun,
     Warmup!CompletePart, Warmup!Idle, Warmup!Leave, Warmup!Min,
     Warmup!NoTrial, Warmup!Planned, Warmup!Proceed, Warmup!Quiet,
     Warmup!Second, Warmup!SelectRun, Warmup!Slot, Warmup!ledgerVars,
     ledgerVars
  <2>. QED BY <2>1 DEF RunStep
<1>9. CASE /\ caller[c].at = "trial"
           /\ Warmup!CreateTrial(c, Warmup!RunTrial(caller[c].slot), "attach")
           /\ UNCHANGED Warmup!ledgerVars
  <2>1. CreateRun(c)
    BY <1>0, <1>9 DEF Absent, AcceptsTrials, Busy, CreateRun, CreateTrial,
     Idle, Leave, NoTrial, Open, Proceed, Quiet, RunTrial, Warmup!Absent,
     Warmup!AcceptsTrials, Warmup!Busy, Warmup!CreateTrial, Warmup!Idle,
     Warmup!Leave, Warmup!NoTrial, Warmup!Open, Warmup!Proceed,
     Warmup!Quiet, Warmup!RunTrial, Warmup!ledgerVars, ledgerVars
  <2>. QED BY <2>1 DEF RunStep
<1>10. CASE /\ caller[c].at = "attach"
            /\ IF slot[caller[c].slot] = "PLANNED"
                 THEN /\ slot' = [slot EXCEPT ![caller[c].slot] = "CREATED"]
                      /\ caller' = [caller EXCEPT ![c] = [Warmup!Idle EXCEPT !.at = "run_once"]]
                 ELSE UNCHANGED slot /\ Warmup!Leave(c)
            /\ UNCHANGED <<kind, campaign, block, trial, target, overlapped, verdict,
                           ladder, passedOver>>
  <2>1. Attach(c)
    BY <1>0, <1>10 DEF Attach, Busy, Idle, Leave, NoTrial, Proceed, Quiet,
     Warmup!Busy, Warmup!Idle, Warmup!Leave, Warmup!NoTrial, Warmup!Proceed,
     Warmup!Quiet, Warmup!ledgerVars, ledgerVars
  <2>. QED BY <2>1 DEF RunStep
<1>11. CASE Warmup!Worker(c, "settle") /\ UNCHANGED Warmup!ledgerVars
  <2>1. Works(c)
    BY <1>0, <1>11 DEF AttemptFails, Busy, Claimable, Default, Idle,
     LeaseLost, Leave, Measured, NoTrial, Proceed, Quiet, RunOnce,
     Warmup!AttemptFails, Warmup!Busy, Warmup!Claimable, Warmup!Default,
     Warmup!Idle, Warmup!LeaseLost, Warmup!Leave, Warmup!Measured,
     Warmup!NoTrial, Warmup!Proceed, Warmup!Quiet, Warmup!RunOnce,
     Warmup!Worker, Warmup!ledgerVars, Worker, Works, ledgerVars
  <2>. QED BY <2>1 DEF RunStep
<1>12. CASE Warmup!AnalyzeWarmup
  <2>1. AnalyzeWarmup
    BY <1>0, <1>12 DEF AnalyzeWarmup, Busy, Done1, Idle, Leave, Measures,
     NoTrial, Part, Proceed, Quiet, Second, Slot, Warmup!AllMeasured,
     Warmup!AnalyzeWarmup, Warmup!Busy, Warmup!Idle, Warmup!Leave,
     Warmup!NoTrial, Warmup!Part, Warmup!Proceed, Warmup!Quiet,
     Warmup!Second, Warmup!Slot, Warmup!coreVars, Warmup!ledgerVars,
     coreVars, ledgerVars
  <2>. QED BY <2>1 DEF RunStep
<1>13. CASE Warmup!Freeze(c)
  <2>1. Freeze(c)
    BY <1>0, <1>13 DEF Busy, Done1, Enter, Freeze, Idle, Leave, NoTrial,
     Proceed, Quiet, Warmup!Busy, Warmup!Enter, Warmup!Freeze, Warmup!Idle,
     Warmup!Leave, Warmup!NoTrial, Warmup!Proceed, Warmup!Quiet,
     Warmup!ledgerVars, ledgerVars
  <2>. QED BY <2>1 DEF RunStep
<1>14. CASE Warmup!CommitFreeze(c)
  <2>1. CommitFreeze(c)
    BY <1>0, <1>14 DEF Busy, CommitFreeze, Done1, Idle, Leave, NoTrial,
     Plan2, Proceed, Quiet, Second, Slot, Warmup!Busy, Warmup!CommitFreeze,
     Warmup!Idle, Warmup!Leave, Warmup!NoTrial, Warmup!Proceed,
     Warmup!Quiet, Warmup!Second, Warmup!Slot, Warmup!ledgerVars, ledgerVars
  <2>. QED BY <2>1 DEF RunStep
<1>15. CASE Warmup!AnalyzeDuration
  <2>1. AnalyzeDuration
    BY <1>0, <1>15 DEF AnalyzeDuration, Busy, Done2, Idle, Leave, Measures,
     NoTrial, Outcomes, Part, Proceed, Quiet, Second, Slot,
     Warmup!AllMeasured, Warmup!AnalyzeDuration, Warmup!Busy, Warmup!Idle,
     Warmup!Leave, Warmup!NoTrial, Warmup!Outcomes, Warmup!Part,
     Warmup!Proceed, Warmup!Quiet, Warmup!Second, Warmup!Slot,
     Warmup!coreVars, Warmup!ledgerVars, coreVars, ledgerVars
  <2>. QED BY <2>1 DEF RunStep
<1>. QED BY <1>1, <1>2, <1>3, <1>4, <1>5, <1>6, <1>7, <1>8, <1>9, <1>10,
     <1>11, <1>12, <1>13, <1>14, <1>15
         DEF Warmup!Command, Warmup!Reconcile, Warmup!ExecuteRun

(* Neither does phase two of the saturation.                               *)
LEMMA TradeoffSteps ==
  ASSUME NEW c \in Caller, Tradeoff!Command(c)
  PROVE  RunStep(c)
<1>0. kind = "phase2"
  BY DEF Tradeoff!Command, Tradeoff!Active
<1>. USE DEF RowsVars
<1>1. CASE Tradeoff!CreateCampaign(c, Tradeoff!Ready)
  <2>1. Create(c)
    BY <1>0, <1>1 DEF Busy, Create, CreateCampaign, Default, Idle, Leave,
     NoTrial, Open, OpenCampaign, Proceed, Quiet, Tradeoff!Busy,
     Tradeoff!CreateCampaign, Tradeoff!Default, Tradeoff!Idle,
     Tradeoff!Leave, Tradeoff!NoTrial, Tradeoff!Open, Tradeoff!OpenCampaign,
     Tradeoff!Proceed, Tradeoff!Quiet, Tradeoff!Ready, Tradeoff!ledgerVars,
     ledgerVars
  <2>. QED BY <2>1 DEF RunStep
<1>2. CASE Tradeoff!InsertPlan(c)
  <2>1. Insert(c)
    BY <1>0, <1>2 DEF Busy, Idle, Insert, InsertRuns, Leave, NoTrial,
     Proceed, Quiet, Slot, Staged, Tradeoff!Busy, Tradeoff!Idle,
     Tradeoff!InsertPlan, Tradeoff!InsertRuns, Tradeoff!Leave,
     Tradeoff!NoTrial, Tradeoff!Proceed, Tradeoff!Quiet, Tradeoff!Slot,
     Tradeoff!ledgerVars, ledgerVars
  <2>. QED BY <2>1 DEF RunStep
<1>3. CASE Tradeoff!RunNext(c)
  <2>1. StartRun(c)
    BY <1>0, <1>3 DEF Begin, Busy, Enter, Idle, Leave, NoTrial, Proceed,
     Quiet, StartRun, Tradeoff!Begin, Tradeoff!Busy, Tradeoff!Enter,
     Tradeoff!Idle, Tradeoff!Leave, Tradeoff!NoTrial, Tradeoff!Proceed,
     Tradeoff!Quiet, Tradeoff!RunNext, Tradeoff!ledgerVars, ledgerVars
  <2>. QED BY <2>1 DEF RunStep
<1>4. CASE Tradeoff!Reconcile(c)
  <2>1. ProbeReconciles(c)
    BY <1>0, <1>4 DEF Busy, Ended, Failures, Filed, Idle, InFlight, Leave,
     Min, NoTrial, Pending, ProbeReconciles, Proceed, Quiet, ReconcileRun,
     RunTrial, Settled, Slot, Tradeoff!Busy, Tradeoff!Ended,
     Tradeoff!Failures, Tradeoff!Filed, Tradeoff!Idle, Tradeoff!InFlight,
     Tradeoff!Leave, Tradeoff!Min, Tradeoff!NoTrial, Tradeoff!Pending,
     Tradeoff!Proceed, Tradeoff!Quiet, Tradeoff!Reconcile,
     Tradeoff!ReconcileRun, Tradeoff!RunTrial, Tradeoff!Settled,
     Tradeoff!Slot, Tradeoff!ledgerVars, ledgerVars
  <2>. QED BY <2>1 DEF RunStep
<1>5. CASE Tradeoff!SelectRun(c)
  <2>1. ProbeSelects(c)
    BY <1>0, <1>5 DEF Busy, ChooseRun, Idle, Leave, Min, NoTrial, Planned,
     ProbeSelects, Proceed, Quiet, Slot, Tradeoff!Busy, Tradeoff!ChooseRun,
     Tradeoff!Idle, Tradeoff!Leave, Tradeoff!Min, Tradeoff!NoTrial,
     Tradeoff!Planned, Tradeoff!Proceed, Tradeoff!Quiet, Tradeoff!SelectRun,
     Tradeoff!Slot, Tradeoff!ledgerVars, ledgerVars
  <2>. QED BY <2>1 DEF RunStep
<1>6. CASE /\ caller[c].at = "trial"
           /\ Tradeoff!CreateTrial(c, Tradeoff!RunTrial(caller[c].slot), "attach")
           /\ UNCHANGED Tradeoff!ledgerVars
  <2>1. CreateRun(c)
    BY <1>0, <1>6 DEF Absent, AcceptsTrials, Busy, CreateRun, CreateTrial,
     Idle, Leave, NoTrial, Open, Proceed, Quiet, RunTrial, Tradeoff!Absent,
     Tradeoff!AcceptsTrials, Tradeoff!Busy, Tradeoff!CreateTrial,
     Tradeoff!Idle, Tradeoff!Leave, Tradeoff!NoTrial, Tradeoff!Open,
     Tradeoff!Proceed, Tradeoff!Quiet, Tradeoff!RunTrial,
     Tradeoff!ledgerVars, ledgerVars
  <2>. QED BY <2>1 DEF RunStep
<1>7. CASE /\ caller[c].at = "attach"
           /\ IF slot[caller[c].slot] = "PLANNED"
                THEN /\ slot' = [slot EXCEPT ![caller[c].slot] = "CREATED"]
                     /\ caller' = [caller EXCEPT ![c] = [Tradeoff!Idle EXCEPT !.at = "run_once"]]
                ELSE UNCHANGED slot /\ Tradeoff!Leave(c)
           /\ UNCHANGED <<kind, campaign, block, trial, target, overlapped, verdict,
                          ladder, passedOver>>
  <2>1. Attach(c)
    BY <1>0, <1>7 DEF Attach, Idle, NoTrial, Leave, Tradeoff!Idle, Tradeoff!NoTrial,
       Tradeoff!Leave
  <2>. QED BY <2>1 DEF RunStep
<1>8. CASE Tradeoff!Worker(c, "settle") /\ UNCHANGED Tradeoff!ledgerVars
  <2>1. Works(c)
    BY <1>0, <1>8 DEF AttemptFails, Busy, Claimable, Default, Idle,
     LeaseLost, Leave, Measured, NoTrial, Proceed, Quiet, RunOnce,
     Tradeoff!AttemptFails, Tradeoff!Busy, Tradeoff!Claimable,
     Tradeoff!Default, Tradeoff!Idle, Tradeoff!LeaseLost, Tradeoff!Leave,
     Tradeoff!Measured, Tradeoff!NoTrial, Tradeoff!Proceed, Tradeoff!Quiet,
     Tradeoff!RunOnce, Tradeoff!Worker, Tradeoff!ledgerVars, Worker, Works,
     ledgerVars
  <2>. QED BY <2>1 DEF RunStep
<1>. QED BY <1>1, <1>2, <1>3, <1>4, <1>5, <1>6, <1>7, <1>8
         DEF Tradeoff!Command, Tradeoff!ExecuteRun

(* Ladders have the same names in both modules.                            *)
LEMMA CoarseNames ==
  /\ Coarse!Ladder = 1..2
  /\ \A l : Coarse!Own(l) = Own(l)
  /\ Coarse!AtWork = AtWork
  /\ \A l : Coarse!Finalizable(l) <=> Finalizable(l)
  /\ \A l : Coarse!Outcome(l) \in {"FAILED", "COMPLETED"}
  /\ \A l : Coarse!Part(l) = Part(l)
<1>1. Coarse!Slot = Slot /\ Coarse!Second = Second /\ Coarse!Ladder = 1..2
  BY DEF Coarse!Slot, Slot, Coarse!Second, Second, Coarse!Ladder
<1>2. \A l : Coarse!Part(l) = Part(l)
  BY <1>1 DEF Coarse!Part, Part
<1>. QED BY <1>1, <1>2 DEF Coarse!Own, Own, Coarse!AtWork, AtWork, Coarse!Finalizable,
            Finalizable, Coarse!Outcome

(* The ladder a command looks at is at work, or the next one.              *)
LEMMA LeastAtWork ==
  /\ AtWork # {} => Coarse!Min(AtWork) \in AtWork
  /\ Coarse!Waiting # {} => Coarse!Min(Coarse!Waiting) \in Coarse!Waiting
<1>1. AtWork \in SUBSET Nat /\ Coarse!Waiting \in SUBSET Nat
  BY CoarseNames DEF AtWork, Coarse!Waiting
<1>2. \A S \in SUBSET Nat : S # {} => \E x \in S : \A y \in S : x <= y
  BY NatMin
<1>. QED BY <1>1, <1>2 DEF Coarse!Min

(* The choice of a ladder.                                                 *)
LEMMA SelectsLadder ==
  ASSUME NEW c \in Caller, kind = "saturation", Coarse!SelectLadder(c)
  PROVE  LadderSelects(c)
<1>. DEFINE l == IF AtWork # {} THEN Coarse!Min(AtWork) ELSE Coarse!Min(Coarse!Waiting)
            probes == Coarse!Planned(Part(l))
<1>1. /\ caller[c].at = "select"
      /\ IF AtWork \cup Coarse!Waiting = {} THEN Proceed(c, "pause")
         ELSE IF ladder[l] \in {"PLANNED", "PREPARING"}
           THEN caller' = [caller EXCEPT ![c] = [Idle EXCEPT !.at = "prepare", !.number = l]]
         ELSE IF probes # {}
           THEN caller' = [caller EXCEPT ![c] =
                  [Idle EXCEPT !.at = "drift?", !.slot = Coarse!Min(probes),
                               !.block = ladder[l]]]
         ELSE IF Finalizable(l) THEN Coarse!StartFinalize(c, l)
         ELSE Leave(c)
      /\ UNCHANGED <<kind, campaign, block, trial, target, overlapped, ledgerVars>>
  BY CoarseNames DEF Coarse!SelectLadder, Coarse!Idle, Idle, Coarse!NoTrial, NoTrial,
     Coarse!Proceed, Proceed, Coarse!Leave, Leave, Coarse!ledgerVars, ledgerVars
<1>2. UNCHANGED <<CoreRows, target, ladder>>
  BY <1>1 DEF CoreRows, ledgerVars
<1>3. CASE AtWork \cup Coarse!Waiting = {}
  BY <1>1, <1>2, <1>3, Zenon DEF LadderSelects
<1>4. CASE AtWork \cup Coarse!Waiting # {}
  <2>1. /\ l \in AtWork \/ (AtWork = {} /\ l \in Coarse!Waiting)
        /\ l \in 1..2
    BY <1>4, LeastAtWork, CoarseNames DEF AtWork, Coarse!Waiting
  <2>2. l \notin AtWork => AtWork = {} /\ ladder[l] = "PLANNED"
    BY <2>1 DEF Coarse!Waiting
  <2>. HIDE DEF l
  <2>3. CASE ladder[l] \in {"PLANNED", "PREPARING"}
    <3>1. (ladder[l] = "PLANNED" /\ AtWork = {}) \/ ladder[l] = "PREPARING"
      BY <2>1, <2>2, <2>3 DEF AtWork
    <3>2. caller' = [caller EXCEPT ![c] = [Idle EXCEPT !.at = "prepare", !.number = l]]
      BY <1>1, <1>4, <2>3
    <3>. QED BY <1>1, <1>2, <2>1, <3>1, <3>2, kind = "saturation", Zenon DEF LadderSelects
  <2>4. CASE ladder[l] \notin {"PLANNED", "PREPARING"}
    <3>1. l \in AtWork /\ ladder[l] \in {"READY", "RUNNING"}
      BY <2>2, <2>4 DEF AtWork
    <3>2. CASE probes # {}
      <4>. DEFINE s == Coarse!Min(probes)
      <4>1. probes \in SUBSET Nat /\ \A x \in probes : x \in Slot /\ slot[x] = "PLANNED"
        <5>1. Part(l) \subseteq Slot
          BY RunLedgerAssumption DEF Part, Second, Slot
        <5>2. Slot \subseteq Nat
          BY RunLedgerAssumption DEF Slot
        <5>. QED BY <5>1, <5>2 DEF Coarse!Planned
      <4>2. s \in probes
        <5>1. \E x \in probes : \A y \in probes : x <= y
          BY <3>2, <4>1, NatMin
        <5>. QED BY <5>1 DEF Coarse!Min
      <4>3. caller' = [caller EXCEPT ![c] =
              [Idle EXCEPT !.at = "drift?", !.slot = s, !.block = ladder[l]]]
        BY <1>1, <1>4, <2>4, <3>2
      <4>. HIDE DEF s, probes
      <4>. QED BY <1>1, <1>2, <2>1, <3>1, <4>1, <4>2, <4>3, kind = "saturation", Zenon
              DEF LadderSelects
    <3>3. CASE probes = {} /\ Finalizable(l)
      <4>1. ToFinalize(c, l)
        BY <1>1, <1>4, <2>4, <3>3, CoarseNames DEF Coarse!StartFinalize, ToFinalize,
           Coarse!Idle, Idle, Coarse!NoTrial, NoTrial
      <4>. QED BY <1>1, <1>2, <3>1, <3>3, <4>1, kind = "saturation", Zenon DEF LadderSelects
    <3>4. CASE probes = {} /\ ~Finalizable(l)
      BY <1>1, <1>2, <1>4, <2>4, <3>4, Zenon DEF LadderSelects
    <3>. QED BY <3>2, <3>3, <3>4
  <2>. QED BY <2>3, <2>4
<1>. QED BY <1>3, <1>4

(* Neither does phase one.                                                 *)
LEMMA CoarseSteps ==
  ASSUME NEW c \in Caller, Coarse!Command(c)
  PROVE  RunStep(c)
<1>0. kind = "saturation"
  BY DEF Coarse!Command, Coarse!FinalizeLadder,
              Coarse!PrepareLadder, Coarse!CreateProbe, Coarse!Active
<1>. USE DEF RowsVars
<1>1. CASE Coarse!CreateCampaign(c, Coarse!Ready)
  <2>1. Create(c)
    BY <1>0, <1>1 DEF Busy, Coarse!Busy, Coarse!CreateCampaign,
     Coarse!Default, Coarse!Idle, Coarse!Leave, Coarse!NoTrial, Coarse!Open,
     Coarse!OpenCampaign, Coarse!Proceed, Coarse!Quiet, Coarse!Ready,
     Coarse!ledgerVars, Create, CreateCampaign, Default, Idle, Leave,
     NoTrial, Open, OpenCampaign, Proceed, Quiet, ledgerVars
  <2>. QED BY <2>1 DEF RunStep
<1>2. CASE Coarse!InsertPlan(c)
  <2>1. Insert(c)
    BY <1>0, <1>2 DEF Busy, Coarse!Busy, Coarse!Idle, Coarse!InsertPlan,
     Coarse!InsertRuns, Coarse!Leave, Coarse!NoTrial, Coarse!Proceed,
     Coarse!Quiet, Coarse!Slot, Coarse!ledgerVars, Idle, Insert, InsertRuns,
     Leave, NoTrial, Proceed, Quiet, Slot, Staged, ledgerVars
  <2>. QED BY <2>1 DEF RunStep
<1>3. CASE Coarse!RunNext(c)
  <2>1. StartRun(c)
    BY <1>0, <1>3 DEF Begin, Busy, Coarse!Begin, Coarse!Busy, Coarse!Enter,
     Coarse!Idle, Coarse!Leave, Coarse!NoTrial, Coarse!Proceed,
     Coarse!Quiet, Coarse!RunNext, Coarse!ledgerVars, Enter, Idle, Leave,
     NoTrial, Proceed, Quiet, StartRun, ledgerVars
  <2>. QED BY <2>1 DEF RunStep
<1>4. CASE Coarse!Reconcile(c)
  <2>1. LadderReconciles(c)
    BY <1>0, <1>4 DEF Busy, Coarse!Busy, Coarse!Ended, Coarse!Failures,
     Coarse!Filed, Coarse!Idle, Coarse!InFlight, Coarse!Leave, Coarse!Min,
     Coarse!NoTrial, Coarse!Pending, Coarse!Proceed, Coarse!Quiet,
     Coarse!Reconcile, Coarse!ReconcileRun, Coarse!RunTrial, Coarse!Settled,
     Coarse!Slot, Coarse!ledgerVars, Ended, Failures, Filed, Idle, InFlight,
     LadderReconciles, Leave, Min, NoTrial, Pending, Proceed, Quiet,
     ReconcileRun, RunTrial, Settled, Slot, ledgerVars
  <2>. QED BY <2>1 DEF RunStep
<1>5. CASE Coarse!FinalizeFirst(c)
  <2>1. AsksToFinalize(c)
    BY <1>0, <1>5, CoarseNames, LeastAtWork, Zenon DEF AsksToFinalize, Busy,
     Coarse!Busy, Coarse!FinalizeFirst, Coarse!Idle, Coarse!Leave,
     Coarse!NoTrial, Coarse!Proceed, Coarse!Quiet, Coarse!StartFinalize,
     Coarse!ledgerVars, CoreRows, Idle, Leave, NoTrial, Proceed, Quiet,
     ToFinalize, ledgerVars
  <2>. QED BY <2>1 DEF RunStep
<1>6. CASE Coarse!FinalizeLadder(c) /\ caller[c].at = "rollback"
  <2>1. RollsBack(c)
    BY <1>0, <1>6 DEF Busy, Coarse!Busy, Coarse!Default,
     Coarse!FinalizeLadder, Coarse!Idle, Coarse!Leave, Coarse!NoTrial,
     Coarse!Proceed, Coarse!Quiet, Coarse!ledgerVars, CoreRows, Default,
     Idle, Leave, NoTrial, Proceed, Quiet, RollsBack, ledgerVars
  <2>. QED BY <2>1 DEF RunStep
<1>7. CASE Coarse!FinalizeLadder(c) /\ caller[c].at = "finalize"
  <2>1. Finalizes(c)
    BY <1>0, <1>7 DEF Busy, Coarse!Busy, Coarse!FinalizeLadder, Coarse!Idle,
     Coarse!Leave, Coarse!NoTrial, Coarse!Proceed, Coarse!Quiet,
     Coarse!ledgerVars, CoreRows, Finalizes, Idle, Leave, NoTrial, Proceed,
     Quiet, ledgerVars
  <2>. QED BY <2>1 DEF RunStep
<1>8. CASE Coarse!SelectLadder(c)
  <2>1. LadderSelects(c)
    BY <1>0, <1>8, SelectsLadder
  <2>. QED BY <2>1 DEF RunStep
<1>9. CASE Coarse!PrepareLadder(c) /\ caller[c].at = "prepare"
  <2>1. Prepares(c)
    BY <1>0, <1>9 DEF Busy, Coarse!Busy, Coarse!Idle, Coarse!Leave,
     Coarse!NoTrial, Coarse!PrepareLadder, Coarse!Proceed, Coarse!Quiet,
     Coarse!ledgerVars, CoreRows, Idle, Leave, NoTrial, Prepares, Proceed,
     Quiet, ledgerVars
  <2>. QED BY <2>1 DEF RunStep
<1>10. CASE Coarse!PrepareLadder(c) /\ caller[c].at = "apply"
  <2>1. Applies(c)
    BY <1>0, <1>10 DEF Applies, Busy, Coarse!Busy, Coarse!Idle,
     Coarse!Leave, Coarse!NoTrial, Coarse!Own, Coarse!PrepareLadder,
     Coarse!Proceed, Coarse!Quiet, Coarse!ledgerVars, CoreRows, Idle, Leave,
     NoTrial, Own, Proceed, Quiet, ledgerVars
  <2>. QED BY <2>1 DEF RunStep
<1>11. CASE Coarse!PrepareLadder(c) /\ caller[c].at = "ready"
  <2>1. Readies(c)
    BY <1>0, <1>11 DEF Busy, Coarse!Busy, Coarse!Idle, Coarse!Leave,
     Coarse!NoTrial, Coarse!PrepareLadder, Coarse!Proceed, Coarse!Quiet,
     Coarse!ledgerVars, CoreRows, Idle, Leave, NoTrial, Proceed, Quiet,
     Readies, ledgerVars
  <2>. QED BY <2>1 DEF RunStep
<1>12. CASE Coarse!CreateProbe(c) /\ caller[c].at = "drift?"
  <2>1. ChecksDrift(c)
    BY <1>0, <1>12 DEF Busy, ChecksDrift, Coarse!Busy, Coarse!CreateProbe,
     Coarse!Idle, Coarse!Leave, Coarse!NoTrial, Coarse!Own, Coarse!PartOf,
     Coarse!Proceed, Coarse!Quiet, Coarse!ledgerVars, CoreRows, Idle, Leave,
     NoTrial, Own, PartOf, Proceed, Quiet, ledgerVars
  <2>. QED BY <2>1 DEF RunStep
<1>13. CASE Coarse!CreateProbe(c) /\ caller[c].at = "probe"
  <2>1. CreateProbe(c)
    BY <1>0, <1>13 DEF Absent, Busy, Coarse!Absent, Coarse!Busy,
     Coarse!CreateProbe, Coarse!Idle, Coarse!Leave, Coarse!NoTrial,
     Coarse!PartOf, Coarse!Proceed, Coarse!Quiet, Coarse!RunTrial,
     Coarse!ledgerVars, CreateProbe, Idle, Leave, NoTrial, PartOf, Proceed,
     Quiet, RunTrial, ledgerVars
  <2>. QED BY <2>1 DEF RunStep
<1>14. CASE Coarse!Probed(c)
  <2>1. Probed(c)
    BY <1>0, <1>14 DEF Busy, Coarse!Busy, Coarse!Idle, Coarse!Leave,
     Coarse!NoTrial, Coarse!Probed, Coarse!Proceed, Coarse!Quiet,
     Coarse!ledgerVars, Idle, Leave, NoTrial, Probed, Proceed, Quiet,
     ledgerVars
  <2>. QED BY <2>1 DEF RunStep
<1>15. CASE Coarse!ExecuteProbe(c) /\ ~ Coarse!Probed(c)
  <2>1. Works(c)
    BY <1>0, <1>15 DEF AttemptFails, Busy, Claimable, Coarse!AttemptFails,
     Coarse!Busy, Coarse!Claimable, Coarse!Default, Coarse!ExecuteProbe,
     Coarse!Idle, Coarse!LeaseLost, Coarse!Leave, Coarse!NoTrial,
     Coarse!Proceed, Coarse!Quiet, Coarse!RunOnce, Coarse!ledgerVars,
     Default, Idle, LeaseLost, Leave, NoTrial, Proceed, Quiet, RunOnce,
     Works, ledgerVars
  <2>. QED BY <2>1 DEF RunStep
<1>. QED BY <1>1, <1>2, <1>3, <1>4, <1>5, <1>6, <1>7, <1>8, <1>9, <1>10,
     <1>11, <1>12, <1>13, <1>14, <1>15
         DEF Coarse!Command, Coarse!FinalizeLadder,
              Coarse!PrepareLadder, Coarse!CreateProbe

(* Restores are the same in both stages that make them.                    *)
LEMMA RecoveryRestores ==
  ASSUME NEW c \in Caller, Recovery!Restoration(c)
  PROVE  RestoreStep(c) \/ NewSeries \/ NewRemediation
<1>0. kind = "recovery"
  BY DEF Recovery!Restoration, Recovery!Active
<1>1. CASE Recovery!PlanRemediation
  <2>1. NewRemediation
    BY <1>0, <1>1 DEF Recovery!PlanRemediation, NewRemediation, PlanRemediation,
       Recovery!Idling, Idling, Recovery!Quiet, Quiet, Recovery!Busy, Busy, Recovery!Open,
       Open, Recovery!coreVars, coreVars, Recovery!ledgerVars, ledgerVars
  <2>. QED BY <2>1
<1>2. CASE Recovery!ClaimRemediation(c)
  <2>1. ClaimRemediation(c)
    BY <1>2 DEF Recovery!ClaimRemediation, ClaimRemediation, Recovery!Enter, Enter,
       Recovery!Quiet, Quiet, Recovery!Busy, Busy, Recovery!Idle, Idle, Recovery!NoTrial,
       NoTrial, Recovery!ledgerVars, ledgerVars
  <2>. QED BY <1>0, <2>1 DEF RestoreStep
<1>3. CASE Recovery!Rebuild(c)
  <2>1. Rebuild(c)
    BY <1>3 DEF Recovery!Rebuild, Rebuild, Recovery!Leave, Leave, Recovery!Idle, Idle,
       Recovery!NoTrial, NoTrial, Recovery!ledgerVars, ledgerVars
  <2>. QED BY <1>0, <2>1 DEF RestoreStep
<1>4. CASE Recovery!CreateStability
  <2>1. NewSeries
    BY <1>0, <1>4 DEF Recovery!CreateStability, NewSeries, Recovery!PlanSeries, PlanSeries,
       Recovery!Idling, Idling, Recovery!Quiet, Quiet, Recovery!Busy, Busy, Recovery!Open,
       Open, Recovery!coreVars, coreVars, Recovery!ledgerVars, ledgerVars, Recovery!Rep, Rep
  <2>. QED BY <2>1
<1>5. CASE Recovery!Repetition(c)
  <2>1. Repetition(c)
    BY <1>5 DEF Recovery!Repetition, Repetition, Recovery!BeginRepetition,
       BeginRepetition, Recovery!ClaimRepetition, ClaimRepetition,
       Recovery!CountPassed, CountPassed, Recovery!CommitPassed, CommitPassed,
       Recovery!RepetitionFails, RepetitionFails, Recovery!Enter, Enter,
       Recovery!Quiet, Quiet, Recovery!Busy, Busy, Recovery!Idle, Idle,
       Recovery!NoTrial, NoTrial, Recovery!Leave, Leave, Recovery!ledgerVars,
       ledgerVars, Recovery!restoreVars, restoreVars, Recovery!Rep, Rep,
       Recovery!Min, Min
  <2>. QED BY <1>0, <2>1 DEF RestoreStep
<1>. QED BY <1>1, <1>2, <1>3, <1>4, <1>5 DEF Recovery!Restoration

(* The soak's restores are the same transactions.                          *)
LEMMA SoakRestores ==
  /\ \A c \in Caller : Soak!RunSoakNext(c) => RestoreStep(c)
  /\ Soak!CreateSoak => NewSeries
<1>1. ASSUME NEW c \in Caller, Soak!RunSoakNext(c) PROVE RestoreStep(c)
  <2>0. kind = "soak" /\ Soak!Repetition(c)
    BY <1>1 DEF Soak!RunSoakNext, Soak!Active
  <2>1. Repetition(c)
    BY <2>0 DEF Soak!Repetition, Repetition, Soak!BeginRepetition, BeginRepetition,
       Soak!ClaimRepetition, ClaimRepetition, Soak!CountPassed, CountPassed,
       Soak!CommitPassed, CommitPassed, Soak!RepetitionFails, RepetitionFails,
       Soak!Enter, Enter, Soak!Quiet, Quiet, Soak!Busy, Busy, Soak!Idle, Idle,
       Soak!NoTrial, NoTrial, Soak!Leave, Leave, Soak!ledgerVars, ledgerVars,
       Soak!restoreVars, restoreVars, Soak!Rep, Rep, Soak!Min, Min
  <2>. QED BY <2>0, <2>1 DEF RestoreStep
<1>2. ASSUME Soak!CreateSoak PROVE NewSeries
  BY <1>2 DEF Soak!CreateSoak, Soak!Active, NewSeries, Soak!PlanSeries, PlanSeries,
     Soak!Idling, Idling, Soak!Quiet, Quiet, Soak!Busy, Busy, Soak!Open,
     Open, Soak!coreVars, coreVars, Soak!ledgerVars, ledgerVars, Soak!Rep, Rep
<1>. QED BY <1>1, <1>2

(* What the system may do next, said once for all stages.                  *)
LEMMA Steps ==
  ASSUME [Next]_stageVars
  PROVE  \/ UNCHANGED stageVars
         \/ Operator \/ NewSeries \/ NewRemediation
         \/ \E c \in Caller : \/ RunStep(c) /\ UNCHANGED restoreVars
                              \/ RestoreStep(c) \/ Leaving(c)
<1>1. ASSUME NEW c \in Caller,
              \/ Screen!Command(c) /\ UNCHANGED restoreVars
              \/ Reference!Command(c) /\ UNCHANGED restoreVars
              \/ Warmup!Command(c) /\ UNCHANGED restoreVars
              \/ Tradeoff!Command(c) /\ UNCHANGED restoreVars
              \/ Coarse!Command(c) /\ UNCHANGED restoreVars
              \/ Recovery!Campaign(c)
      PROVE  RunStep(c) /\ UNCHANGED restoreVars
  <2>1. Recovery!Campaign(c) => UNCHANGED restoreVars
    BY DEF Recovery!Campaign, Recovery!restoreVars, restoreVars
  <2>. QED BY <1>1, <2>1, ScreeningSteps, ReferenceSteps, WarmupSteps, TradeoffSteps,
              CoarseSteps, RecoverySteps
<1>2. ASSUME NEW c \in Caller, Recovery!Restoration(c)
      PROVE  RestoreStep(c) \/ NewSeries \/ NewRemediation
  BY <1>2, RecoveryRestores
<1>. QED BY <1>1, <1>2, SoakRestores, Zenon DEF Next
-----------------------------------------------------------------------------
(***************************************************************************)
(* Types.  A command has what its position needs.                          *)
(***************************************************************************)
LocalType ==
  [at: Positions, seen: CampaignStatus, block: BlockStatus \cup {"READY", "RUNNING"},
   open: BOOLEAN, slot: Slot \cup {0}, number: Rep \cup {0} \cup (1..2),
   given: SUBSET Rep, trial: TrialId \cup {NoTrial}]

OnRun == {"trial", "attach", "drift?", "probe"}
OnLadder == {"rollback", "finalize", "prepare", "apply", "ready"}

LocalOK(l) ==
  /\ l \in LocalType
  /\ l.at \in OnRun => l.slot \in Slot
  /\ l.at = "measure" => l.trial \in TrialId
  /\ l.at \in {"validate", "pass"} => l.number \in Rep
  /\ l.at \in OnLadder => l.number \in 1..2
  /\ l.at \in {"rollback", "finalize"} => l.block \in {"COMPLETED", "FAILED"}
  /\ l.at = "start" => l.block \in {Plan1, Plan2}

CallerOK ==
  /\ caller \in [Caller -> LocalType]
  /\ \A c \in Caller : LocalOK(caller[c])

(* Where a step takes the command that makes it, and what it remembers     *)
(* there; m is the caller after the step.                                  *)
Arrives(c, m) ==
  LET l == caller[c] IN
  /\ m.at = "ledger" => Create(c)
  /\ m.at = "reconcile" => StartRun(c) /\ m.block = block /\ m.seen = campaign.status
  /\ m.at = "start" =>
       /\ StageReconciles(c) /\ m.block = l.block /\ m.block \in {Plan1, Plan2}
       /\ m.open = Pending /\ Filed \notin Failures
  /\ m.at = "select" =>
       \/ /\ StageReconciles(c) /\ m.block = l.block /\ m.block \in {Run1, Run2}
          /\ ~Pending /\ Filed \notin Failures
       \/ StageStarts(c) /\ ~l.open /\ m.block = Starts[l.block]
       \/ ProbeReconciles(c) /\ ~Pending /\ Filed \notin Failures
       \/ AsksToFinalize(c) /\ ~l.open
  /\ m.at = "trial" =>
       /\ StageSelects(c) \/ ProbeSelects(c)
       /\ l.at = "select" /\ m.slot \in Slot /\ slot[m.slot] = "PLANNED"
  /\ m.at = "attach" => CreateRun(c) /\ AcceptsTrials /\ m.slot = l.slot /\ m.slot \in Slot
  /\ m.at = "measure" =>
       /\ Works(c) /\ l.at = "run_once" /\ m.trial \in Claimable
       /\ trial' = [trial EXCEPT ![m.trial] = [state |-> "RUNNING", tries |-> @.tries + 1]]
  /\ m.at = "fail" => (StageReconciles(c) \/ StageSettles(c)) /\ Filed \in Fatal
  /\ m.at = "analyze" => Load(c) /\ m.block = block
  /\ m.at = "freeze" => Freeze(c)
  /\ m.at = "finalize?" => LadderReconciles(c) /\ m.open = Pending
  /\ m.at = "rollback" =>
       /\ AsksToFinalize(c) \/ LadderSelects(c)
       /\ m.number \in AtWork /\ Finalizable(m.number) /\ m.block \in {"COMPLETED", "FAILED"}
  /\ m.at = "finalize" => RollsBack(c) /\ m.number = l.number /\ m.block = l.block
  /\ m.at = "prepare" =>
       /\ LadderSelects(c) /\ m.number \in 1..2
       /\ \/ ladder[m.number] = "PLANNED" /\ AtWork = {}
          \/ ladder[m.number] = "PREPARING"
  /\ m.at = "apply" => Prepares(c) /\ m.number = l.number
  /\ m.at = "ready" => Applies(c) /\ m.number = l.number
  /\ m.at = "drift?" => LadderSelects(c) /\ m.slot \in Slot /\ slot[m.slot] = "PLANNED"
  /\ m.at = "probe" => ChecksDrift(c) /\ m.slot = l.slot
  /\ m.at = "claim" => BeginRepetition(c)
  /\ m.at = "validate" =>
       /\ ClaimRepetition(c) /\ m.number \in Rep /\ rep[m.number] = "PLANNED"
       /\ rep' = [rep EXCEPT ![m.number] = "RUNNING"]
  /\ m.at = "pass" =>
       /\ CountPassed(c) /\ m.number = l.number
       /\ m.given = {r \in Rep : rep[r] = "PASSED"} \cup {l.number}
  /\ m.at = "rebuild" => ClaimRemediation(c)

(* What the assumptions say about runs and their trials.                   *)
LEMMA RunNumbers ==
  /\ Slot \subseteq Nat \ {0} /\ First \subseteq Slot /\ Second \subseteq Slot
  /\ \A s \in Slot : s \in First \/ s \in Second
  /\ \A s \in Slot : RunTrial(s) \in TrialId
  /\ \A t \in TrialId : \E s \in Slot : t = RunTrial(s)
  /\ \A s, r \in Slot : RunTrial(s) = RunTrial(r) => s = r
  /\ NoTrial \notin TrialId
  /\ \A l \in 1..2 : Own(l) \notin TrialId /\ Own(l) # Default
BY RunLedgerAssumption, StageAssumption
   DEF Slot, Second, RunTrial, NoTrial, Own, Default

(* The names of the block statuses of a stage.                             *)
LEMMA BlockNames ==
  /\ {Plan1, Run1, Done1, Plan2, Run2, Done2} \subseteq BlockStatus
  /\ Plan1 # Plan2
  /\ Starts[Plan1] = Run1 /\ Starts[Plan2] = Run2 /\ DOMAIN Starts = {Plan1, Plan2}
  /\ {Run1, Run2} \cap {Plan1, Plan2} = {}
BY DEF Plan1, Run1, Done1, Plan2, Run2, Done2, BlockStatus, Starts

(* A command that has left.                                                *)
LEMMA IdleLocal == Idle \in LocalType /\ Idle.at = "idle"
BY DEF Idle, LocalType, Positions, CampaignStatus, BlockStatus

(* What a command that has just started remembers.                         *)
LEMMA FreshFields ==
  /\ "NONE" \in CampaignStatus /\ "NONE" \in BlockStatus
  /\ NoTrial \in TrialId \cup {NoTrial} /\ {} \in SUBSET Rep
  /\ 0 \in Slot \cup {0} /\ 0 \in Rep \cup {0} \cup (1..2)
BY DEF CampaignStatus, BlockStatus
(* A command comes to one of its positions with what that one needs.       *)
Moves(c) ==
  \E m : /\ caller' = [caller EXCEPT ![c] = m]
         /\ LocalOK(m) /\ Arrives(c, m)

Rows ==
  /\ kind \in Kind
  /\ campaign \in [status: CampaignStatus, emergency: BOOLEAN, failures: Nat]
  /\ block \in BlockStatus
  /\ trial \in [TrialId -> [state: TrialState, tries: 0..MaxTries[kind]]]
  /\ target \in TrialId \cup {Default} \cup {Own(l) : l \in 1..2}
  /\ overlapped \in BOOLEAN /\ passedOver \in BOOLEAN
  /\ slot \in [Slot -> SlotStatus]
  /\ verdict \in [1..2 -> {"NONE", "MORE", "PASSED", "BLOCKED"}]
  /\ ladder \in [1..2 -> {"PLANNED", "PREPARING", "READY", "RUNNING", "COMPLETED", "FAILED"}]
  /\ remediation \in RestoreStatus /\ validation \in RestoreStatus
  /\ rep \in [Rep -> RestoreStatus] /\ supersedes \in BOOLEAN

Types == Rows /\ CallerOK

(* These positions need nothing.                                           *)
Plain == {"idle", "run_once", "settle", "pause", "stop"}

(* So nothing is asked of a command that leaves, or goes to one of them.   *)
LEMMA PlainMoves ==
  ASSUME CallerOK, NEW c \in Caller
  PROVE  /\ \A m \in LocalType :
              m.at \in Plain /\ caller' = [caller EXCEPT ![c] = m] => Moves(c)
         /\ Leave(c) => Moves(c)
         /\ \A a \in Plain : Proceed(c, a) => Moves(c)
<1>1. ASSUME NEW m \in LocalType, m.at \in Plain, caller' = [caller EXCEPT ![c] = m]
      PROVE  Moves(c)
  <2>1. LocalOK(m)
    BY <1>1 DEF LocalOK, Plain, OnRun, OnLadder
  <2>2. Arrives(c, m)
    BY <1>1 DEF Arrives, Plain
  <2>. QED BY <1>1, <2>1, <2>2 DEF Moves
<1>2. Leave(c) => Moves(c)
  BY <1>1, IdleLocal DEF Leave, Plain
<1>3. ASSUME NEW a \in Plain, Proceed(c, a)
      PROVE  Moves(c)
  <2>1. caller[c] \in LocalType /\ a \in Positions
    BY DEF CallerOK, Plain, Positions
  <2>2. PICK m : m = [caller[c] EXCEPT !.at = a]
    OBVIOUS
  <2>3. m \in LocalType /\ m.at = a
    BY <2>1, <2>2 DEF LocalType
  <2>4. caller' = [caller EXCEPT ![c] = m]
    BY <1>3, <2>2 DEF Proceed
  <2>. QED BY <1>1, <2>3, <2>4
<1>. QED BY <1>1, <1>2, <1>3

(* How a command goes on with the same record, at another position.        *)
LEMMA ProceedRecord ==
  ASSUME CallerOK, NEW c \in Caller, NEW a \in Positions, Proceed(c, a)
  PROVE  \E m \in LocalType :
           /\ caller' = [caller EXCEPT ![c] = m]
           /\ m.at = a /\ m.slot = caller[c].slot /\ m.number = caller[c].number
           /\ m.block = caller[c].block
<1>1. caller[c] \in LocalType
  BY DEF CallerOK
<1>2. PICK m : m = [caller[c] EXCEPT !.at = a]
  OBVIOUS
<1>3. /\ m \in LocalType
      /\ m.at = a /\ m.slot = caller[c].slot /\ m.number = caller[c].number
      /\ m.block = caller[c].block
  BY <1>1, <1>2 DEF LocalType
<1>4. caller' = [caller EXCEPT ![c] = m]
  BY <1>2 DEF Proceed
<1>. QED BY <1>3, <1>4

(* The first run that is planned, if there is one.                         *)
LEMMA LeastPlanned ==
  ASSUME NEW runs \in SUBSET Slot, Planned(runs) # {}
  PROVE  /\ Min(Planned(runs)) \in Slot
         /\ slot[Min(Planned(runs))] = "PLANNED"
<1>1. Planned(runs) \in SUBSET Nat /\ \A s \in Planned(runs) : s \in Slot /\ slot[s] = "PLANNED"
  BY RunNumbers DEF Planned
<1>2. Min(Planned(runs)) \in Planned(runs)
  BY <1>1, LeastOf
<1>. QED BY <1>1, <1>2

(* What a command of the staged campaigns leaves in its caller.            *)
LEMMA StagedMoves ==
  ASSUME Types, NEW c \in Caller,
         \/ StageReconciles(c) \/ StageSettles(c) \/ StageFails(c) \/ StageStarts(c)
         \/ StageSelects(c)
  PROVE  Moves(c)
<1>0. CallerOK /\ caller[c] \in LocalType /\ LocalOK(caller[c])
  BY DEF Types, CallerOK
<1>1. ASSUME NEW m, caller' = [caller EXCEPT ![c] = m], LocalOK(m), Arrives(c, m)
      PROVE  Moves(c)
  BY <1>1 DEF Moves
<1>2. CASE StageReconciles(c)
  <2>. DEFINE l == caller[c]
              next == IF l.block \in DOMAIN Starts THEN "start"
                      ELSE IF Pending THEN "run_once" ELSE "select"
              ready == /\ l.seen = "RUNNING"
                       /\ l.block \in DOMAIN Starts \cup {Starts[b] : b \in DOMAIN Starts}
  <2>0. Fatal \subseteq Failures /\ Pending \in BOOLEAN
    BY DEF Fatal, Failures, Ended, Pending
  <2>1. CASE Filed \in Fatal
    <3>1. PICK m : m = [Idle EXCEPT !.at = "fail"]
      OBVIOUS
    <3>a. "fail" \in Positions
      BY DEF Positions
    <3>2. m \in LocalType /\ m.at = "fail"
      BY <3>a, <3>1, FreshFields DEF Idle, LocalType
    <3>3. caller' = [caller EXCEPT ![c] = m]
      BY <1>2, <2>0, <2>1, <3>1 DEF StageReconciles, ReconcileFirst
    <3>4. LocalOK(m) /\ Arrives(c, m)
      BY <1>2, <2>1, <3>2 DEF LocalOK, Arrives, OnRun, OnLadder
    <3>. QED BY <1>1, <3>3, <3>4
  <2>2. CASE Filed \notin Failures /\ ready
    <3>0. caller' = [caller EXCEPT ![c] =
            [Idle EXCEPT !.at = next, !.open = Pending, !.block = l.block]]
      BY <1>2, <2>0, <2>2 DEF StageReconciles, ReconcileFirst
    <3>. HIDE DEF next, ready
    <3>1. PICK m : m = [Idle EXCEPT !.at = next, !.open = Pending, !.block = l.block]
      OBVIOUS
    <3>2. next \in Positions
      BY DEF next, Positions
    <3>3. l.block \in BlockStatus \cup {"READY", "RUNNING"}
      BY <1>0 DEF LocalType
    <3>4. m \in LocalType /\ m.at = next /\ m.open = Pending /\ m.block = l.block
      BY <2>0, <3>1, <3>2, <3>3, FreshFields DEF Idle, LocalType
    <3>5. caller' = [caller EXCEPT ![c] = m]
      BY <3>0, <3>1
    <3>6. /\ next = "start" => l.block \in {Plan1, Plan2}
          /\ next = "select" => ~Pending /\ l.block \in {Run1, Run2}
          /\ next \in {"start", "run_once", "select"}
      BY <2>2, BlockNames DEF next, ready
    <3>7. LocalOK(m)
      BY <3>4, <3>6 DEF LocalOK, OnRun, OnLadder
    <3>8. Arrives(c, m)
      BY <1>2, <2>2, <3>4, <3>6 DEF Arrives
    <3>. QED BY <1>1, <3>5, <3>7, <3>8
  <2>3. CASE Filed \notin Fatal /\ ~(Filed \notin Failures /\ ready)
    <3>1. Leave(c)
      BY <1>2, <2>3 DEF StageReconciles, ReconcileFirst, Leave
    <3>. QED BY <1>0, <3>1, PlainMoves
  <2>. QED BY <2>0, <2>1, <2>2, <2>3
<1>3. CASE StageSettles(c)
  <2>1. CASE Filed \in Fatal
    <3>1. "fail" \in Positions /\ Proceed(c, "fail")
      BY <1>3, <2>1 DEF StageSettles, ReconcileLast, Positions
    <3>2. PICK m \in LocalType : caller' = [caller EXCEPT ![c] = m] /\ m.at = "fail"
      BY <1>0, <3>1, ProceedRecord
    <3>3. LocalOK(m) /\ Arrives(c, m)
      BY <1>3, <2>1, <3>2 DEF LocalOK, Arrives, OnRun, OnLadder
    <3>. QED BY <1>1, <3>2, <3>3
  <2>. QED BY <1>0, <1>3, <2>1, PlainMoves DEF StageSettles, ReconcileLast
<1>4. CASE StageFails(c)
  BY <1>0, <1>4, PlainMoves DEF StageFails, FailBlock, Plain
<1>5. CASE StageStarts(c)
  <2>. DEFINE l == caller[c]
              a == IF l.open THEN "run_once" ELSE "select"
  <2>1. l.block \in {Plan1, Plan2} /\ l.open \in BOOLEAN
    BY <1>0, <1>5 DEF StageStarts, StartBlock, LocalOK, LocalType
  <2>2. PICK b : b = Starts[l.block]
    OBVIOUS
  <2>3. b \in BlockStatus /\ b \in {Run1, Run2}
    BY <2>1, <2>2, BlockNames
  <2>4. caller' = [caller EXCEPT ![c] = [l EXCEPT !.at = a, !.block = b]]
    BY <1>5, <2>2 DEF StageStarts, StartBlock
  <2>. HIDE DEF a
  <2>5. a \in {"run_once", "select"} /\ a \in Positions
    BY DEF a, Positions
  <2>6. PICK m : m = [l EXCEPT !.at = a, !.block = b]
    OBVIOUS
  <2>7. m \in LocalType /\ m.at = a /\ m.block = b
    BY <1>0, <2>3, <2>5, <2>6 DEF LocalType
  <2>8. LocalOK(m)
    BY <2>5, <2>7 DEF LocalOK, OnRun, OnLadder
  <2>9. a = "select" => ~l.open
    BY DEF a
  <2>10. Arrives(c, m)
    BY <1>5, <2>2, <2>5, <2>7, <2>9 DEF Arrives
  <2>. QED BY <1>1, <2>4, <2>6, <2>8, <2>10
<1>6. CASE StageSelects(c)
  <2>. DEFINE runs == IF caller[c].block = Run1 THEN First ELSE Second
  <2>1. CASE ChooseRun(c, runs)
    <3>1. runs \in SUBSET Slot /\ Planned(runs) # {}
      BY <2>1, RunNumbers DEF ChooseRun
    <3>2. PICK s : s = Min(Planned(runs))
      OBVIOUS
    <3>3. s \in Slot /\ slot[s] = "PLANNED"
      BY <3>1, <3>2, LeastPlanned
    <3>4. caller' = [caller EXCEPT ![c] = [Idle EXCEPT !.at = "trial", !.slot = s]]
          /\ caller[c].at = "select"
      BY <2>1, <3>2 DEF ChooseRun
    <3>5. PICK m : m = [Idle EXCEPT !.at = "trial", !.slot = s]
      OBVIOUS
    <3>a. "trial" \in Positions
      BY DEF Positions
    <3>6. m \in LocalType /\ m.at = "trial" /\ m.slot = s
      BY <3>a, <3>3, <3>5, FreshFields DEF Idle, LocalType
    <3>7. LocalOK(m) /\ Arrives(c, m)
      BY <1>6, <3>3, <3>4, <3>6 DEF LocalOK, Arrives, OnRun, OnLadder
    <3>. QED BY <1>1, <3>4, <3>5, <3>7
  <2>2. CASE ~ChooseRun(c, runs)
    <3>1. Proceed(c, "pause")
      BY <1>6, <2>2 DEF StageSelects, CompletePart
    <3>. QED BY <1>0, <3>1, PlainMoves DEF Plain
  <2>. QED BY <2>1, <2>2
<1>. QED BY <1>2, <1>3, <1>4, <1>5, <1>6
(* What the executing of a run leaves there.                               *)
LEMMA ExecutingMoves ==
  ASSUME Types, NEW c \in Caller,
         \/ Create(c) \/ Insert(c) \/ StartRun(c) \/ CreateRun(c) \/ Attach(c) \/ Works(c)
         \/ Probed(c)
  PROVE  Moves(c)
<1>0. CallerOK /\ caller[c] \in LocalType /\ LocalOK(caller[c])
  BY DEF Types, CallerOK
<1>1. ASSUME NEW m, caller' = [caller EXCEPT ![c] = m], LocalOK(m), Arrives(c, m)
      PROVE  Moves(c)
  BY <1>1 DEF Moves
<1>2. CASE Create(c)
  <2>1. "ledger" \in Positions /\ Proceed(c, "ledger")
    BY <1>2 DEF Create, CreateCampaign, OpenCampaign, Positions
  <2>2. PICK m \in LocalType : caller' = [caller EXCEPT ![c] = m] /\ m.at = "ledger"
    BY <1>0, <2>1, ProceedRecord
  <2>3. LocalOK(m) /\ Arrives(c, m)
    BY <1>2, <2>2 DEF LocalOK, Arrives, OnRun, OnLadder
  <2>. QED BY <1>1, <2>2, <2>3
<1>3. CASE Insert(c)
  BY <1>0, <1>3, PlainMoves DEF Insert, InsertRuns
<1>4. CASE StartRun(c)
  <2>1. PICK v : v = campaign.status
    OBVIOUS
  <2>2. PICK m : m = [Idle EXCEPT !.at = "reconcile", !.seen = v, !.block = block]
    OBVIOUS
  <2>3. v \in CampaignStatus /\ block \in BlockStatus /\ "reconcile" \in Positions
    BY <2>1 DEF Types, Rows, Positions
  <2>4. m \in LocalType /\ m.at = "reconcile" /\ m.seen = v /\ m.block = block
    BY <2>2, <2>3, FreshFields DEF Idle, LocalType
  <2>5. caller' = [caller EXCEPT ![c] = m]
    BY <1>4, <2>1, <2>2 DEF StartRun, Begin, Enter
  <2>6. LocalOK(m) /\ Arrives(c, m)
    BY <1>4, <2>1, <2>4 DEF LocalOK, Arrives, OnRun, OnLadder
  <2>. QED BY <1>1, <2>5, <2>6
<1>5. CASE CreateRun(c)
  <2>1. CASE AcceptsTrials
    <3>1. "attach" \in Positions /\ Proceed(c, "attach")
      BY <1>5, <2>1 DEF CreateRun, CreateTrial, Positions
    <3>2. PICK m \in LocalType : /\ caller' = [caller EXCEPT ![c] = m]
                                 /\ m.at = "attach" /\ m.slot = caller[c].slot
      BY <1>0, <3>1, ProceedRecord
    <3>3. caller[c].slot \in Slot
      BY <1>0, <1>5 DEF CreateRun, LocalOK, OnRun
    <3>4. LocalOK(m) /\ Arrives(c, m)
      BY <1>5, <2>1, <3>2, <3>3 DEF LocalOK, Arrives, OnRun, OnLadder
    <3>. QED BY <1>1, <3>2, <3>4
  <2>. QED BY <1>0, <1>5, <2>1, PlainMoves DEF CreateRun, CreateTrial
<1>6. CASE Attach(c)
  <2>1. CASE Leave(c)
    BY <1>0, <2>1, PlainMoves
  <2>2. CASE ~Leave(c)
    <3>1. PICK m : m = [Idle EXCEPT !.at = "run_once"]
      OBVIOUS
    <3>2. "run_once" \in Positions
      BY DEF Positions
    <3>3. m \in LocalType /\ m.at \in Plain
      BY <3>1, <3>2, FreshFields DEF Idle, LocalType, Plain
    <3>4. caller' = [caller EXCEPT ![c] = m]
      BY <1>6, <2>2, <3>1 DEF Attach
    <3>. QED BY <1>0, <3>3, <3>4, PlainMoves
  <2>. QED BY <2>1, <2>2
<1>7. CASE Works(c)
  <2>1. CASE RunOnce(c, "settle")
    <3>1. CASE Proceed(c, "settle")
      BY <1>0, <3>1, PlainMoves DEF Plain
    <3>2. CASE ~Proceed(c, "settle")
      <4>1. PICK t \in Claimable :
              /\ trial' = [trial EXCEPT ![t] = [state |-> "RUNNING", tries |-> @.tries + 1]]
              /\ caller' = [caller EXCEPT ![c].at = "measure", ![c].trial = t]
        BY <2>1, <3>2 DEF RunOnce
      <4>2. t \in TrialId /\ "measure" \in Positions
        BY DEF Claimable, Positions
      <4>3. PICK m : m = [caller[c] EXCEPT !.at = "measure", !.trial = t]
        OBVIOUS
      <4>4. m \in LocalType /\ m.at = "measure" /\ m.trial = t
        BY <1>0, <4>2, <4>3 DEF LocalType
      <4>5. caller' = [caller EXCEPT ![c] = m]
        BY <4>1, <4>3
      <4>6. LocalOK(m)
        BY <4>2, <4>4 DEF LocalOK, OnRun, OnLadder
      <4>7. Arrives(c, m)
        BY <1>7, <2>1, <4>1, <4>4 DEF Arrives, RunOnce
      <4>. QED BY <1>1, <4>5, <4>6, <4>7
    <3>. QED BY <3>1, <3>2
  <2>2. CASE Measured(c, "settle")
    <3>1. PICK m : m = [caller[c] EXCEPT !.at = "settle", !.trial = NoTrial]
      OBVIOUS
    <3>2. "settle" \in Positions
      BY DEF Positions
    <3>3. m \in LocalType /\ m.at \in Plain
      BY <1>0, <3>1, <3>2 DEF LocalType, Plain
    <3>4. caller' = [caller EXCEPT ![c] = m]
      BY <2>2, <3>1 DEF Measured
    <3>. QED BY <1>0, <3>3, <3>4, PlainMoves
  <2>3. CASE AttemptFails(c) \/ LeaseLost(c)
    BY <1>0, <2>3, PlainMoves DEF AttemptFails, LeaseLost
  <2>. QED BY <1>7, <2>1, <2>2, <2>3 DEF Works
<1>8. CASE Probed(c)
  <2>1. PICK m : m = [caller[c] EXCEPT !.at = "settle", !.trial = NoTrial]
    OBVIOUS
  <2>2. "settle" \in Positions
    BY DEF Positions
  <2>3. m \in LocalType /\ m.at \in Plain
    BY <1>0, <2>1, <2>2 DEF LocalType, Plain
  <2>4. caller' = [caller EXCEPT ![c] = m]
    BY <1>8, <2>1 DEF Probed
  <2>. QED BY <1>0, <2>3, <2>4, PlainMoves
<1>. QED BY <1>2, <1>3, <1>4, <1>5, <1>6, <1>7, <1>8

(* What an analysis or phase two leaves there.                             *)
LEMMA DecidingMoves ==
  ASSUME Types, NEW c \in Caller,
         \/ Load(c) \/ Decide(c) \/ Freeze(c) \/ CommitFreeze(c)
         \/ ProbeReconciles(c) \/ ProbeSelects(c)
  PROVE  Moves(c)
<1>0. CallerOK /\ caller[c] \in LocalType /\ LocalOK(caller[c])
  BY DEF Types, CallerOK
<1>1. ASSUME NEW m, caller' = [caller EXCEPT ![c] = m], LocalOK(m), Arrives(c, m)
      PROVE  Moves(c)
  BY <1>1 DEF Moves
<1>2. CASE Load(c)
  <2>1. PICK m : m = [Idle EXCEPT !.at = "analyze", !.block = block]
    OBVIOUS
  <2>2. "analyze" \in Positions /\ block \in BlockStatus
    BY DEF Positions, Types, Rows
  <2>3. m \in LocalType /\ m.at = "analyze" /\ m.block = block
    BY <2>1, <2>2, FreshFields DEF Idle, LocalType
  <2>4. caller' = [caller EXCEPT ![c] = m]
    BY <1>2, <2>1 DEF Load, LoadRuns, Enter
  <2>5. LocalOK(m) /\ Arrives(c, m)
    BY <1>2, <2>3 DEF LocalOK, Arrives, OnRun, OnLadder
  <2>. QED BY <1>1, <2>4, <2>5
<1>3. CASE Decide(c)
  <2>1. CASE Leave(c)
    BY <1>0, <2>1, PlainMoves
  <2>2. CASE ~Leave(c)
    <3>1. PICK m : m = [Idle EXCEPT !.at = "stop"]
      OBVIOUS
    <3>2. "stop" \in Positions
      BY DEF Positions
    <3>3. m \in LocalType /\ m.at \in Plain
      BY <3>1, <3>2, FreshFields DEF Idle, LocalType, Plain
    <3>4. caller' = [caller EXCEPT ![c] = m]
      BY <1>3, <2>2, <3>1 DEF Decide, CommitVerdict
    <3>. QED BY <1>0, <3>3, <3>4, PlainMoves
  <2>. QED BY <2>1, <2>2
<1>4. CASE Freeze(c)
  <2>1. PICK m : m = [Idle EXCEPT !.at = "freeze"]
    OBVIOUS
  <2>2. "freeze" \in Positions
    BY DEF Positions
  <2>3. m \in LocalType /\ m.at = "freeze"
    BY <2>1, <2>2, FreshFields DEF Idle, LocalType
  <2>4. caller' = [caller EXCEPT ![c] = m]
    BY <1>4, <2>1 DEF Freeze, Enter
  <2>5. LocalOK(m) /\ Arrives(c, m)
    BY <1>4, <2>3 DEF LocalOK, Arrives, OnRun, OnLadder
  <2>. QED BY <1>1, <2>4, <2>5
<1>5. CASE CommitFreeze(c)
  BY <1>0, <1>5, PlainMoves DEF CommitFreeze
<1>6. CASE ProbeReconciles(c)
  <2>1. CASE Filed \notin Failures /\ ~Pending /\ Proceed(c, "select")
    <3>1. "select" \in Positions
      BY DEF Positions
    <3>2. PICK m \in LocalType : caller' = [caller EXCEPT ![c] = m] /\ m.at = "select"
      BY <1>0, <2>1, <3>1, ProceedRecord
    <3>3. LocalOK(m) /\ Arrives(c, m)
      BY <1>6, <2>1, <3>2 DEF LocalOK, Arrives, OnRun, OnLadder
    <3>. QED BY <1>1, <3>2, <3>3
  <2>. QED BY <1>0, <1>6, <2>1, PlainMoves DEF ProbeReconciles, Plain
<1>7. CASE ProbeSelects(c)
  <2>1. CASE ChooseRun(c, Slot)
    <3>1. PICK s : s = Min(Planned(Slot))
      OBVIOUS
    <3>2. s \in Slot /\ slot[s] = "PLANNED"
      BY <2>1, <3>1, LeastPlanned DEF ChooseRun
    <3>3. /\ caller' = [caller EXCEPT ![c] = [Idle EXCEPT !.at = "trial", !.slot = s]]
          /\ caller[c].at = "select"
      BY <2>1, <3>1 DEF ChooseRun
    <3>4. PICK m : m = [Idle EXCEPT !.at = "trial", !.slot = s]
      OBVIOUS
    <3>5. "trial" \in Positions
      BY DEF Positions
    <3>6. m \in LocalType /\ m.at = "trial" /\ m.slot = s
      BY <3>2, <3>4, <3>5, FreshFields DEF Idle, LocalType
    <3>7. LocalOK(m) /\ Arrives(c, m)
      BY <1>7, <3>2, <3>3, <3>6 DEF LocalOK, Arrives, OnRun, OnLadder
    <3>. QED BY <1>1, <3>3, <3>4, <3>7
  <2>. QED BY <1>0, <1>7, <2>1, PlainMoves DEF ProbeSelects, Plain
<1>. QED BY <1>2, <1>3, <1>4, <1>5, <1>6, <1>7

(* What a ladder's steps leave there.                                      *)
LEMMA LadderMoves ==
  ASSUME Types, NEW c \in Caller,
         \/ LadderReconciles(c) \/ AsksToFinalize(c) \/ RollsBack(c) \/ Finalizes(c)
         \/ LadderSelects(c) \/ Prepares(c) \/ Applies(c) \/ Readies(c)
         \/ ChecksDrift(c) \/ CreateProbe(c)
  PROVE  Moves(c)
<1>0. CallerOK /\ caller[c] \in LocalType /\ LocalOK(caller[c])
  BY DEF Types, CallerOK
<1>1. ASSUME NEW m, caller' = [caller EXCEPT ![c] = m], LocalOK(m), Arrives(c, m)
      PROVE  Moves(c)
  BY <1>1 DEF Moves
<1>2. CASE LadderReconciles(c)
  <2>1. CASE Leave(c)
    BY <1>0, <2>1, PlainMoves
  <2>2. CASE ~Leave(c)
    <3>1. PICK o : o = Pending
      OBVIOUS
    <3>2. PICK m : m = [Idle EXCEPT !.at = "finalize?", !.open = o]
      OBVIOUS
    <3>3. "finalize?" \in Positions /\ o \in BOOLEAN
      BY <3>1 DEF Positions, Pending
    <3>4. m \in LocalType /\ m.at = "finalize?" /\ m.open = o
      BY <3>2, <3>3, FreshFields DEF Idle, LocalType
    <3>5. caller' = [caller EXCEPT ![c] = m]
      BY <1>2, <2>2, <3>1, <3>2 DEF LadderReconciles
    <3>6. LocalOK(m) /\ Arrives(c, m)
      BY <1>2, <3>1, <3>4 DEF LocalOK, Arrives, OnRun, OnLadder
    <3>. QED BY <1>1, <3>5, <3>6
  <2>. QED BY <2>1, <2>2
<1>3. ASSUME AsksToFinalize(c) \/ LadderSelects(c),
             NEW k \in AtWork, Finalizable(k), ToFinalize(c, k)
      PROVE  Moves(c)
  <2>1. PICK b \in {"FAILED", "COMPLETED"} :
          caller' = [caller EXCEPT ![c] =
            [Idle EXCEPT !.at = "rollback", !.number = k, !.block = b]]
    BY <1>3 DEF ToFinalize
  <2>2. PICK m : m = [Idle EXCEPT !.at = "rollback", !.number = k, !.block = b]
    OBVIOUS
  <2>3. "rollback" \in Positions /\ b \in BlockStatus /\ k \in 1..2
    BY DEF Positions, BlockStatus, AtWork
  <2>4. m \in LocalType /\ m.at = "rollback" /\ m.number = k /\ m.block = b
    BY <2>2, <2>3, FreshFields DEF Idle, LocalType
  <2>5. LocalOK(m)
    BY <2>3, <2>4 DEF LocalOK, OnRun, OnLadder
  <2>6. Arrives(c, m)
    BY <1>3, <2>4 DEF Arrives
  <2>. QED BY <1>1, <2>1, <2>2, <2>5, <2>6
<1>4. CASE AsksToFinalize(c)
  <2>1. CASE Proceed(c, "run_once")
    BY <1>0, <2>1, PlainMoves DEF Plain
  <2>2. CASE ~caller[c].open /\ Proceed(c, "select")
    <3>1. "select" \in Positions
      BY DEF Positions
    <3>2. PICK m \in LocalType : caller' = [caller EXCEPT ![c] = m] /\ m.at = "select"
      BY <1>0, <2>2, <3>1, ProceedRecord
    <3>3. LocalOK(m) /\ Arrives(c, m)
      BY <1>4, <2>2, <3>2 DEF LocalOK, Arrives, OnRun, OnLadder
    <3>. QED BY <1>1, <3>2, <3>3
  <2>. QED BY <1>3, <1>4, <2>1, <2>2 DEF AsksToFinalize
<1>5. CASE RollsBack(c)
  <2>1. "finalize" \in Positions /\ Proceed(c, "finalize")
    BY <1>5 DEF RollsBack, Positions
  <2>2. PICK m \in LocalType :
          /\ caller' = [caller EXCEPT ![c] = m]
          /\ m.at = "finalize" /\ m.number = caller[c].number /\ m.block = caller[c].block
    BY <1>0, <2>1, ProceedRecord
  <2>3. caller[c].number \in 1..2 /\ caller[c].block \in {"COMPLETED", "FAILED"}
    BY <1>0, <1>5 DEF RollsBack, LocalOK, OnLadder
  <2>4. LocalOK(m) /\ Arrives(c, m)
    BY <1>5, <2>2, <2>3 DEF LocalOK, Arrives, OnRun, OnLadder
  <2>. QED BY <1>1, <2>2, <2>4
<1>6. CASE Finalizes(c) \/ Readies(c)
  BY <1>0, <1>6, PlainMoves DEF Finalizes, Readies, Plain
<1>7. CASE LadderSelects(c)
  <2>1. CASE Proceed(c, "pause") \/ Leave(c)
    BY <1>0, <2>1, PlainMoves DEF Plain
  <2>2. ASSUME NEW k \in 1..2,
               (ladder[k] = "PLANNED" /\ AtWork = {}) \/ ladder[k] = "PREPARING",
               caller' = [caller EXCEPT ![c] = [Idle EXCEPT !.at = "prepare", !.number = k]]
        PROVE  Moves(c)
    <3>1. PICK m : m = [Idle EXCEPT !.at = "prepare", !.number = k]
      OBVIOUS
    <3>2. "prepare" \in Positions
      BY DEF Positions
    <3>3. m \in LocalType /\ m.at = "prepare" /\ m.number = k
      BY <3>1, <3>2, FreshFields DEF Idle, LocalType
    <3>4. LocalOK(m) /\ Arrives(c, m)
      BY <1>7, <2>2, <3>3 DEF LocalOK, Arrives, OnRun, OnLadder
    <3>. QED BY <1>1, <2>2, <3>1, <3>4
  <2>3. ASSUME NEW k \in 1..2, NEW s \in Slot,
               ladder[k] \in {"READY", "RUNNING"}, slot[s] = "PLANNED",
               caller' = [caller EXCEPT ![c] =
                 [Idle EXCEPT !.at = "drift?", !.slot = s, !.block = ladder[k]]]
        PROVE  Moves(c)
    <3>0. PICK b : b = ladder[k]
      OBVIOUS
    <3>1. PICK m : m = [Idle EXCEPT !.at = "drift?", !.slot = s, !.block = b]
      OBVIOUS
    <3>2. "drift?" \in Positions
      BY DEF Positions
    <3>3. m \in LocalType /\ m.at = "drift?" /\ m.slot = s
      BY <2>3, <3>0, <3>1, <3>2, FreshFields DEF Idle, LocalType
    <3>4. LocalOK(m) /\ Arrives(c, m)
      BY <1>7, <2>3, <3>3 DEF LocalOK, Arrives, OnRun, OnLadder
    <3>. QED BY <1>1, <2>3, <3>0, <3>1, <3>4
  <2>. QED BY <1>3, <1>7, <2>1, <2>2, <2>3, Zenon DEF LadderSelects
<1>8. CASE Prepares(c)
  <2>1. "apply" \in Positions /\ Proceed(c, "apply")
    BY <1>8 DEF Prepares, Positions
  <2>2. PICK m \in LocalType : /\ caller' = [caller EXCEPT ![c] = m]
                               /\ m.at = "apply" /\ m.number = caller[c].number
    BY <1>0, <2>1, ProceedRecord
  <2>3. caller[c].number \in 1..2
    BY <1>0, <1>8 DEF Prepares, LocalOK, OnLadder
  <2>4. LocalOK(m) /\ Arrives(c, m)
    BY <1>8, <2>2, <2>3 DEF LocalOK, Arrives, OnRun, OnLadder
  <2>. QED BY <1>1, <2>2, <2>4
<1>9. CASE Applies(c)
  <2>1. "ready" \in Positions /\ Proceed(c, "ready")
    BY <1>9 DEF Applies, Positions
  <2>2. PICK m \in LocalType : /\ caller' = [caller EXCEPT ![c] = m]
                               /\ m.at = "ready" /\ m.number = caller[c].number
    BY <1>0, <2>1, ProceedRecord
  <2>3. caller[c].number \in 1..2
    BY <1>0, <1>9 DEF Applies, LocalOK, OnLadder
  <2>4. LocalOK(m) /\ Arrives(c, m)
    BY <1>9, <2>2, <2>3 DEF LocalOK, Arrives, OnRun, OnLadder
  <2>. QED BY <1>1, <2>2, <2>4
<1>10. CASE ChecksDrift(c)
  <2>1. CASE Proceed(c, "probe")
    <3>1. "probe" \in Positions
      BY DEF Positions
    <3>2. PICK m \in LocalType : /\ caller' = [caller EXCEPT ![c] = m]
                                 /\ m.at = "probe" /\ m.slot = caller[c].slot
      BY <1>0, <2>1, <3>1, ProceedRecord
    <3>3. caller[c].slot \in Slot
      BY <1>0, <1>10 DEF ChecksDrift, LocalOK, OnRun
    <3>4. LocalOK(m) /\ Arrives(c, m)
      BY <1>10, <3>2, <3>3 DEF LocalOK, Arrives, OnRun, OnLadder
    <3>. QED BY <1>1, <3>2, <3>4
  <2>. QED BY <1>0, <1>10, <2>1, PlainMoves DEF ChecksDrift
<1>11. CASE CreateProbe(c)
  BY <1>0, <1>11, PlainMoves DEF CreateProbe, Plain
<1>. QED BY <1>2, <1>4, <1>5, <1>6, <1>7, <1>8, <1>9, <1>10, <1>11

(* What a restore leaves there.                                            *)
LEMMA RestoreMoves ==
  ASSUME Types, NEW c \in Caller, RestoreStep(c)
  PROVE  Moves(c)
<1>0. CallerOK /\ caller[c] \in LocalType /\ LocalOK(caller[c])
  BY DEF Types, CallerOK
<1>1. ASSUME NEW m, caller' = [caller EXCEPT ![c] = m], LocalOK(m), Arrives(c, m)
      PROVE  Moves(c)
  BY <1>1 DEF Moves
<1>2. CASE BeginRepetition(c)
  <2>1. PICK b : b = validation
    OBVIOUS
  <2>2. PICK m : m = [Idle EXCEPT !.at = "claim", !.block = b]
    OBVIOUS
  <2>3. "claim" \in Positions /\ b \in BlockStatus \cup {"READY", "RUNNING"}
    BY <1>2, <2>1 DEF Positions, BeginRepetition, BlockStatus
  <2>4. m \in LocalType /\ m.at = "claim"
    BY <2>2, <2>3, FreshFields DEF Idle, LocalType
  <2>5. caller' = [caller EXCEPT ![c] = m]
    BY <1>2, <2>1, <2>2 DEF BeginRepetition, Enter
  <2>6. LocalOK(m) /\ Arrives(c, m)
    BY <1>2, <2>4 DEF LocalOK, Arrives, OnRun, OnLadder
  <2>. QED BY <1>1, <2>5, <2>6
<1>3. CASE ClaimRepetition(c)
  <2>. DEFINE planned == {r \in Rep : rep[r] = "PLANNED"}
  <2>1. CASE planned = {}
    BY <1>0, <1>3, <2>1, PlainMoves DEF ClaimRepetition
  <2>2. CASE planned # {}
    <3>1. planned \in SUBSET Nat
      BY RepetitionsAssumption DEF Rep
    <3>2. PICK n : n = Min(planned)
      OBVIOUS
    <3>3. n \in planned
      <4>. HIDE DEF planned
      <4>. QED BY <2>2, <3>1, <3>2, LeastOf
    <3>4. /\ rep' = [rep EXCEPT ![n] = "RUNNING"]
          /\ caller' = [caller EXCEPT ![c] = [Idle EXCEPT !.at = "validate", !.number = n]]
      BY <1>3, <2>2, <3>2 DEF ClaimRepetition
    <3>5. PICK m : m = [Idle EXCEPT !.at = "validate", !.number = n]
      OBVIOUS
    <3>6. "validate" \in Positions /\ n \in Rep /\ rep[n] = "PLANNED"
      BY <3>3 DEF Positions
    <3>7. m \in LocalType /\ m.at = "validate" /\ m.number = n
      BY <3>5, <3>6, FreshFields DEF Idle, LocalType
    <3>8. LocalOK(m) /\ Arrives(c, m)
      BY <1>3, <3>4, <3>6, <3>7 DEF LocalOK, Arrives, OnRun, OnLadder
    <3>. QED BY <1>1, <3>4, <3>5, <3>8
  <2>. QED BY <2>1, <2>2
<1>4. CASE CountPassed(c)
  <2>1. PICK g : g = {r \in Rep : rep[r] = "PASSED"} \cup {caller[c].number}
    OBVIOUS
  <2>2. caller[c].number \in Rep
    BY <1>0, <1>4 DEF CountPassed, LocalOK
  <2>3. PICK m : m = [caller[c] EXCEPT !.at = "pass", !.given = g]
    OBVIOUS
  <2>4. "pass" \in Positions /\ g \in SUBSET Rep
    BY <2>1, <2>2 DEF Positions
  <2>5. m \in LocalType /\ m.at = "pass" /\ m.given = g /\ m.number = caller[c].number
    BY <1>0, <2>3, <2>4 DEF LocalType
  <2>6. caller' = [caller EXCEPT ![c] = m]
    BY <1>4, <2>1, <2>3 DEF CountPassed
  <2>7. LocalOK(m) /\ Arrives(c, m)
    BY <1>4, <2>1, <2>2, <2>5 DEF LocalOK, Arrives, OnRun, OnLadder
  <2>. QED BY <1>1, <2>6, <2>7
<1>5. CASE CommitPassed(c) \/ RepetitionFails(c) \/ Rebuild(c)
  BY <1>0, <1>5, PlainMoves DEF CommitPassed, RepetitionFails, Rebuild
<1>6. CASE ClaimRemediation(c)
  <2>1. PICK m : m = [Idle EXCEPT !.at = "rebuild"]
    OBVIOUS
  <2>2. "rebuild" \in Positions
    BY DEF Positions
  <2>3. m \in LocalType /\ m.at = "rebuild"
    BY <2>1, <2>2, FreshFields DEF Idle, LocalType
  <2>4. caller' = [caller EXCEPT ![c] = m]
    BY <1>6, <2>1 DEF ClaimRemediation, Enter
  <2>5. LocalOK(m) /\ Arrives(c, m)
    BY <1>6, <2>3 DEF LocalOK, Arrives, OnRun, OnLadder
  <2>. QED BY <1>1, <2>4, <2>5
<1>. QED BY <1>2, <1>3, <1>4, <1>5, <1>6 DEF RestoreStep, Repetition

(* Whatever a command does, it moves, unless it only analyses.             *)
LEMMA CommandMoves ==
  ASSUME Types, NEW c \in Caller, RunStep(c) \/ RestoreStep(c) \/ Leaving(c)
  PROVE  Moves(c) \/ AnalyzeWarmup \/ AnalyzeDuration
<1>1. CASE Leaving(c)
  BY <1>1, PlainMoves DEF Types, Leaving, Steer, Crash
<1>2. CASE RunStep(c)
  BY <1>2, StagedMoves, ExecutingMoves, DecidingMoves, LadderMoves DEF RunStep
<1>. QED BY <1>1, <1>2, RestoreMoves
-----------------------------------------------------------------------------
(***************************************************************************)
(* What the steps write.                                                   *)
(***************************************************************************)

(* The outcome of a settled run in flight is filed.                        *)
Files(c, s) ==
  /\ caller[c].at \in {"reconcile", "settle"}
  /\ s \in InFlight /\ Settled(s) /\ Filed = trial[RunTrial(s)].state
  /\ \A r \in InFlight : s <= r
  /\ slot' = [slot EXCEPT ![s] =
       IF trial[RunTrial(s)].state = "COMPLETED" THEN "COMPLETED" ELSE "FAILED"]

(* A planned run refers to its trial.                                      *)
Refers(c, s) ==
  /\ Attach(c) \/ CreateProbe(c)
  /\ s = caller[c].slot /\ s \in Slot /\ slot[s] = "PLANNED"
  /\ slot' = [slot EXCEPT ![s] = "CREATED"]

(* The second part is planned.                                             *)
PlansSecond(c) ==
  /\ \/ Decide(c) /\ verdict' = [verdict EXCEPT ![1] = "MORE"]
     \/ CommitFreeze(c) /\ UNCHANGED verdict
  /\ \A s \in Second : slot[s] = "ABSENT"
  /\ slot' = [s \in Slot |-> IF s \in Second THEN "PLANNED" ELSE slot[s]]
  /\ block' = Plan2

SlotWrites(c) ==
  \/ UNCHANGED slot
  \/ Insert(c)
  \/ \E s \in Slot : Files(c, s) \/ Refers(c, s)
  \/ PlansSecond(c)

(* The run that is reconciled is the first in flight.                      *)
LEMMA FirstInFlight ==
  ASSUME InFlight # {}
  PROVE  /\ Min(InFlight) \in InFlight /\ Min(InFlight) \in Slot
         /\ \A r \in InFlight : Min(InFlight) <= r
<1>1. InFlight \in SUBSET Nat /\ InFlight \subseteq Slot
  BY RunNumbers DEF InFlight
<1>2. \E x \in InFlight : \A y \in InFlight : x <= y
  BY <1>1, NatMin
<1>. QED BY <1>1, <1>2 DEF Min

(* Reconciliation files its outcome, if it has one.                        *)
LEMMA ReconcileEffect ==
  ASSUME Types, NEW c \in Caller, caller[c].at \in {"reconcile", "settle"}, ReconcileRun
  PROVE  \/ UNCHANGED slot /\ Filed = "NONE"
         \/ \E s \in Slot : Files(c, s)
<1>1. CASE InFlight # {} /\ Settled(Min(InFlight))
  <2>1. PICK s : s = Min(InFlight)
    OBVIOUS
  <2>2. s \in InFlight /\ s \in Slot /\ \A r \in InFlight : s <= r
    BY <1>1, <2>1, FirstInFlight
  <2>3. Filed = trial[RunTrial(s)].state /\ Settled(s)
    BY <1>1, <2>1 DEF Filed
  <2>4. Filed # "NONE"
    BY <2>3 DEF Settled, Ended
  <2>5. slot' = [slot EXCEPT ![s] = IF Filed = "COMPLETED" THEN "COMPLETED" ELSE "FAILED"]
    BY <2>1, <2>4 DEF ReconcileRun
  <2>. QED BY <2>2, <2>3, <2>5 DEF Files
<1>2. CASE ~(InFlight # {} /\ Settled(Min(InFlight)))
  BY <1>2 DEF Filed, ReconcileRun
<1>. QED BY <1>1, <1>2

(* Nothing else changes the status of a run.                               *)
LEMMA SlotEffect ==
  ASSUME Types, NEW c \in Caller, RunStep(c)
  PROVE  SlotWrites(c)
<1>0. CallerOK /\ LocalOK(caller[c])
  BY DEF Types, CallerOK
<1>1. CASE StageReconciles(c) \/ StageSettles(c) \/ ProbeReconciles(c) \/ LadderReconciles(c)
  <2>1. caller[c].at \in {"reconcile", "settle"} /\ ReconcileRun
    BY <1>1 DEF StageReconciles, ReconcileFirst, StageSettles, ReconcileLast,
       ProbeReconciles, LadderReconciles
  <2>. QED BY <2>1, ReconcileEffect DEF SlotWrites
<1>2. CASE Attach(c) \/ CreateProbe(c)
  <2>1. caller[c].slot \in Slot
    BY <1>0, <1>2 DEF Attach, CreateProbe, LocalOK, OnRun
  <2>2. \/ UNCHANGED slot
        \/ /\ slot[caller[c].slot] = "PLANNED"
           /\ slot' = [slot EXCEPT ![caller[c].slot] = "CREATED"]
    BY <1>2 DEF Attach, CreateProbe
  <2>. QED BY <1>2, <2>1, <2>2 DEF SlotWrites, Refers
<1>3. CASE Decide(c)
  BY <1>3 DEF Decide, CommitVerdict, SlotWrites, PlansSecond
<1>4. CASE CommitFreeze(c)
  BY <1>4 DEF CommitFreeze, SlotWrites, PlansSecond
<1>5. CASE \/ Create(c) \/ StartRun(c) \/ StageFails(c) \/ StageStarts(c) \/ StageSelects(c)
  <2>1. UNCHANGED slot
    BY <1>5 DEF Create, CreateCampaign, StartRun, StageFails, FailBlock, StageStarts,
       StartBlock, StageSelects, ChooseRun, CompletePart, RowsVars, ledgerVars
  <2>. QED BY <2>1 DEF SlotWrites
<1>6. CASE CreateRun(c) \/ Works(c) \/ Load(c) \/ AnalyzeWarmup \/ Freeze(c) \/ AnalyzeDuration
  <2>1. UNCHANGED slot
    BY <1>6 DEF CreateRun, Works, Load, LoadRuns, AnalyzeWarmup, Freeze, AnalyzeDuration,
       RowsVars, ledgerVars
  <2>. QED BY <2>1 DEF SlotWrites
<1>7. CASE \/ ProbeSelects(c) \/ AsksToFinalize(c) \/ RollsBack(c) \/ Finalizes(c)
           \/ LadderSelects(c) \/ Prepares(c) \/ Applies(c) \/ Readies(c) \/ ChecksDrift(c)
           \/ Probed(c)
  <2>1. UNCHANGED slot
    BY <1>7, Zenon DEF ProbeSelects, ChooseRun, AsksToFinalize, RollsBack, Finalizes,
       LadderSelects, Prepares, Applies, Readies, ChecksDrift, Probed, CoreRows, ledgerVars
  <2>. QED BY <2>1 DEF SlotWrites
<1>. QED BY <1>1, <1>2, <1>3, <1>4, <1>5, <1>6, <1>7 DEF RunStep, SlotWrites

(* Everything outside the rows of the campaign.                            *)
LEMMA Elsewhere ==
  ASSUME [Next]_stageVars
  PROVE  \/ UNCHANGED <<slot, verdict, ladder>>
         \/ \E c \in Caller : RunStep(c)
<1>1. Operator \/ UNCHANGED stageVars \/ NewSeries \/ NewRemediation =>
        UNCHANGED <<slot, verdict, ladder>>
  BY DEF Operator, stageVars, runVars, ledgerVars, NewSeries, PlanSeries, NewRemediation,
     PlanRemediation
<1>2. ASSUME NEW c \in Caller, RestoreStep(c) \/ Leaving(c)
      PROVE  UNCHANGED <<slot, verdict, ladder>>
  BY <1>2 DEF RestoreStep, Repetition, BeginRepetition, ClaimRepetition, CountPassed,
     CommitPassed, RepetitionFails, ClaimRemediation, Rebuild, Leaving, ledgerVars
<1>. QED BY <1>1, <1>2, Steps

(* The life of a trial.                                                    *)
TrialRow == [state: TrialState, tries: 0..MaxTries[kind]]

TrialWrites(t) ==
  \/ trial'[t] = trial[t]
  \/ trial[t] = Absent /\ trial'[t].state = "QUEUED" /\ trial'[t].tries = 0
  \/ /\ trial[t].state \in {"QUEUED", "LAPSED", "INTERRUPTED"}
     /\ trial[t].tries < MaxTries[kind]
     /\ trial'[t].state = "RUNNING"
     /\ \E c \in Caller : caller'[c].at = "measure" /\ caller'[c].trial = t
  \/ /\ trial[t].state \notin Ended \cup {"NONE"}
     /\ trial'[t].state \in Ended \cup {"LAPSED", "UNFILED", "QUEUED"}
     /\ trial'[t].state = "QUEUED" => trial'[t].tries < MaxTries[kind]

TrialsWritten == trial' \in [TrialId -> TrialRow] /\ \A t \in TrialId : TrialWrites(t)

(* A write of one trial is one of them.                                    *)
LEMMA OneTrialWritten ==
  ASSUME Types, NEW u \in TrialId, NEW st, trial' = [trial EXCEPT ![u].state = st],
         \/ trial[u] = Absent /\ st = "QUEUED"
         \/ /\ trial[u].state \notin Ended \cup {"NONE"}
            /\ \/ st \in Ended \cup {"LAPSED", "UNFILED"}
               \/ st = "QUEUED" /\ trial[u].tries < MaxTries[kind]
  PROVE  TrialsWritten
<1>1. trial \in [TrialId -> TrialRow]
  BY DEF Types, Rows, TrialRow
<1>2. st \in TrialState
  BY DEF TrialState, Ended
<1>3. /\ trial' \in [TrialId -> TrialRow]
      /\ trial'[u].state = st /\ trial'[u].tries = trial[u].tries
      /\ \A t \in TrialId : t # u => trial'[t] = trial[t]
  BY <1>1, <1>2 DEF TrialRow
<1>4. TrialWrites(u)
  <2>1. CASE trial[u] = Absent /\ st = "QUEUED"
    <3>1. trial[u].tries = 0
      BY <2>1 DEF Absent
    <3>. QED BY <1>3, <2>1, <3>1 DEF TrialWrites
  <2>2. CASE /\ trial[u].state \notin Ended \cup {"NONE"}
             /\ \/ st \in Ended \cup {"LAPSED", "UNFILED"}
                \/ st = "QUEUED" /\ trial[u].tries < MaxTries[kind]
    <3>1. "QUEUED" \notin Ended \cup {"LAPSED", "UNFILED"}
      BY DEF Ended
    <3>2. /\ trial'[u].state \in Ended \cup {"LAPSED", "UNFILED", "QUEUED"}
          /\ trial'[u].state = "QUEUED" => trial'[u].tries < MaxTries[kind]
      BY <1>3, <2>2, <3>1
    <3>. QED BY <2>2, <3>2 DEF TrialWrites
  <2>. QED BY <2>1, <2>2
<1>5. ASSUME NEW t \in TrialId, t # u
      PROVE  TrialWrites(t)
  BY <1>3, <1>5 DEF TrialWrites
<1>. QED BY <1>3, <1>4, <1>5 DEF TrialsWritten

(* How the steps of a worker change the trial it has.                      *)
LEMMA WorkerTrials ==
  ASSUME Types, NEW c \in Caller, Works(c) \/ Probed(c)
  PROVE  TrialsWritten
<1>. DEFINE u == caller[c].trial
<1>0. /\ trial \in [TrialId -> TrialRow] /\ kind \in Kind
      /\ caller[c].at = "measure" => u \in TrialId
      /\ caller[c] \in LocalType /\ caller \in [Caller -> LocalType]
      /\ MaxTries[kind] \in Nat \ {0}
  BY StageCoreAssumption DEF Types, Rows, TrialRow, CallerOK, LocalOK
<1>1. CASE UNCHANGED trial
  BY <1>0, <1>1 DEF TrialsWritten, TrialWrites
<1>2. CASE RunOnce(c, "settle") /\ ~ UNCHANGED trial
  <2>1. PICK v \in Claimable :
          /\ trial' = [trial EXCEPT ![v] = [state |-> "RUNNING", tries |-> @.tries + 1]]
          /\ caller' = [caller EXCEPT ![c].at = "measure", ![c].trial = v]
    BY <1>2 DEF RunOnce
  <2>2. /\ v \in TrialId /\ trial[v].tries < MaxTries[kind]
        /\ trial[v].state \in {"QUEUED", "LAPSED", "INTERRUPTED"}
    BY DEF Claimable
  <2>3. trial[v].tries + 1 \in 0..MaxTries[kind] /\ "RUNNING" \in TrialState
    BY <1>0, <2>2 DEF TrialRow, TrialState
  <2>4. /\ trial' \in [TrialId -> TrialRow]
        /\ trial'[v].state = "RUNNING"
        /\ \A t \in TrialId : t # v => trial'[t] = trial[t]
    BY <1>0, <2>1, <2>2, <2>3 DEF TrialRow
  <2>5. caller'[c].at = "measure" /\ caller'[c].trial = v
    BY <1>0, <2>1 DEF LocalType
  <2>6. TrialWrites(v)
    BY <2>2, <2>4, <2>5 DEF TrialWrites
  <2>7. ASSUME NEW t \in TrialId, t # v
        PROVE  TrialWrites(t)
    BY <2>4, <2>7 DEF TrialWrites
  <2>. QED BY <2>4, <2>6, <2>7 DEF TrialsWritten
<1>3. CASE Measured(c, "settle")
  <2>1. PICK st \in {"COMPLETED", "INVALID"} : trial' = [trial EXCEPT ![u].state = st]
    BY <1>3 DEF Measured
  <2>2. u \in TrialId /\ trial[u].state = "RUNNING"
    BY <1>0, <1>3 DEF Measured
  <2>3. st \in Ended /\ "RUNNING" \notin Ended \cup {"NONE"}
    BY DEF Ended
  <2>. QED BY <2>1, <2>2, <2>3, OneTrialWritten
<1>4. CASE AttemptFails(c)
  <2>1. PICK st : /\ st = "QUEUED" => trial[u].tries # MaxTries[kind]
                  /\ st \in {"INFRA", "CANDIDATE", "QUEUED"}
                  /\ trial' = [trial EXCEPT ![u].state = st]
    <3>1. PICK o \in {"INFRA", "CANDIDATE"} :
            trial' = [trial EXCEPT ![u].state =
              IF trial[u].tries = MaxTries[kind] THEN o ELSE "QUEUED"]
      BY <1>4 DEF AttemptFails
    <3>2. PICK st : st = IF trial[u].tries = MaxTries[kind] THEN o ELSE "QUEUED"
      OBVIOUS
    <3>3. trial' = [trial EXCEPT ![u].state = st]
      BY <3>1, <3>2
    <3>. QED BY <3>2, <3>3
  <2>2. u \in TrialId /\ trial[u].state = "RUNNING"
    BY <1>0, <1>4 DEF AttemptFails
  <2>3. trial[u].tries # MaxTries[kind] => trial[u].tries < MaxTries[kind]
    BY <1>0, <2>2 DEF TrialRow
  <2>4. {"INFRA", "CANDIDATE"} \subseteq Ended /\ "RUNNING" \notin Ended \cup {"NONE"}
    BY DEF Ended
  <2>. QED BY <2>1, <2>2, <2>3, <2>4, OneTrialWritten
<1>5. CASE Probed(c)
  <2>1. PICK st \in {"COMPLETED", "UNFILED"} : trial' = [trial EXCEPT ![u].state = st]
    BY <1>5 DEF Probed
  <2>2. u \in TrialId /\ trial[u].state = "RUNNING"
    BY <1>0, <1>5 DEF Probed
  <2>3. "COMPLETED" \in Ended /\ "RUNNING" \notin Ended \cup {"NONE"}
    BY DEF Ended
  <2>. QED BY <2>1, <2>2, <2>3, OneTrialWritten
<1>. QED BY <1>1, <1>2, <1>3, <1>4, <1>5 DEF Works, LeaseLost

(* Every step leaves a trial alone or takes it one step on.                *)
LEMMA TrialEffect ==
  ASSUME Types, [Next]_stageVars
  PROVE  TrialsWritten
<1>0. trial \in [TrialId -> TrialRow]
  BY DEF Types, Rows, TrialRow
<1>1. CASE UNCHANGED trial
  BY <1>0, <1>1 DEF TrialsWritten, TrialWrites
<1>2. CASE Operator
  <2>1. PICK action \in {"pause", "resume", "stop", "emergency-stop"} :
          trial' = [t \in TrialId |->
            IF action = "emergency-stop" /\ t \in Unfinished
              THEN [trial[t] EXCEPT !.state = "CANCELLED"] ELSE trial[t]]
    BY <1>2 DEF Operator, Control
  <2>2. "CANCELLED" \in TrialState /\ "CANCELLED" \in Ended
    BY DEF TrialState, Ended
  <2>3. trial' \in [TrialId -> TrialRow]
    BY <1>0, <2>1, <2>2 DEF TrialRow
  <2>4. ASSUME NEW t \in TrialId
        PROVE  TrialWrites(t)
    <3>1. CASE action = "emergency-stop" /\ t \in Unfinished
      <4>1. trial'[t] = [trial[t] EXCEPT !.state = "CANCELLED"]
        BY <2>1, <3>1
      <4>2. trial'[t].state = "CANCELLED" /\ trial[t].state \notin Ended \cup {"NONE"}
        BY <1>0, <3>1, <4>1 DEF TrialRow, Unfinished
      <4>. QED BY <2>2, <4>2 DEF TrialWrites
    <3>2. CASE ~(action = "emergency-stop" /\ t \in Unfinished)
      BY <2>1, <3>2 DEF TrialWrites
    <3>. QED BY <3>1, <3>2
  <2>. QED BY <2>3, <2>4 DEF TrialsWritten
<1>3. ASSUME NEW c \in Caller, Leaving(c)
      PROVE  TrialsWritten
  <2>1. CASE Crash(c) /\ caller[c].at = "measure" /\ trial[caller[c].trial].state = "RUNNING"
    <3>1. caller[c].trial \in TrialId
      BY <2>1 DEF Types, CallerOK, LocalOK
    <3>2. trial' = [trial EXCEPT ![caller[c].trial].state = "LAPSED"]
      BY <2>1 DEF Crash
    <3>3. "RUNNING" \notin Ended \cup {"NONE"}
      BY DEF Ended
    <3>. QED BY <2>1, <3>1, <3>2, <3>3, OneTrialWritten
  <2>. QED BY <1>1, <1>3, <2>1 DEF Leaving, Steer, Crash
<1>4. ASSUME NEW c \in Caller, RunStep(c)
      PROVE  TrialsWritten
  <2>0. LocalOK(caller[c])
    BY DEF Types, CallerOK
  <2>1. CASE Works(c) \/ Probed(c)
    BY <2>1, WorkerTrials
  <2>2. CASE CreateRun(c)
    <3>1. caller[c].slot \in Slot
      BY <2>0, <2>2 DEF CreateRun, LocalOK, OnRun
    <3>2. RunTrial(caller[c].slot) \in TrialId
      BY <3>1, RunNumbers
    <3>3. \/ UNCHANGED trial
          \/ /\ trial[RunTrial(caller[c].slot)] = Absent
             /\ trial' = [trial EXCEPT ![RunTrial(caller[c].slot)].state = "QUEUED"]
      BY <2>2 DEF CreateRun, CreateTrial
    <3>. QED BY <1>1, <3>2, <3>3, OneTrialWritten
  <2>3. CASE CreateProbe(c)
    <3>1. caller[c].slot \in Slot
      BY <2>0, <2>3 DEF CreateProbe, LocalOK, OnRun
    <3>2. PICK u \in TrialId : u = RunTrial(caller[c].slot)
      BY <3>1, RunNumbers
    <3>3. CASE trial' = [trial EXCEPT ![u] =
                 IF @ = Absent THEN [state |-> "QUEUED", tries |-> 0] ELSE @]
      <4>1. CASE trial[u] = Absent
        <5>1. trial' = [trial EXCEPT ![u] = [state |-> "QUEUED", tries |-> 0]]
          BY <3>3, <4>1
        <5>2. "QUEUED" \in TrialState /\ 0 \in 0..MaxTries[kind]
          BY StageCoreAssumption DEF TrialState, Types, Rows
        <5>3. /\ trial' \in [TrialId -> TrialRow]
              /\ trial'[u].state = "QUEUED" /\ trial'[u].tries = 0
              /\ \A t \in TrialId : t # u => trial'[t] = trial[t]
          BY <1>0, <5>1, <5>2 DEF TrialRow
        <5>. QED BY <4>1, <5>3 DEF TrialsWritten, TrialWrites
      <4>2. CASE trial[u] # Absent
        <5>1. trial' = trial
          BY <1>0, <3>3, <4>2
        <5>. QED BY <1>1, <5>1
      <4>. QED BY <4>1, <4>2
    <3>. QED BY <1>1, <2>3, <3>2, <3>3 DEF CreateProbe
  <2>4. CASE \/ Create(c) \/ Insert(c) \/ StartRun(c) \/ StageReconciles(c)
             \/ StageSettles(c) \/ StageFails(c) \/ StageStarts(c) \/ StageSelects(c)
             \/ Attach(c) \/ Load(c) \/ Decide(c)
    BY <1>1, <2>4 DEF Create, CreateCampaign, OpenCampaign, Insert, InsertRuns, StartRun,
       StageReconciles, ReconcileFirst, StageSettles, ReconcileLast, StageFails, FailBlock,
       StageStarts, StartBlock, StageSelects, ChooseRun, CompletePart, Attach, Load,
       LoadRuns, Decide, CommitVerdict, RowsVars
  <2>5. CASE \/ AnalyzeWarmup \/ Freeze(c) \/ CommitFreeze(c) \/ AnalyzeDuration
             \/ ProbeReconciles(c) \/ ProbeSelects(c) \/ LadderReconciles(c)
             \/ AsksToFinalize(c) \/ RollsBack(c) \/ Finalizes(c) \/ LadderSelects(c)
             \/ Prepares(c) \/ Applies(c) \/ Readies(c) \/ ChecksDrift(c)
    BY <1>1, <2>5, Zenon DEF AnalyzeWarmup, Freeze, CommitFreeze, AnalyzeDuration, ProbeReconciles,
       ProbeSelects, ChooseRun, LadderReconciles, AsksToFinalize, RollsBack, Finalizes,
       LadderSelects, Prepares, Applies, Readies, ChecksDrift, CoreRows, RowsVars, coreVars
  <2>. QED BY <1>4, <2>1, <2>2, <2>3, <2>4, <2>5 DEF RunStep
<1>5. ASSUME NEW c \in Caller, RestoreStep(c)
      PROVE  UNCHANGED trial
  BY <1>5 DEF RestoreStep, Repetition, BeginRepetition, ClaimRepetition, CountPassed,
     CommitPassed, RepetitionFails, ClaimRemediation, Rebuild
<1>6. UNCHANGED stageVars \/ NewSeries \/ NewRemediation => UNCHANGED trial
  BY DEF stageVars, runVars, coreVars, NewSeries, PlanSeries, NewRemediation, PlanRemediation
<1>. QED BY <1>1, <1>2, <1>3, <1>4, <1>5, <1>6, Steps

(* A stage is concluded: the analysis of a part says how it ends.          *)
Concludes(c) ==
  LET p == IF caller[c].block = Done1 THEN 1 ELSE 2 IN
  /\ Decide(c)
  /\ \E v \in Outcomes(p) :
       /\ v # "MORE"
       /\ verdict' = [verdict EXCEPT ![p] = v]
       /\ block' = v
  /\ UNCHANGED slot

(* A part is complete.                                                     *)
Completes(c) ==
  LET initial == caller[c].block = Run1 IN
  /\ Staged
  /\ caller[c].at = "select"
  /\ kind # "warmup" => block = caller[c].block
  /\ Planned(IF initial THEN First ELSE Second) = {}
  /\ block' = IF initial THEN Done1 ELSE Done2

BlockWrites(c) ==
  \/ UNCHANGED block
  \/ Insert(c) /\ block' = IF Staged THEN Plan1 ELSE "PLANNED"
  \/ StageFails(c) /\ block \notin Final /\ block' = "FAILED"
  \/ StageStarts(c) /\ block = caller[c].block /\ block' = Starts[block]
  \/ Completes(c) \/ Concludes(c) \/ PlansSecond(c)

VerdictWrites(c) ==
  \/ UNCHANGED verdict
  \/ Concludes(c)
  \/ PlansSecond(c) /\ Decide(c) /\ verdict' = [verdict EXCEPT ![1] = "MORE"]
  \/ AnalyzeWarmup \/ AnalyzeDuration

LadderWrites(c) ==
  \/ UNCHANGED ladder
  \/ Prepares(c) \/ Readies(c)
  \/ /\ Finalizes(c) /\ ladder[caller[c].number] = "RUNNING"
     /\ ladder' = [ladder EXCEPT ![caller[c].number] = caller[c].block]
  \/ CreateProbe(c) /\ slot[caller[c].slot] = "PLANNED"

TargetWrites(c) ==
  \/ UNCHANGED target
  \/ Works(c) /\ target' = Default /\ (kind = "saturation" => target = caller[c].trial)
  \/ RollsBack(c) /\ target' = Default
  \/ Applies(c)

(* What an analysis does.                                                  *)
LEMMA DecideEffect ==
  ASSUME NEW c \in Caller, Decide(c)
  PROVE  \/ UNCHANGED <<slot, block, verdict>>
         \/ PlansSecond(c)
         \/ Concludes(c)
<1>. DEFINE p == IF caller[c].block = Done1 THEN 1 ELSE 2
<1>1. PICK v \in Outcomes(p) :
        IF v = "MORE"
          THEN IF \A s \in Second : slot[s] = "ABSENT"
                 THEN /\ slot' = [s \in Slot |-> IF s \in Second THEN "PLANNED" ELSE slot[s]]
                      /\ block' = Plan2
                      /\ verdict' = [verdict EXCEPT ![1] = "MORE"]
                 ELSE UNCHANGED <<slot, block, verdict>>
          ELSE /\ block' = v
               /\ verdict' = [verdict EXCEPT ![p] = v]
               /\ UNCHANGED slot
  BY DEF Decide, CommitVerdict
<1>. HIDE DEF p
<1>2. CASE v = "MORE"
  BY <1>1, <1>2 DEF PlansSecond
<1>3. CASE v # "MORE"
  <2>1. \E w \in Outcomes(p) : w # "MORE" /\ verdict' = [verdict EXCEPT ![p] = w] /\ block' = w
    BY <1>1, <1>3
  <2>2. UNCHANGED slot
    BY <1>1, <1>3
  <2>. QED BY <2>1, <2>2 DEF Concludes, p
<1>. QED BY <1>2, <1>3

(* What changes the block.                                                 *)
LEMMA BlockEffect ==
  ASSUME NEW c \in Caller, RunStep(c)
  PROVE  BlockWrites(c)
<1>1. CASE Insert(c)
  BY <1>1 DEF Insert, InsertRuns, BlockWrites
<1>2. CASE StageFails(c)
  BY <1>2 DEF StageFails, FailBlock, BlockWrites
<1>3. CASE StageStarts(c)
  BY <1>3 DEF StageStarts, StartBlock, BlockWrites
<1>4. CASE StageSelects(c)
  <2>. DEFINE initial == caller[c].block = Run1
              runs == IF initial THEN First ELSE Second
  <2>1. Staged /\ (ChooseRun(c, runs)
                   \/ CompletePart(c, runs, IF initial THEN Done1 ELSE Done2, kind # "warmup"))
    BY <1>4 DEF StageSelects
  <2>2. CASE ChooseRun(c, runs)
    BY <2>2 DEF ChooseRun, BlockWrites
  <2>3. CASE CompletePart(c, runs, IF initial THEN Done1 ELSE Done2, kind # "warmup")
    <3>1. CASE kind # "warmup" /\ block # caller[c].block
      BY <2>3, <3>1 DEF CompletePart, BlockWrites
    <3>2. CASE kind = "warmup" \/ block = caller[c].block
      BY <2>1, <2>3, <3>2 DEF CompletePart, BlockWrites, Completes
    <3>. QED BY <3>1, <3>2
  <2>. QED BY <2>1, <2>2, <2>3
<1>5. CASE Decide(c)
  BY <1>5, DecideEffect DEF BlockWrites
<1>6. CASE CommitFreeze(c)
  BY <1>6 DEF CommitFreeze, BlockWrites, PlansSecond
<1>7. CASE \/ Create(c) \/ StartRun(c) \/ StageReconciles(c) \/ StageSettles(c)
           \/ CreateRun(c) \/ Attach(c) \/ Works(c) \/ Load(c)
  <2>1. UNCHANGED block
    BY <1>7 DEF Create, CreateCampaign, OpenCampaign, StartRun, RowsVars, StageReconciles,
       ReconcileFirst, StageSettles, ReconcileLast, CreateRun, CreateTrial, Attach, Works,
       RunOnce, Measured, AttemptFails, LeaseLost, Load, LoadRuns
  <2>. QED BY <2>1 DEF BlockWrites
<1>8. CASE \/ AnalyzeWarmup \/ Freeze(c) \/ AnalyzeDuration \/ ProbeReconciles(c)
           \/ ProbeSelects(c) \/ LadderReconciles(c) \/ AsksToFinalize(c) \/ RollsBack(c)
           \/ Finalizes(c)
  <2>1. UNCHANGED block
    BY <1>8 DEF AnalyzeWarmup, Freeze, AnalyzeDuration, ProbeReconciles, ProbeSelects,
       ChooseRun, LadderReconciles, AsksToFinalize, RollsBack, Finalizes, RowsVars, CoreRows,
       coreVars
  <2>. QED BY <2>1 DEF BlockWrites
<1>9. CASE \/ LadderSelects(c) \/ Prepares(c) \/ Applies(c) \/ Readies(c) \/ ChecksDrift(c)
           \/ CreateProbe(c) \/ Probed(c)
  <2>1. UNCHANGED block
    BY <1>9, Zenon DEF LadderSelects, Prepares, Applies, Readies, ChecksDrift, CreateProbe, Probed,
       CoreRows
  <2>. QED BY <2>1 DEF BlockWrites
<1>. QED BY <1>1, <1>2, <1>3, <1>4, <1>5, <1>6, <1>7, <1>8, <1>9 DEF RunStep

(* What changes the verdicts.                                              *)
LEMMA VerdictEffect ==
  ASSUME NEW c \in Caller, RunStep(c)
  PROVE  VerdictWrites(c)
<1>1. CASE AnalyzeWarmup \/ AnalyzeDuration
  BY <1>1 DEF VerdictWrites
<1>2. CASE Decide(c)
  <2>1. CASE PlansSecond(c)
    <3>1. verdict' = [verdict EXCEPT ![1] = "MORE"] \/ UNCHANGED verdict
      BY <2>1 DEF PlansSecond
    <3>. QED BY <1>2, <2>1, <3>1 DEF VerdictWrites
  <2>. QED BY <1>2, <2>1, DecideEffect DEF VerdictWrites
<1>3. CASE \/ Create(c) \/ Insert(c) \/ StartRun(c) \/ StageReconciles(c) \/ StageSettles(c)
           \/ StageFails(c) \/ StageStarts(c) \/ StageSelects(c)
  <2>1. UNCHANGED verdict
    BY <1>3 DEF Create, CreateCampaign, Insert, InsertRuns, StartRun, RowsVars, ledgerVars,
       StageReconciles, ReconcileFirst, StageSettles, ReconcileLast, StageFails, FailBlock,
       StageStarts, StartBlock, StageSelects, ChooseRun, CompletePart
  <2>. QED BY <2>1 DEF VerdictWrites
<1>4. CASE \/ CreateRun(c) \/ Attach(c) \/ Works(c) \/ Load(c) \/ Freeze(c) \/ CommitFreeze(c)
           \/ ProbeReconciles(c) \/ ProbeSelects(c)
  <2>1. UNCHANGED verdict
    BY <1>4 DEF CreateRun, Attach, Works, Load, LoadRuns, Freeze, CommitFreeze,
       ProbeReconciles, ProbeSelects, ChooseRun, RowsVars, ledgerVars
  <2>. QED BY <2>1 DEF VerdictWrites
<1>5. CASE \/ LadderReconciles(c) \/ AsksToFinalize(c) \/ RollsBack(c) \/ Finalizes(c)
           \/ LadderSelects(c) \/ Prepares(c) \/ Applies(c) \/ Readies(c) \/ ChecksDrift(c)
           \/ CreateProbe(c) \/ Probed(c)
  <2>1. UNCHANGED verdict
    BY <1>5, Zenon DEF LadderReconciles, AsksToFinalize, RollsBack, Finalizes, LadderSelects,
       Prepares, Applies, Readies, ChecksDrift, CreateProbe, Probed, CoreRows, ledgerVars
  <2>. QED BY <2>1 DEF VerdictWrites
<1>. QED BY <1>1, <1>2, <1>3, <1>4, <1>5 DEF RunStep

(* What changes the ladders.                                               *)
LEMMA LadderEffect ==
  ASSUME NEW c \in Caller, RunStep(c)
  PROVE  LadderWrites(c)
<1>1. CASE Prepares(c) \/ Readies(c)
  BY <1>1 DEF LadderWrites
<1>2. CASE Finalizes(c)
  BY <1>2 DEF Finalizes, LadderWrites
<1>3. CASE CreateProbe(c)
  BY <1>3 DEF CreateProbe, LadderWrites
<1>4. CASE \/ Create(c) \/ Insert(c) \/ StartRun(c) \/ StageReconciles(c) \/ StageSettles(c)
           \/ StageFails(c) \/ StageStarts(c) \/ StageSelects(c)
  <2>1. UNCHANGED ladder
    BY <1>4 DEF Create, CreateCampaign, Insert, InsertRuns, StartRun, RowsVars, ledgerVars,
       StageReconciles, ReconcileFirst, StageSettles, ReconcileLast, StageFails, FailBlock,
       StageStarts, StartBlock, StageSelects, ChooseRun, CompletePart
  <2>. QED BY <2>1 DEF LadderWrites
<1>5. CASE \/ CreateRun(c) \/ Attach(c) \/ Works(c) \/ Load(c) \/ Freeze(c) \/ CommitFreeze(c)
           \/ ProbeReconciles(c) \/ ProbeSelects(c)
  <2>1. UNCHANGED ladder
    BY <1>5 DEF CreateRun, Attach, Works, Load, LoadRuns, Freeze, CommitFreeze,
       ProbeReconciles, ProbeSelects, ChooseRun, RowsVars, ledgerVars
  <2>. QED BY <2>1 DEF LadderWrites
<1>6. CASE \/ LadderReconciles(c) \/ AsksToFinalize(c) \/ RollsBack(c) \/ LadderSelects(c)
           \/ Applies(c) \/ ChecksDrift(c) \/ Probed(c) \/ Decide(c) \/ AnalyzeWarmup
           \/ AnalyzeDuration
  <2>1. UNCHANGED ladder
    BY <1>6, Zenon DEF LadderReconciles, AsksToFinalize, RollsBack, LadderSelects, Applies,
       ChecksDrift, Probed, Decide, CommitVerdict, AnalyzeWarmup, AnalyzeDuration, ledgerVars
  <2>. QED BY <2>1 DEF LadderWrites
<1>. QED BY <1>1, <1>2, <1>3, <1>4, <1>5, <1>6 DEF RunStep

(* What changes the configuration of the target.                           *)
LEMMA TargetEffect ==
  ASSUME NEW c \in Caller, RunStep(c)
  PROVE  TargetWrites(c)
<1>1. CASE Applies(c)
  BY <1>1 DEF TargetWrites
<1>2. CASE RollsBack(c)
  BY <1>2 DEF RollsBack, TargetWrites
<1>3. CASE Works(c)
  <2>1. \/ UNCHANGED target
        \/ target' = Default /\ (kind = "saturation" => target = caller[c].trial)
    BY <1>3 DEF Works, RunOnce, Measured, AttemptFails, LeaseLost
  <2>. QED BY <1>3, <2>1 DEF TargetWrites
<1>4. CASE \/ Create(c) \/ Insert(c) \/ StartRun(c) \/ StageReconciles(c) \/ StageSettles(c)
           \/ StageFails(c) \/ StageStarts(c) \/ StageSelects(c)
  <2>1. UNCHANGED target
    BY <1>4 DEF Create, CreateCampaign, OpenCampaign, Insert, InsertRuns, StartRun, RowsVars,
       StageReconciles, ReconcileFirst, StageSettles, ReconcileLast, StageFails, FailBlock,
       StageStarts, StartBlock, StageSelects, ChooseRun, CompletePart
  <2>. QED BY <2>1 DEF TargetWrites
<1>5. CASE \/ CreateRun(c) \/ Attach(c) \/ Load(c) \/ Freeze(c) \/ CommitFreeze(c)
           \/ ProbeReconciles(c) \/ ProbeSelects(c) \/ Decide(c)
  <2>1. UNCHANGED target
    BY <1>5 DEF CreateRun, CreateTrial, Attach, Load, LoadRuns, Freeze, CommitFreeze,
       ProbeReconciles, ProbeSelects, ChooseRun, RowsVars, Decide, CommitVerdict
  <2>. QED BY <2>1 DEF TargetWrites
<1>6. CASE \/ LadderReconciles(c) \/ AsksToFinalize(c) \/ Finalizes(c) \/ LadderSelects(c)
           \/ Prepares(c) \/ Readies(c) \/ ChecksDrift(c) \/ CreateProbe(c) \/ Probed(c)
           \/ AnalyzeWarmup \/ AnalyzeDuration
  <2>1. UNCHANGED target
    BY <1>6, Zenon DEF LadderReconciles, AsksToFinalize, Finalizes, LadderSelects, Prepares,
       Readies, ChecksDrift, CreateProbe, Probed, AnalyzeWarmup, AnalyzeDuration, coreVars
  <2>. QED BY <2>1 DEF TargetWrites
<1>. QED BY <1>1, <1>2, <1>3, <1>4, <1>5, <1>6 DEF RunStep

(* The campaign changes as the operator, a command or a failure has it.    *)
CampaignRow == [status: CampaignStatus, emergency: BOOLEAN, failures: Nat]

CampaignWrites ==
  \/ UNCHANGED campaign
  \/ /\ \E c \in Caller : Create(c)
     /\ campaign' = [status |-> "CREATED", emergency |-> FALSE, failures |-> 0]
  \/ /\ campaign' \in CampaignRow
     /\ \/ campaign'.status = campaign.status
        \/ /\ campaign'.status # "NONE"
           /\ campaign.status \in Open \/ \E c \in Caller : caller[c].at = "measure"
     /\ campaign'.emergency = TRUE =>
          \/ campaign'.status = "STOPPED"
          \/ /\ campaign.emergency = TRUE
             /\ campaign.status \in Open \/ campaign'.status \in {campaign.status, "FAILED"}

(* The operator writes the campaign row like this.                         *)
LEMMA OperatorEffect ==
  ASSUME Types, Operator
  PROVE  CampaignWrites
<1>0. campaign \in CampaignRow
  BY DEF Types, Rows, CampaignRow
<1>1. PICK action \in {"pause", "resume", "stop", "emergency-stop"} :
        /\ campaign.status \in Allowed(action)
        /\ campaign' = [campaign EXCEPT !.status = Target(action),
                                        !.emergency = @ \/ action = "emergency-stop"]
  BY DEF Operator, Control
<1>2. campaign.status \in Open
  BY <1>1 DEF Allowed, Open
<1>3. PICK st : st = Target(action)
  OBVIOUS
<1>4. st \in CampaignStatus /\ st # "NONE" /\ (action = "emergency-stop" => st = "STOPPED")
  BY <1>3 DEF Target, CampaignStatus, Open
<1>5. CASE action = "emergency-stop"
  <2>1. campaign' = [campaign EXCEPT !.status = st, !.emergency = TRUE]
    BY <1>1, <1>3, <1>5
  <2>2. campaign' \in CampaignRow /\ campaign'.status = st
    BY <1>0, <1>4, <2>1 DEF CampaignRow
  <2>. QED BY <1>2, <1>4, <1>5, <2>2 DEF CampaignWrites
<1>6. CASE action # "emergency-stop"
  <2>1. campaign' = [campaign EXCEPT !.status = st, !.emergency = campaign.emergency]
    BY <1>0, <1>1, <1>3, <1>6 DEF CampaignRow
  <2>2. campaign' \in CampaignRow /\ campaign'.status = st
        /\ campaign'.emergency = campaign.emergency
    BY <1>0, <1>4, <2>1 DEF CampaignRow
  <2>. QED BY <1>2, <1>4, <2>2 DEF CampaignWrites
<1>. QED BY <1>5, <1>6

(* So does a command that pauses or stops the campaign at its end.         *)
LEMMA SteerEffect ==
  ASSUME Types, NEW c \in Caller, Leaving(c)
  PROVE  CampaignWrites
<1>0. campaign \in CampaignRow
  BY DEF Types, Rows, CampaignRow
<1>1. CASE Crash(c)
  BY <1>1 DEF Crash, CampaignWrites
<1>2. ASSUME NEW action \in {"pause", "stop"}, Steer(c, action)
      PROVE  CampaignWrites
  <2>1. CASE campaign.status \in Allowed(action)
    <3>1. PICK st : st = Target(action)
      OBVIOUS
    <3>2. st \in CampaignStatus /\ st # "NONE"
      BY <3>1 DEF Target, CampaignStatus, Open
    <3>3. campaign' = [campaign EXCEPT !.status = st]
      BY <1>2, <2>1, <3>1 DEF Steer
    <3>4. campaign' \in CampaignRow /\ campaign'.status = st
          /\ campaign'.emergency = campaign.emergency
      BY <1>0, <3>2, <3>3 DEF CampaignRow
    <3>5. campaign.status \in Open
      BY <2>1 DEF Allowed, Open
    <3>. QED BY <3>2, <3>4, <3>5 DEF CampaignWrites
  <2>2. CASE campaign.status \notin Allowed(action)
    BY <1>2, <2>2 DEF Steer, CampaignWrites
  <2>. QED BY <2>1, <2>2
<1>. QED BY <1>1, <1>2 DEF Leaving

(* So does the worker when an attempt fails.                               *)
LEMMA FailureEffect ==
  ASSUME Types, NEW c \in Caller, AttemptFails(c)
  PROVE  CampaignWrites
<1>0. campaign \in CampaignRow
  BY DEF Types, Rows, CampaignRow
<1>1. CASE UNCHANGED campaign
  BY <1>1 DEF CampaignWrites
<1>2. CASE ~ UNCHANGED campaign
  <2>1. PICK n, st :
          /\ n = campaign.failures + 1
          /\ st = IF n >= FailureLimit[kind] THEN "FAILED" ELSE campaign.status
    OBVIOUS
  <2>2. campaign' = [campaign EXCEPT !.failures = n, !.status = st]
    BY <1>2, <2>1 DEF AttemptFails
  <2>3. n \in Nat /\ st \in CampaignStatus /\ st \in {campaign.status, "FAILED"}
    BY <1>0, <2>1 DEF CampaignRow, CampaignStatus
  <2>4. campaign' \in CampaignRow /\ campaign'.status = st
        /\ campaign'.emergency = campaign.emergency
    BY <1>0, <2>2, <2>3 DEF CampaignRow
  <2>5. caller[c].at = "measure"
    BY DEF AttemptFails
  <2>. QED BY <2>3, <2>4, <2>5 DEF CampaignWrites
<1>. QED BY <1>1, <1>2

(* Nothing else changes the campaign, and its stage is what it is.         *)
LEMMA CampaignEffect ==
  ASSUME Types, [Next]_stageVars
  PROVE  CampaignWrites /\ UNCHANGED kind
<1>1. ASSUME NEW c \in Caller, RunStep(c)
      PROVE  CampaignWrites /\ UNCHANGED kind
  <2>1. CASE Create(c)
    BY <2>1 DEF Create, CreateCampaign, OpenCampaign, CampaignWrites
  <2>2. CASE Works(c)
    <3>1. UNCHANGED kind
      BY <2>2 DEF Works, RunOnce, Measured, AttemptFails, LeaseLost
    <3>2. UNCHANGED campaign \/ AttemptFails(c)
      BY <2>2 DEF Works, RunOnce, Measured, LeaseLost
    <3>. QED BY <3>1, <3>2, FailureEffect DEF CampaignWrites
  <2>3. CASE \/ Insert(c) \/ StartRun(c) \/ StageReconciles(c) \/ StageSettles(c)
             \/ StageFails(c) \/ StageStarts(c) \/ StageSelects(c)
    <3>1. UNCHANGED <<campaign, kind>>
      BY <2>3 DEF Insert, InsertRuns, StartRun, RowsVars, StageReconciles, ReconcileFirst,
         StageSettles, ReconcileLast, StageFails, FailBlock, StageStarts, StartBlock,
         StageSelects, ChooseRun, CompletePart
    <3>. QED BY <3>1 DEF CampaignWrites
  <2>4. CASE \/ CreateRun(c) \/ Attach(c) \/ Load(c) \/ Freeze(c) \/ CommitFreeze(c)
             \/ ProbeReconciles(c) \/ ProbeSelects(c) \/ Decide(c)
    <3>1. UNCHANGED <<campaign, kind>>
      BY <2>4 DEF CreateRun, CreateTrial, Attach, Load, LoadRuns, Freeze, CommitFreeze,
         ProbeReconciles, ProbeSelects, ChooseRun, RowsVars, Decide, CommitVerdict
    <3>. QED BY <3>1 DEF CampaignWrites
  <2>5. CASE \/ LadderReconciles(c) \/ AsksToFinalize(c) \/ Finalizes(c) \/ LadderSelects(c)
             \/ Prepares(c) \/ Readies(c) \/ ChecksDrift(c) \/ CreateProbe(c) \/ Probed(c)
             \/ RollsBack(c) \/ Applies(c) \/ AnalyzeWarmup \/ AnalyzeDuration
    <3>1. UNCHANGED <<campaign, kind>>
      BY <2>5, Zenon DEF LadderReconciles, AsksToFinalize, Finalizes, LadderSelects, Prepares,
         Readies, ChecksDrift, CreateProbe, Probed, RollsBack, Applies, AnalyzeWarmup,
         AnalyzeDuration, coreVars, CoreRows
    <3>. QED BY <3>1 DEF CampaignWrites
  <2>. QED BY <1>1, <2>1, <2>2, <2>3, <2>4, <2>5 DEF RunStep
<1>2. ASSUME NEW c \in Caller, RestoreStep(c)
      PROVE  UNCHANGED <<campaign, kind>>
  BY <1>2 DEF RestoreStep, Repetition, BeginRepetition, ClaimRepetition, CountPassed,
     CommitPassed, RepetitionFails, ClaimRemediation, Rebuild
<1>3. ASSUME NEW c \in Caller, Leaving(c)
      PROVE  UNCHANGED kind
  BY <1>3 DEF Leaving, Steer, Crash
<1>4. Operator => UNCHANGED kind
  BY DEF Operator, Control
<1>5. UNCHANGED stageVars \/ NewSeries \/ NewRemediation => UNCHANGED <<campaign, kind>>
  BY DEF stageVars, runVars, coreVars, NewSeries, PlanSeries, NewRemediation, PlanRemediation
<1>. QED BY <1>1, <1>2, <1>3, <1>4, <1>5, OperatorEffect, SteerEffect, Steps
         DEF CampaignWrites

(* Whether commands have overlapped.                                       *)
OverlapWrites ==
  \/ UNCHANGED overlapped
  \/ \E c \in Caller : caller[c].at = "idle" /\ overlapped' = (overlapped \/ ~Quiet)

(* The record of overlaps is only ever added to.                           *)
LEMMA OverlapEffect ==
  ASSUME [Next]_stageVars
  PROVE  OverlapWrites /\ (overlapped \in BOOLEAN => overlapped' \in BOOLEAN)
<1>1. ASSUME NEW c \in Caller, RunStep(c)
      PROVE  OverlapWrites
  <2>1. CASE StartRun(c) \/ Load(c) \/ Freeze(c)
    BY <2>1, Zenon DEF StartRun, Begin, Load, LoadRuns, Freeze, Enter, OverlapWrites
  <2>2. CASE \/ Create(c) \/ Insert(c) \/ StageReconciles(c) \/ StageSettles(c)
             \/ StageFails(c) \/ StageStarts(c) \/ StageSelects(c)
    <3>1. UNCHANGED overlapped
      BY <2>2, Zenon DEF Create, CreateCampaign, OpenCampaign, Insert, InsertRuns,
         StageReconciles, ReconcileFirst, StageSettles, ReconcileLast, StageFails, FailBlock,
         StageStarts, StartBlock, StageSelects, ChooseRun, CompletePart
    <3>. QED BY <3>1 DEF OverlapWrites
  <2>3. CASE \/ CreateRun(c) \/ Attach(c) \/ Works(c) \/ Decide(c) \/ CommitFreeze(c)
             \/ ProbeReconciles(c) \/ ProbeSelects(c)
    <3>1. UNCHANGED overlapped
      BY <2>3, Zenon DEF CreateRun, CreateTrial, Attach, Works, RunOnce, Measured,
         AttemptFails, LeaseLost, Decide, CommitVerdict, CommitFreeze, ProbeReconciles,
         ProbeSelects, ChooseRun
    <3>. QED BY <3>1 DEF OverlapWrites
  <2>4. CASE \/ LadderReconciles(c) \/ AsksToFinalize(c) \/ Finalizes(c) \/ LadderSelects(c)
             \/ Prepares(c) \/ Readies(c) \/ ChecksDrift(c) \/ CreateProbe(c) \/ Probed(c)
             \/ RollsBack(c) \/ Applies(c) \/ AnalyzeWarmup \/ AnalyzeDuration
    <3>1. UNCHANGED overlapped
      BY <2>4, Zenon DEF LadderReconciles, AsksToFinalize, Finalizes, LadderSelects,
         Prepares, Readies, ChecksDrift, CreateProbe, Probed, RollsBack, Applies,
         AnalyzeWarmup, AnalyzeDuration, coreVars, CoreRows
    <3>. QED BY <3>1 DEF OverlapWrites
  <2>. QED BY <1>1, <2>1, <2>2, <2>3, <2>4 DEF RunStep
<1>2. ASSUME NEW c \in Caller, RestoreStep(c) \/ Leaving(c)
      PROVE  OverlapWrites
  <2>1. CASE BeginRepetition(c) \/ ClaimRemediation(c)
    BY <2>1, Zenon DEF BeginRepetition, ClaimRemediation, Enter, OverlapWrites
  <2>2. CASE \/ ClaimRepetition(c) \/ CountPassed(c) \/ CommitPassed(c)
             \/ RepetitionFails(c) \/ Rebuild(c) \/ Leaving(c)
    <3>1. UNCHANGED overlapped
      BY <2>2, Zenon DEF ClaimRepetition, CountPassed, CommitPassed, RepetitionFails,
         Rebuild, Leaving, Steer, Crash
    <3>. QED BY <3>1 DEF OverlapWrites
  <2>. QED BY <1>2, <2>1, <2>2 DEF RestoreStep, Repetition
<1>3. UNCHANGED stageVars \/ Operator \/ NewSeries \/ NewRemediation => OverlapWrites
  BY Zenon DEF stageVars, runVars, coreVars, Operator, Control, NewSeries, PlanSeries,
     NewRemediation, PlanRemediation, OverlapWrites
<1>4. OverlapWrites
  BY <1>1, <1>2, <1>3, Steps
<1>5. ASSUME overlapped \in BOOLEAN
      PROVE  overlapped' \in BOOLEAN
  <2>1. CASE UNCHANGED overlapped
    BY <1>5, <2>1
  <2>2. CASE overlapped' = (overlapped \/ ~Quiet)
    BY <2>2
  <2>. QED BY <1>4, <2>1, <2>2, Zenon DEF OverlapWrites
<1>. QED BY <1>4, <1>5
-----------------------------------------------------------------------------
(***************************************************************************)
(* Type correctness.                                                       *)
(***************************************************************************)

(* The runs keep their type.                                               *)
LEMMA SlotType ==
  ASSUME Types, [Next]_stageVars
  PROVE  slot' \in [Slot -> SlotStatus]
<1>0. slot \in [Slot -> SlotStatus]
  BY DEF Types, Rows
<1>1. \A st \in {"ABSENT", "PLANNED", "CREATED", "COMPLETED", "FAILED"} : st \in SlotStatus
  BY DEF SlotStatus
<1>2. CASE UNCHANGED slot
  BY <1>0, <1>2
<1>3. ASSUME NEW c \in Caller, SlotWrites(c)
      PROVE  slot' \in [Slot -> SlotStatus]
  <2>1. CASE Insert(c)
    <3>1. PICK runs : slot' = [s \in Slot |-> IF s \in runs THEN "PLANNED" ELSE "ABSENT"]
      BY <2>1 DEF Insert, InsertRuns
    <3>. QED BY <1>1, <3>1
  <2>2. ASSUME NEW s \in Slot, Files(c, s) \/ Refers(c, s)
        PROVE  slot' \in [Slot -> SlotStatus]
    <3>1. PICK st \in SlotStatus : slot' = [slot EXCEPT ![s] = st]
      BY <1>1, <2>2 DEF Files, Refers
    <3>. QED BY <1>0, <3>1
  <2>3. CASE PlansSecond(c)
    <3>1. slot' = [s \in Slot |-> IF s \in Second THEN "PLANNED" ELSE slot[s]]
      BY <2>3 DEF PlansSecond
    <3>. QED BY <1>0, <1>1, <3>1
  <2>. QED BY <1>2, <1>3, <2>1, <2>2, <2>3 DEF SlotWrites
<1>. QED BY <1>2, <1>3, Elsewhere, SlotEffect

(* So does the block.                                                      *)
LEMMA BlockType ==
  ASSUME Types, [Next]_stageVars
  PROVE  block' \in BlockStatus
<1>0. block \in BlockStatus
  BY DEF Types, Rows
<1>1. CASE UNCHANGED block
  BY <1>0, <1>1
<1>2. ASSUME NEW c \in Caller, BlockWrites(c)
      PROVE  block' \in BlockStatus
  <2>1. CASE Insert(c) /\ block' = IF Staged THEN Plan1 ELSE "PLANNED"
    BY <2>1, BlockNames DEF BlockStatus
  <2>2. CASE block' = "FAILED"
    BY <2>2 DEF BlockStatus
  <2>3. CASE StageStarts(c) /\ block = caller[c].block /\ block' = Starts[block]
    <3>1. block \in {Plan1, Plan2}
      BY <2>3 DEF StageStarts, StartBlock, Types, CallerOK, LocalOK
    <3>2. Starts[block] \in BlockStatus
      BY <3>1, BlockNames
    <3>. QED BY <2>3, <3>2
  <2>4. CASE Completes(c)
    <3>1. block' \in {Done1, Done2}
      BY <2>4 DEF Completes
    <3>. QED BY <3>1, BlockNames
  <2>5. CASE Concludes(c)
    <3>1. PICK p \in 1..2 : block' \in Outcomes(p)
      BY <2>5 DEF Concludes
    <3>2. Outcomes(p) \subseteq {"NONE", "MORE", "PASSED", "BLOCKED"} /\ block' # "MORE"
      BY <2>5 DEF Concludes, Outcomes, Types, Rows
    <3>. QED BY <3>1, <3>2 DEF BlockStatus
  <2>6. CASE PlansSecond(c)
    BY <2>6, BlockNames DEF PlansSecond
  <2>. QED BY <1>1, <1>2, <2>1, <2>2, <2>3, <2>4, <2>5, <2>6 DEF BlockWrites
<1>3. ASSUME NEW c \in Caller, RestoreStep(c) \/ Leaving(c)
      PROVE  UNCHANGED block
  BY <1>3 DEF RestoreStep, Repetition, BeginRepetition, ClaimRepetition, CountPassed,
     CommitPassed, RepetitionFails, ClaimRemediation, Rebuild, Leaving, Steer, Crash
<1>4. UNCHANGED stageVars \/ Operator \/ NewSeries \/ NewRemediation => UNCHANGED block
  BY DEF stageVars, runVars, coreVars, Operator, Control, NewSeries, PlanSeries,
     NewRemediation, PlanRemediation
<1>. QED BY <1>1, <1>2, <1>3, <1>4, BlockEffect, Steps

(* And the verdicts.                                                       *)
Verdict == {"NONE", "MORE", "PASSED", "BLOCKED"}

(* Verdicts keep their type.                                               *)
LEMMA VerdictType ==
  ASSUME Types, [Next]_stageVars
  PROVE  verdict' \in [1..2 -> Verdict]
<1>0. verdict \in [1..2 -> Verdict]
  BY DEF Types, Rows, Verdict
<1>1. \A p \in 1..2 : Outcomes(p) \subseteq Verdict
  BY <1>0 DEF Outcomes, Verdict
<1>2. CASE UNCHANGED verdict
  BY <1>0, <1>2
<1>3. ASSUME NEW c \in Caller, VerdictWrites(c)
      PROVE  verdict' \in [1..2 -> Verdict]
  <2>1. ASSUME NEW p \in 1..2, NEW v \in Verdict, verdict' = [verdict EXCEPT ![p] = v]
        PROVE  verdict' \in [1..2 -> Verdict]
    BY <1>0, <2>1
  <2>2. CASE Concludes(c)
    <3>0. PICK p : p = IF caller[c].block = Done1 THEN 1 ELSE 2
      OBVIOUS
    <3>p. p \in 1..2
      BY <3>0
    <3>1. PICK v \in Outcomes(p) : verdict' = [verdict EXCEPT ![p] = v]
      BY <2>2, <3>0 DEF Concludes
    <3>2. v \in Verdict
      BY <1>1, <3>p
    <3>. QED BY <2>1, <3>1, <3>2, <3>p
  <2>3. CASE verdict' = [verdict EXCEPT ![1] = "MORE"]
    BY <2>1, <2>3 DEF Verdict
  <2>4. CASE AnalyzeDuration
    <3>1. PICK v \in Outcomes(2) : verdict' = [verdict EXCEPT ![2] = v]
      BY <2>4 DEF AnalyzeDuration
    <3>p. 2 \in 1..2
      OBVIOUS
    <3>2. v \in Verdict
      BY <1>1, <3>p
    <3>. QED BY <2>1, <3>1, <3>2, <3>p
  <2>. QED BY <1>2, <1>3, <2>2, <2>3, <2>4 DEF VerdictWrites, AnalyzeWarmup
<1>. QED BY <1>2, <1>3, Elsewhere, VerdictEffect

(* And the ladders.                                                        *)
LadderStatus == {"PLANNED", "PREPARING", "READY", "RUNNING", "COMPLETED", "FAILED"}

(* Ladders keep theirs.                                                    *)
LEMMA LadderType ==
  ASSUME Types, [Next]_stageVars
  PROVE  ladder' \in [1..2 -> LadderStatus]
<1>0. ladder \in [1..2 -> LadderStatus] /\ CallerOK
  BY DEF Types, Rows, LadderStatus
<1>1. CASE UNCHANGED ladder
  BY <1>0, <1>1
<1>2. ASSUME NEW c \in Caller, LadderWrites(c)
      PROVE  ladder' \in [1..2 -> LadderStatus]
  <2>0. LocalOK(caller[c])
    BY <1>0 DEF CallerOK
  <2>1. ASSUME NEW l \in 1..2, NEW st \in LadderStatus, ladder' = [ladder EXCEPT ![l] = st]
        PROVE  ladder' \in [1..2 -> LadderStatus]
    BY <1>0, <2>1
  <2>2. CASE Prepares(c)
    <3>1. PICK l \in 1..2 : l = caller[c].number
      BY <2>0, <2>2 DEF Prepares, LocalOK, OnLadder
    <3>2. PICK st : st = IF ladder[l] = "PLANNED" THEN "PREPARING" ELSE ladder[l]
      OBVIOUS
    <3>3. st \in LadderStatus /\ ladder' = [ladder EXCEPT ![l] = st]
      BY <1>0, <2>2, <3>1, <3>2 DEF Prepares, LadderStatus
    <3>. QED BY <2>1, <3>3
  <2>3. CASE Readies(c)
    <3>1. PICK l \in 1..2 : l = caller[c].number
      BY <2>0, <2>3 DEF Readies, LocalOK, OnLadder
    <3>2. PICK st : st = IF ladder[l] = "PREPARING" THEN "READY" ELSE ladder[l]
      OBVIOUS
    <3>3. st \in LadderStatus /\ ladder' = [ladder EXCEPT ![l] = st]
      BY <1>0, <2>3, <3>1, <3>2 DEF Readies, LadderStatus
    <3>. QED BY <2>1, <3>3
  <2>4. CASE /\ Finalizes(c) /\ ladder[caller[c].number] = "RUNNING"
             /\ ladder' = [ladder EXCEPT ![caller[c].number] = caller[c].block]
    <3>1. caller[c].number \in 1..2 /\ caller[c].block \in {"COMPLETED", "FAILED"}
      BY <2>0, <2>4 DEF Finalizes, LocalOK, OnLadder
    <3>. QED BY <2>1, <2>4, <3>1 DEF LadderStatus
  <2>5. CASE CreateProbe(c) /\ slot[caller[c].slot] = "PLANNED"
    <3>1. PICK l \in 1..2 : l = PartOf(caller[c].slot)
      BY DEF PartOf
    <3>2. PICK st : st = IF caller[c].block = "READY" /\ ladder[l] = "READY"
                           THEN "RUNNING" ELSE ladder[l]
      OBVIOUS
    <3>3. st \in LadderStatus /\ ladder' = [ladder EXCEPT ![l] = st]
      BY <1>0, <2>5, <3>1, <3>2 DEF CreateProbe, LadderStatus
    <3>. QED BY <2>1, <3>3
  <2>. QED BY <1>1, <1>2, <2>2, <2>3, <2>4, <2>5 DEF LadderWrites
<1>. QED BY <1>1, <1>2, Elsewhere, LadderEffect

(* And the configuration of the target.                                    *)
LEMMA TargetType ==
  ASSUME Types, [Next]_stageVars
  PROVE  target' \in TrialId \cup {Default} \cup {Own(l) : l \in 1..2}
<1>. DEFINE T == TrialId \cup {Default} \cup {Own(l) : l \in 1..2}
<1>0. target \in T /\ CallerOK
  BY DEF Types, Rows
<1>1. ASSUME NEW c \in Caller, TargetWrites(c)
      PROVE  target' \in T
  <2>1. CASE Applies(c)
    <3>1. PICK l \in 1..2 : l = caller[c].number
      BY <1>0, <2>1 DEF Applies, CallerOK, LocalOK, OnLadder
    <3>. QED BY <2>1, <3>1 DEF Applies
  <2>. QED BY <1>0, <1>1, <2>1 DEF TargetWrites
<1>2. ASSUME NEW c \in Caller, Leaving(c)
      PROVE  target' \in T
  <2>1. caller[c].at = "measure" => caller[c].trial \in TrialId
    BY <1>0 DEF CallerOK, LocalOK
  <2>. QED BY <1>0, <1>2, <2>1 DEF Leaving, Steer, Crash
<1>3. ASSUME NEW c \in Caller, RestoreStep(c)
      PROVE  UNCHANGED target
  BY <1>3 DEF RestoreStep, Repetition, BeginRepetition, ClaimRepetition, CountPassed,
     CommitPassed, RepetitionFails, ClaimRemediation, Rebuild
<1>4. UNCHANGED stageVars \/ Operator \/ NewSeries \/ NewRemediation => UNCHANGED target
  BY DEF stageVars, runVars, coreVars, Operator, Control, NewSeries, PlanSeries,
     NewRemediation, PlanRemediation
<1>. QED BY <1>0, <1>1, <1>2, <1>3, <1>4, TargetEffect, Steps

(* The flag that a failure was passed over.                                *)
LEMMA PassedOverEffect ==
  ASSUME [Next]_stageVars
  PROVE  \/ UNCHANGED passedOver
         \/ \E c \in Caller : Leaving(c) /\ passedOver' = (passedOver \/ caller[c].at = "fail")
<1>1. ASSUME NEW c \in Caller, RunStep(c)
      PROVE  UNCHANGED passedOver
  <2>1. CASE \/ Create(c) \/ Insert(c) \/ StartRun(c) \/ StageReconciles(c) \/ StageSettles(c)
             \/ StageFails(c) \/ StageStarts(c) \/ StageSelects(c)
    BY <2>1, Zenon DEF Create, CreateCampaign, Insert, InsertRuns, StartRun, RowsVars,
       ledgerVars, StageReconciles, ReconcileFirst, StageSettles, ReconcileLast, StageFails,
       FailBlock, StageStarts, StartBlock, StageSelects, ChooseRun, CompletePart
  <2>2. CASE \/ CreateRun(c) \/ Attach(c) \/ Works(c) \/ Load(c) \/ Freeze(c)
             \/ CommitFreeze(c) \/ ProbeReconciles(c) \/ ProbeSelects(c) \/ Decide(c)
    BY <2>2, Zenon DEF CreateRun, Attach, Works, Load, LoadRuns, Freeze, CommitFreeze,
       ProbeReconciles, ProbeSelects, ChooseRun, RowsVars, ledgerVars, Decide, CommitVerdict
  <2>3. CASE \/ LadderReconciles(c) \/ AsksToFinalize(c) \/ RollsBack(c) \/ Finalizes(c)
             \/ LadderSelects(c) \/ Prepares(c) \/ Applies(c) \/ Readies(c) \/ ChecksDrift(c)
             \/ CreateProbe(c) \/ Probed(c) \/ AnalyzeWarmup \/ AnalyzeDuration
    BY <2>3, Zenon DEF LadderReconciles, AsksToFinalize, RollsBack, Finalizes, LadderSelects,
       Prepares, Applies, Readies, ChecksDrift, CreateProbe, Probed, CoreRows, ledgerVars,
       AnalyzeWarmup, AnalyzeDuration
  <2>. QED BY <1>1, <2>1, <2>2, <2>3 DEF RunStep
<1>2. ASSUME NEW c \in Caller, RestoreStep(c)
      PROVE  UNCHANGED passedOver
  BY <1>2, Zenon DEF RestoreStep, Repetition, BeginRepetition, ClaimRepetition, CountPassed,
     CommitPassed, RepetitionFails, ClaimRemediation, Rebuild, ledgerVars
<1>3. UNCHANGED stageVars \/ Operator \/ NewSeries \/ NewRemediation => UNCHANGED passedOver
  BY Zenon DEF stageVars, runVars, ledgerVars, Operator, NewSeries, PlanSeries,
     NewRemediation, PlanRemediation
<1>4. ASSUME NEW c \in Caller, Leaving(c)
      PROVE  UNCHANGED passedOver \/ passedOver' = (passedOver \/ caller[c].at = "fail")
  BY <1>4, Zenon DEF Leaving
<1>. QED BY <1>1, <1>2, <1>3, <1>4, Steps, Zenon

(* So it is a Boolean.                                                     *)
LEMMA PassedOverType ==
  ASSUME Types, [Next]_stageVars
  PROVE  passedOver' \in BOOLEAN
<1>1. passedOver \in BOOLEAN
  BY DEF Types, Rows
<1>. QED BY <1>1, PassedOverEffect, Zenon

(* Whether a series supersedes another is a Boolean.                       *)
LEMMA SupersedesType ==
  ASSUME Types, [Next]_stageVars
  PROVE  supersedes' \in BOOLEAN
<1>0. supersedes \in BOOLEAN
  BY DEF Types, Rows
<1>1. UNCHANGED stageVars \/ Operator => UNCHANGED supersedes
  BY Zenon DEF stageVars, Operator, restoreVars
<1>2. NewSeries \/ NewRemediation => supersedes' \in {supersedes, TRUE, FALSE}
  BY Zenon DEF NewSeries, PlanSeries, NewRemediation, PlanRemediation
<1>3. ASSUME NEW c \in Caller, RestoreStep(c) \/ Leaving(c) \/ UNCHANGED restoreVars
      PROVE  UNCHANGED supersedes
  BY <1>3, Zenon DEF RestoreStep, Repetition, BeginRepetition, ClaimRepetition, CountPassed,
     CommitPassed, RepetitionFails, ClaimRemediation, Rebuild, Leaving, restoreVars
<1>. QED BY <1>0, <1>1, <1>2, <1>3, Steps, Zenon

(* The restore rows.                                                       *)
LEMMA RestoreType ==
  ASSUME Types, [Next]_stageVars
  PROVE  /\ remediation' \in RestoreStatus /\ validation' \in RestoreStatus
         /\ rep' \in [Rep -> RestoreStatus]
<1>. DEFINE Good == /\ remediation' \in RestoreStatus /\ validation' \in RestoreStatus
                    /\ rep' \in [Rep -> RestoreStatus]
<1>0. /\ remediation \in RestoreStatus /\ validation \in RestoreStatus
      /\ rep \in [Rep -> RestoreStatus]
      /\ CallerOK
  BY DEF Types, Rows
<1>a. {"PLANNED", "RUNNING", "PASSED", "FAILED"} \subseteq RestoreStatus
  BY DEF RestoreStatus
<1>1. UNCHANGED restoreVars => Good
  BY <1>0 DEF restoreVars
<1>2. UNCHANGED stageVars \/ Operator => UNCHANGED restoreVars
  BY DEF stageVars, Operator
<1>3. NewSeries \/ NewRemediation => Good
  BY <1>0, <1>a DEF NewSeries, PlanSeries, NewRemediation, PlanRemediation
<1>4. ASSUME NEW c \in Caller, RestoreStep(c)
      PROVE  Good
  <2>0. LocalOK(caller[c])
    BY <1>0 DEF CallerOK
  <2>1. CASE BeginRepetition(c) \/ CountPassed(c)
    BY <1>1, <2>1 DEF BeginRepetition, CountPassed
  <2>2. CASE ClaimRepetition(c)
    <3>1. validation' \in RestoreStatus /\ remediation' \in RestoreStatus
      BY <1>0, <1>a, <2>2 DEF ClaimRepetition
    <3>2. CASE {r \in Rep : rep[r] = "PLANNED"} = {}
      BY <1>0, <2>2, <3>1, <3>2 DEF ClaimRepetition
    <3>3. CASE {r \in Rep : rep[r] = "PLANNED"} # {}
      <4>1. PICK r : r = Min({q \in Rep : rep[q] = "PLANNED"})
        OBVIOUS
      <4>2. rep' = [rep EXCEPT ![r] = "RUNNING"]
        BY <2>2, <3>3, <4>1 DEF ClaimRepetition
      <4>. QED BY <1>0, <1>a, <3>1, <4>2
    <3>. QED BY <3>2, <3>3
  <2>3. CASE CommitPassed(c) \/ RepetitionFails(c)
    <3>1. validation' \in RestoreStatus /\ remediation' \in RestoreStatus
      BY <1>0, <1>a, <2>3 DEF CommitPassed, RepetitionFails
    <3>2. PICK st \in {"PASSED", "FAILED"} : rep' = [rep EXCEPT ![caller[c].number] = st]
      BY <2>3 DEF CommitPassed, RepetitionFails
    <3>3. st \in RestoreStatus
      BY <1>a
    <3>. QED BY <1>0, <3>1, <3>2, <3>3
  <2>4. CASE ClaimRemediation(c) \/ Rebuild(c)
    BY <1>0, <1>a, <2>4 DEF ClaimRemediation, Rebuild
  <2>. QED BY <1>4, <2>1, <2>2, <2>3, <2>4 DEF RestoreStep, Repetition
<1>5. ASSUME NEW c \in Caller, Leaving(c)
      PROVE  UNCHANGED restoreVars
  BY <1>5 DEF Leaving, restoreVars
<1>. QED BY <1>1, <1>2, <1>3, <1>4, <1>5, Steps

(* The rows of the database keep their types.                              *)
LEMMA RowsStep ==
  ASSUME Types, [Next]_stageVars
  PROVE  Rows' /\ kind' = kind
<1>1. kind' = kind /\ campaign' \in CampaignRow
  <2>1. campaign \in CampaignRow
    BY DEF Types, Rows, CampaignRow
  <2>2. [status |-> "CREATED", emergency |-> FALSE, failures |-> 0] \in CampaignRow
    BY DEF CampaignRow, CampaignStatus, Open
  <2>. QED BY <2>1, <2>2, CampaignEffect DEF CampaignWrites
<1>2. kind' \in Kind /\ trial' \in [TrialId -> [state: TrialState, tries: 0..MaxTries[kind']]]
  BY <1>1, TrialEffect DEF TrialsWritten, TrialRow, Types, Rows
<1>3. overlapped' \in BOOLEAN
  BY OverlapEffect, Zenon DEF Types, Rows
<1>. QED BY <1>1, <1>2, <1>3, SlotType, BlockType, VerdictType, LadderType, TargetType,
            PassedOverType, RestoreType, SupersedesType
         DEF Rows, CampaignRow, Verdict, LadderStatus

(* What happens to the commands.                                           *)
LEMMA CallersStep ==
  ASSUME Types, [Next]_stageVars
  PROVE  UNCHANGED caller \/ \E c \in Caller : Moves(c)
<1>1. UNCHANGED stageVars \/ Operator \/ NewSeries \/ NewRemediation => UNCHANGED caller
  BY DEF stageVars, runVars, coreVars, Operator, Control, NewSeries, PlanSeries,
     NewRemediation, PlanRemediation
<1>2. AnalyzeWarmup \/ AnalyzeDuration => UNCHANGED caller
  BY DEF AnalyzeWarmup, AnalyzeDuration, coreVars
<1>. QED BY <1>1, <1>2, CommandMoves, Steps

(* The types hold initially.                                               *)
LEMMA TypesInit ==
  ASSUME Init
  PROVE  Types
<1>1. kind \in Kind /\ MaxTries[kind] \in Nat
  BY StageCoreAssumption DEF Init, InitCore
<1>2. campaign \in [status: CampaignStatus, emergency: BOOLEAN, failures: Nat]
  BY DEF Init, InitCore, CampaignStatus
<1>3. trial \in [TrialId -> [state: TrialState, tries: 0..MaxTries[kind]]]
  <2>1. Absent \in [state: TrialState, tries: 0..MaxTries[kind]]
    BY <1>1 DEF Absent, TrialState
  <2>. QED BY <2>1 DEF Init, InitCore
<1>4. block \in BlockStatus /\ target \in TrialId \cup {Default} \cup {Own(l) : l \in 1..2}
  BY DEF Init, InitCore, BlockStatus
<1>5. overlapped \in BOOLEAN /\ passedOver \in BOOLEAN /\ supersedes \in BOOLEAN
  BY Zenon DEF Init, InitCore, InitLedger, InitRestore
<1>6. /\ slot \in [Slot -> SlotStatus]
      /\ verdict \in [1..2 -> {"NONE", "MORE", "PASSED", "BLOCKED"}]
      /\ ladder \in [1..2 -> {"PLANNED", "PREPARING", "READY", "RUNNING", "COMPLETED", "FAILED"}]
  BY DEF Init, InitLedger, SlotStatus
<1>7. /\ remediation \in RestoreStatus /\ validation \in RestoreStatus
      /\ rep \in [Rep -> RestoreStatus]
  BY DEF Init, InitRestore, RestoreStatus
<1>8. CallerOK
  <2>1. LocalOK(Idle)
    BY IdleLocal DEF LocalOK, OnRun, OnLadder
  <2>2. caller = [c \in Caller |-> Idle]
    BY DEF Init, InitCore
  <2>. QED BY <2>1, <2>2, IdleLocal DEF CallerOK
<1>. QED BY <1>1, <1>2, <1>3, <1>4, <1>5, <1>6, <1>7, <1>8 DEF Types, Rows

(* The inductive step: the rows, then the commands.                        *)
LEMMA TypesStep ==
  ASSUME Types, [Next]_stageVars
  PROVE  Types'
<1>1. Rows' /\ kind' = kind
  BY RowsStep
<1>2. ASSUME NEW l, LocalOK(l)
      PROVE  LocalOK(l)'
  BY <1>1, <1>2 DEF LocalOK, LocalType, Plan1, Plan2
<1>3. CallerOK'
  <2>1. CASE UNCHANGED caller
    BY <1>2, <2>1 DEF Types, CallerOK, LocalType
  <2>2. ASSUME NEW c \in Caller, Moves(c)
        PROVE  CallerOK'
    <3>1. PICK m : caller' = [caller EXCEPT ![c] = m] /\ LocalOK(m)
      BY <2>2 DEF Moves
    <3>2. m \in LocalType /\ caller \in [Caller -> LocalType]
      BY <3>1 DEF LocalOK, Types, CallerOK
    <3>3. caller' \in [Caller -> LocalType]
      BY <3>1, <3>2
    <3>4. ASSUME NEW d \in Caller
          PROVE  LocalOK(caller'[d])
      BY <3>1, <3>2 DEF Types, CallerOK
    <3>5. \A d \in Caller : LocalOK(caller[d])'
      <4>1. ASSUME NEW d \in Caller, NEW n, n = caller'[d], LocalOK(n)
            PROVE  LocalOK(caller[d])'
        BY <1>2, <4>1 DEF LocalOK, LocalType
      <4>. QED BY <3>4, <4>1
    <3>. QED BY <3>3, <3>5 DEF CallerOK, LocalType
  <2>. QED BY <2>1, <2>2, CallersStep
<1>. QED BY <1>1, <1>3 DEF Types

(* The types, and what each position of a command has in hand.             *)
LEMMA TypesAlways == Spec => []Types
<1>1. Init => Types
  BY TypesInit
<1>2. Types /\ [Next]_stageVars => Types'
  BY TypesStep
<1>. QED BY <1>1, <1>2, PTL DEF Spec

(* Every variable keeps its type, and every command has what its position  *)
(* needs: a run to execute, a trial to measure, a repetition to validate,  *)
(* in every stage (campaigns/*.py), for every number of callers and runs.  *)
THEOREM StageTypesHold == Spec => []TypeOK
<1>1. Types => TypeOK
  <2>. SUFFICES ASSUME Types
                PROVE  TypeOK
    OBVIOUS
  <2>1. \A c \in Caller :
          /\ caller[c].at \in {"trial", "attach", "drift?", "probe"} => caller[c].slot \in Slot
          /\ caller[c].at = "measure" => caller[c].trial \in TrialId
          /\ caller[c].at \in {"validate", "pass"} => caller[c].number \in Rep
    BY DEF Types, CallerOK, LocalOK, OnRun
  <2>2. {Coarse!Own(l) : l \in Coarse!Ladder} = {Own(l) : l \in 1..2}
    BY CoarseNames
  <2>3. caller \in [Caller ->
          [at: Positions, seen: CampaignStatus, block: BlockStatus \cup {"READY", "RUNNING"},
           open: BOOLEAN, slot: Slot \cup {0}, number: Rep \cup {0} \cup Coarse!Ladder,
           given: SUBSET Rep, trial: TrialId \cup {NoTrial}]]
    BY CoarseNames DEF Types, CallerOK, LocalType
  <2>. QED BY <2>1, <2>2, <2>3, Zenon DEF Types, Rows, TypeOK
<1>. QED BY <1>1, TypesAlways, PTL
=============================================================================
