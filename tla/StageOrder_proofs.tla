-------------------------- MODULE StageOrder_proofs --------------------------
(***************************************************************************)
(* Proofs about the stages: what holds however commands overlap, what a    *)
(* command may rely on while they do not, and the four properties that     *)
(* rest on both.                                                           *)
(***************************************************************************)
EXTENDS StageCampaigns_proofs

-----------------------------------------------------------------------------
(***************************************************************************)
(* What holds however commands overlap.                                    *)
(***************************************************************************)
RestoreAt == {"claim", "validate", "pass", "rebuild"}

(* Before its block is inserted, nothing is known of a stage.              *)
Fresh == block = "NONE" =>
  /\ \A s \in Slot : slot[s] = "ABSENT"
  /\ \A p \in 1..2 : verdict[p] = "NONE" /\ ladder[p] = "PLANNED"
  /\ \A t \in TrialId : trial[t] = Absent
  /\ \A c \in Caller : caller[c].at \in {"idle", "ledger"} \cup RestoreAt

(* One creation at a time, and the campaign row comes first.               *)
LedgerAlone == \A c \in Caller : caller[c].at = "ledger" =>
  /\ block = "NONE" /\ campaign.status # "NONE"
  /\ \A d \in Caller : caller[d].at = "ledger" => d = c

Created == block # "NONE" => campaign.status # "NONE"

EmergencyEnds == campaign.emergency = TRUE => campaign.status \in {"STOPPED", "FAILED"}

(* A repetition is one command's; what a command counted has passed, but   *)
(* for its own.                                                            *)
InSeries(l) == l.at \in {"validate", "pass"}

Reps ==
  /\ validation = "PASSED" => \A r \in Rep : rep[r] = "PASSED"
  /\ \A c \in Caller : InSeries(caller[c]) =>
       /\ rep[caller[c].number] = "RUNNING"
       /\ \A d \in Caller : InSeries(caller[d]) /\ caller[d].number = caller[c].number => d = c
  /\ \A c \in Caller : caller[c].at = "pass" =>
       \A r \in caller[c].given : r = caller[c].number \/ rep[r] = "PASSED"

(* The database is rebuilt by one command.  The rebuilding follows the     *)
(* series that failed and precedes the one that supersedes it; the         *)
(* campaign comes after a series that passed.                              *)
Rebuilt ==
  /\ \A c \in Caller : caller[c].at = "rebuild" =>
       remediation = "RUNNING" /\ \A d \in Caller : caller[d].at = "rebuild" => d = c
  /\ kind = "recovery" =>
       /\ remediation # "NONE" => validation = "FAILED" \/ supersedes
       /\ supersedes => remediation = "PASSED" /\ validation # "NONE"
       /\ campaign.status # "NONE" => validation = "PASSED"

(* A stage uses its own names.                                             *)
StageBlock == {"NONE"} \cup
  IF Staged THEN {Plan1, Run1, Done1, Plan2, Run2, Done2, "PASSED", "BLOCKED", "FAILED"}
            ELSE {"PLANNED"}

Blocks ==
  /\ block \in StageBlock
  /\ kind = "warmup" => block \notin {"PASSED", "BLOCKED"}
  /\ Staged => \A c \in Caller :
       /\ caller[c].at = "start" => caller[c].block \in {Plan1, Plan2}
       /\ caller[c].at = "select" => caller[c].block \in {Run1, Run2}

(* Runs and verdicts go together.                                          *)
Verdicts ==
  /\ verdict[2] # "MORE"
  /\ ~Staged => \A p \in 1..2 : verdict[p] = "NONE"
  /\ Staged /\ block # "NONE" => \A s \in First : slot[s] # "ABSENT"
  /\ Analyzed =>
       /\ verdict[1] = "MORE" => \A s \in Second : slot[s] # "ABSENT"
       /\ verdict[1] # "MORE" => \A s \in Second : slot[s] = "ABSENT"
       /\ block \in {"PASSED", "BLOCKED"} => verdict[1] # "NONE"
       /\ block \in {Plan2, Run2, Done2} => verdict[1] = "MORE"
       /\ \A c \in Caller : caller[c].at = "analyze" =>
            /\ block # "NONE" /\ caller[c].block \in {Done1, Done2}
            /\ caller[c].block = Done2 => verdict[1] = "MORE"

(* The default reference is analysed when its runs are measured, and stays *)
(* so.                                                                     *)
RefOK == kind = "reference" =>
  /\ \A c \in Caller : caller[c].at = "analyze" =>
       \A s \in Slot : s \in First \/ caller[c].block = Done2 =>
         slot[s] \in {"ABSENT", "COMPLETED"}
  /\ block \in {"PASSED", "BLOCKED"} => \A s \in Slot : slot[s] \in {"ABSENT", "COMPLETED"}

(* So are the parts of the warm-up pilot.                                  *)
WarmOK == kind = "warmup" =>
  /\ verdict[1] # "NONE" => \A s \in First : slot[s] = "COMPLETED"
  /\ verdict[2] # "NONE" => \A s \in Second : slot[s] = "COMPLETED"
  /\ (\E s \in Second : slot[s] # "ABSENT") => verdict[1] # "NONE"
  /\ \A c \in Caller : caller[c].at = "freeze" => verdict[1] # "NONE"

(* The status of a run and that of its trial; a trial that runs is         *)
(* somebody's, one that waits has an attempt left.                         *)
TrialOK(t) ==
  /\ trial[t].state = "NONE" => trial[t].tries = 0
  /\ trial[t].state = "QUEUED" => trial[t].tries < MaxTries[kind]
  /\ trial[t].state # "INTERRUPTED"
  /\ trial[t].state = "RUNNING" => \E c \in Caller : caller[c].at = "measure" /\ caller[c].trial = t

RunTrials ==
  /\ \A s \in Slot : slot[s] = "COMPLETED" => trial[RunTrial(s)].state = "COMPLETED"
  /\ \A s \in Slot : slot[s] = "FAILED" => trial[RunTrial(s)].state \in Failures
  /\ \A s \in Slot : slot[s] = "CREATED" => trial[RunTrial(s)].state # "NONE"
  /\ \A c \in Caller : caller[c].at = "attach" => trial[RunTrial(caller[c].slot)].state # "NONE"

Trials == RunTrials /\ \A t \in TrialId : TrialOK(t)

Always ==
  /\ Fresh /\ LedgerAlone /\ Created /\ EmergencyEnds
  /\ Reps /\ Rebuilt
  /\ Blocks /\ Verdicts /\ RefOK /\ WarmOK
  /\ Trials
-----------------------------------------------------------------------------
(* Steps that are no command's.                                            *)
Outside == UNCHANGED stageVars \/ Operator \/ NewSeries \/ NewRemediation

(* They write only the campaign row and the restore rows.                  *)
LEMMA OutsideFrame ==
  ASSUME Outside
  PROVE  UNCHANGED <<kind, block, target, caller, overlapped, slot, verdict, ladder, passedOver>>
BY Zenon DEF Outside, stageVars, runVars, coreVars, ledgerVars, Operator, Control, NewSeries,
   PlanSeries, NewRemediation, PlanRemediation

(* The restores have their own rows.                                       *)
LEMMA RestoreFrame ==
  ASSUME Types, NEW c \in Caller, RestoreStep(c)
  PROVE  /\ UNCHANGED <<kind, campaign, block, trial, target, slot, verdict, ladder, passedOver>>
         /\ caller[c].at \in RestoreAt \cup {"idle"}
         /\ caller'[c].at \in RestoreAt \cup {"idle"}
         /\ \A d \in Caller : d # c => caller'[d] = caller[d]
<1>0. caller \in [Caller -> LocalType]
  BY DEF Types, CallerOK
<1>1. UNCHANGED <<kind, campaign, block, trial, target, slot, verdict, ladder, passedOver>>
  BY Zenon DEF RestoreStep, Repetition, BeginRepetition, ClaimRepetition, CountPassed,
     CommitPassed, RepetitionFails, ClaimRemediation, Rebuild, ledgerVars
<1>2. caller[c].at \in RestoreAt \cup {"idle"}
  BY DEF RestoreStep, Repetition, BeginRepetition, ClaimRepetition, CountPassed, CommitPassed,
     RepetitionFails, ClaimRemediation, Rebuild, Enter, RestoreAt
<1>3. ASSUME NEW m, m.at \in RestoreAt \cup {"idle"}, caller' = [caller EXCEPT ![c] = m]
      PROVE  /\ caller'[c].at \in RestoreAt \cup {"idle"}
             /\ \A d \in Caller : d # c => caller'[d] = caller[d]
  BY <1>0, <1>3
<1>4. \E m : m.at \in RestoreAt \cup {"idle"} /\ caller' = [caller EXCEPT ![c] = m]
  <2>1. CASE BeginRepetition(c)
    <3>1. PICK m : m = [Idle EXCEPT !.at = "claim", !.block = validation]
      OBVIOUS
    <3>2. m.at = "claim"
      BY <3>1 DEF Idle
    <3>. QED BY <2>1, <3>1, <3>2 DEF BeginRepetition, Enter, RestoreAt
  <2>2. CASE ClaimRemediation(c)
    <3>1. PICK m : m = [Idle EXCEPT !.at = "rebuild"]
      OBVIOUS
    <3>2. m.at = "rebuild"
      BY <3>1 DEF Idle
    <3>. QED BY <2>2, <3>1, <3>2 DEF ClaimRemediation, Enter, RestoreAt
  <2>3. CASE CountPassed(c)
    <3>1. PICK g : g = {r \in Rep : rep[r] = "PASSED"} \cup {caller[c].number}
      OBVIOUS
    <3>2. PICK m : m = [caller[c] EXCEPT !.at = "pass", !.given = g]
      OBVIOUS
    <3>3. m.at = "pass"
      BY <1>0, <3>2 DEF LocalType
    <3>4. caller' = [caller EXCEPT ![c] = m]
      BY <1>0, <2>3, <3>1, <3>2 DEF CountPassed
    <3>. QED BY <3>3, <3>4 DEF RestoreAt
  <2>4. CASE ClaimRepetition(c) /\ ~Leave(c)
    <3>1. PICK n : n = Min({r \in Rep : rep[r] = "PLANNED"})
      OBVIOUS
    <3>2. PICK m : m = [Idle EXCEPT !.at = "validate", !.number = n]
      OBVIOUS
    <3>3. m.at = "validate"
      BY <3>2 DEF Idle
    <3>4. caller' = [caller EXCEPT ![c] = m]
      BY <2>4, <3>1, <3>2 DEF ClaimRepetition
    <3>. QED BY <3>3, <3>4 DEF RestoreAt
  <2>5. CASE Leave(c)
    BY <2>5, IdleLocal DEF Leave
  <2>. QED BY <2>1, <2>2, <2>3, <2>4, <2>5 DEF RestoreStep, Repetition, CommitPassed,
              RepetitionFails, Rebuild
<1>. QED BY <1>1, <1>2, <1>3, <1>4

(* A command that ends.                                                    *)
LEMMA LeavingFrame ==
  ASSUME Types, NEW c \in Caller, Leaving(c)
  PROVE  /\ UNCHANGED <<kind, block, overlapped, slot, verdict, ladder, restoreVars>>
         /\ caller'[c] = Idle
         /\ \A d \in Caller : d # c => caller'[d] = caller[d]
<1>0. caller \in [Caller -> LocalType]
  BY DEF Types, CallerOK
<1>1. UNCHANGED <<kind, block, overlapped, slot, verdict, ladder, restoreVars>>
  BY Zenon DEF Leaving, Steer, Crash
<1>2. caller' = [caller EXCEPT ![c] = Idle]
  BY DEF Leaving, Steer, Crash, Leave
<1>. QED BY <1>0, <1>1, <1>2

(* The analyses of the warm-up pilot write one row.                        *)
Analysis == AnalyzeWarmup \/ AnalyzeDuration

(* It is the verdict.                                                      *)
LEMMA AnalysisFrame ==
  ASSUME Analysis
  PROVE  UNCHANGED <<kind, campaign, block, trial, target, caller, overlapped, slot, ladder, passedOver>>
BY Zenon DEF Analysis, AnalyzeWarmup, AnalyzeDuration, coreVars

(* Every step is one of these.                                             *)
LEMMA Kinds ==
  ASSUME Types, [Next]_stageVars
  PROVE  \/ Outside
         \/ \E c \in Caller :
              \/ RunStep(c) /\ UNCHANGED restoreVars /\ (Moves(c) \/ Analysis)
              \/ RestoreStep(c) /\ Moves(c)
              \/ Leaving(c)
<1>1. ASSUME NEW c \in Caller, RestoreStep(c)
      PROVE  Moves(c)
  BY <1>1, RestoreMoves
<1>. QED BY <1>1, CommandMoves, Steps DEF Outside, Analysis

(* One caller changes.                                                     *)
LEMMA MovedCaller ==
  ASSUME Types, NEW c \in Caller, Moves(c)
  PROVE  /\ LocalOK(caller'[c]) /\ Arrives(c, caller'[c])
         /\ \A d \in Caller : d # c => caller'[d] = caller[d]
<1>1. PICK m : caller' = [caller EXCEPT ![c] = m] /\ LocalOK(m) /\ Arrives(c, m)
  BY DEF Moves
<1>2. caller'[c] = m /\ \A d \in Caller : d # c => caller'[d] = caller[d]
  BY <1>1 DEF Types, CallerOK
<1>. QED BY <1>1, <1>2

(* Before the block there is only its creation.                            *)
LEMMA BeginningSteps ==
  ASSUME Types, Fresh, block = "NONE", NEW c \in Caller, RunStep(c)
  PROVE  Create(c) \/ Insert(c)
<1>0. caller[c].at \in {"idle", "ledger", "claim", "validate", "pass", "rebuild"}
  BY DEF Fresh, RestoreAt
<1>1. /\ ~StartRun(c) /\ ~StageReconciles(c) /\ ~StageSettles(c) /\ ~StageFails(c)
      /\ ~StageStarts(c) /\ ~StageSelects(c) /\ ~CreateRun(c) /\ ~Attach(c)
      /\ ~Works(c)
  BY <1>0 DEF StartRun, Begin, StageReconciles, ReconcileFirst, StageSettles, ReconcileLast,
     StageFails, FailBlock, StageStarts, StartBlock, StageSelects, ChooseRun, CompletePart,
     CreateRun, Attach, Works, RunOnce, Measured, AttemptFails, LeaseLost
<1>2. Done1 # "NONE" /\ Done2 # "NONE"
  BY DEF Done1, Done2
<1>3. /\ ~Load(c) /\ ~Decide(c) /\ ~AnalyzeWarmup /\ ~Freeze(c) /\ ~CommitFreeze(c)
      /\ ~AnalyzeDuration
  BY <1>0, <1>2 DEF Load, LoadRuns, Decide, CommitVerdict, AnalyzeWarmup, Freeze,
     CommitFreeze, AnalyzeDuration
<1>4. /\ ~ProbeReconciles(c) /\ ~ProbeSelects(c) /\ ~LadderReconciles(c)
      /\ ~AsksToFinalize(c) /\ ~RollsBack(c) /\ ~Finalizes(c) /\ ~LadderSelects(c)
      /\ ~Prepares(c) /\ ~Applies(c) /\ ~Readies(c) /\ ~ChecksDrift(c) /\ ~CreateProbe(c)
      /\ ~Probed(c)
  BY <1>0, Zenon DEF ProbeReconciles, ProbeSelects, ChooseRun, LadderReconciles, AsksToFinalize,
     RollsBack, Finalizes, LadderSelects, Prepares, Applies, Readies, ChecksDrift,
     CreateProbe, Probed
<1>. QED BY <1>1, <1>3, <1>4 DEF RunStep

(* A block, once inserted, stays.                                          *)
LEMMA BlockStays ==
  ASSUME Types, [Next]_stageVars, block # "NONE"
  PROVE  block' # "NONE"
<1>1. ASSUME NEW c \in Caller, BlockWrites(c)
      PROVE  block' # "NONE"
  <2>1. CASE Insert(c) /\ block' = IF Staged THEN Plan1 ELSE "PLANNED"
    BY <2>1 DEF Plan1
  <2>2. CASE StageStarts(c) /\ block = caller[c].block /\ block' = Starts[block]
    <3>1. block \in {Plan1, Plan2}
      BY <2>2 DEF StageStarts, StartBlock, Types, CallerOK, LocalOK
    <3>2. Starts[block] \in {Run1, Run2}
      BY <3>1, BlockNames
    <3>. QED BY <2>2, <3>2 DEF Run1, Run2
  <2>3. CASE Completes(c)
    BY <2>3 DEF Completes, Done1, Done2
  <2>4. CASE Concludes(c)
    <3>1. PICK p : block' \in Outcomes(p)
      BY <2>4 DEF Concludes
    <3>. QED BY <3>1 DEF Outcomes
  <2>5. CASE PlansSecond(c)
    BY <2>5 DEF PlansSecond, Plan2
  <2>. QED BY <1>1, <2>1, <2>2, <2>3, <2>4, <2>5 DEF BlockWrites
<1>. QED BY <1>1, BlockEffect, OutsideFrame, RestoreFrame, LeavingFrame, Kinds

(* So does the campaign.                                                   *)
LEMMA StatusStays ==
  ASSUME Types, [Next]_stageVars, campaign.status # "NONE"
  PROVE  campaign'.status # "NONE"
<1>1. CASE UNCHANGED campaign
  BY <1>1
<1>2. CASE campaign' = [status |-> "CREATED", emergency |-> FALSE, failures |-> 0]
  BY <1>2
<1>3. CASE campaign'.status = campaign.status \/ campaign'.status # "NONE"
  BY <1>3
<1>. QED BY <1>1, <1>2, <1>3, CampaignEffect DEF CampaignWrites

(* The first row of a stage to be written is its block.                    *)
LEMMA FreshStep ==
  ASSUME Types, Fresh, [Next]_stageVars
  PROVE  Fresh'
<1>. SUFFICES ASSUME block' = "NONE"
              PROVE  /\ \A s \in Slot : slot'[s] = "ABSENT"
                     /\ \A p \in 1..2 : verdict'[p] = "NONE" /\ ladder'[p] = "PLANNED"
                     /\ \A t \in TrialId : trial'[t] = Absent
                     /\ \A c \in Caller : caller'[c].at \in {"idle", "ledger"} \cup RestoreAt
  BY DEF Fresh
<1>1. block = "NONE"
  BY BlockStays
<1>2. /\ \A s \in Slot : slot[s] = "ABSENT"
      /\ \A p \in 1..2 : verdict[p] = "NONE" /\ ladder[p] = "PLANNED"
      /\ \A t \in TrialId : trial[t] = Absent
      /\ \A c \in Caller : caller[c].at \in {"idle", "ledger"} \cup RestoreAt
  BY <1>1 DEF Fresh
<1>3. CASE Outside
  <2>1. UNCHANGED <<slot, verdict, ladder, caller>>
    BY <1>3, OutsideFrame
  <2>2. ASSUME NEW t \in TrialId
        PROVE  trial'[t] = Absent
    <3>1. CASE Operator
      <4>1. t \notin Unfinished
        BY <1>2 DEF Unfinished, Absent
      <4>2. PICK a : trial' = [u \in TrialId |->
               IF a = "emergency-stop" /\ u \in Unfinished
                 THEN [trial[u] EXCEPT !.state = "CANCELLED"] ELSE trial[u]]
        BY <3>1 DEF Operator, Control
      <4>. QED BY <1>2, <4>1, <4>2
    <3>2. CASE ~Operator
      BY <1>2, <1>3, <3>2 DEF Outside, stageVars, runVars, coreVars, NewSeries, PlanSeries,
         NewRemediation, PlanRemediation
    <3>. QED BY <3>1, <3>2
  <2>. QED BY <1>2, <2>1, <2>2
<1>4. ASSUME NEW c \in Caller, RunStep(c), Moves(c) \/ Analysis
      PROVE  /\ UNCHANGED <<slot, verdict, ladder, trial>>
             /\ \A d \in Caller : caller'[d].at \in {"idle", "ledger"} \cup RestoreAt
  <2>1. CASE Create(c)
    <3>1. UNCHANGED <<slot, verdict, ladder, trial>> /\ Proceed(c, "ledger")
      BY <2>1 DEF Create, CreateCampaign, OpenCampaign, ledgerVars
    <3>2. caller'[c].at = "ledger" /\ \A d \in Caller : d # c => caller'[d] = caller[d]
      BY <3>1 DEF Proceed, Types, CallerOK, LocalType
    <3>. QED BY <1>2, <3>1, <3>2
  <2>2. CASE Insert(c)
    BY <2>2 DEF Insert, InsertRuns, Plan1
  <2>. QED BY <1>1, <1>4, <2>1, <2>2, BeginningSteps
<1>5. ASSUME NEW c \in Caller, RestoreStep(c)
      PROVE  /\ UNCHANGED <<slot, verdict, ladder, trial>>
             /\ \A d \in Caller : caller'[d].at \in {"idle", "ledger"} \cup RestoreAt
  BY <1>2, <1>5, RestoreFrame
<1>6. ASSUME NEW c \in Caller, Leaving(c)
      PROVE  /\ UNCHANGED <<slot, verdict, ladder, trial>>
             /\ \A d \in Caller : caller'[d].at \in {"idle", "ledger"} \cup RestoreAt
  <2>1. caller[c].at \in {"idle", "ledger", "claim", "validate", "pass", "rebuild"}
    BY <1>2 DEF RestoreAt
  <2>2. UNCHANGED trial
    BY <1>6, <2>1 DEF Leaving, Steer, Crash
  <2>. QED BY <1>2, <1>6, <2>2, LeavingFrame, IdleLocal
<1>. QED BY <1>2, <1>3, <1>4, <1>5, <1>6, Kinds

(* Creation begins with the campaign row, which is created once.           *)
LEMMA LedgerAloneStep ==
  ASSUME Types, Fresh, LedgerAlone, [Next]_stageVars
  PROVE  LedgerAlone'
<1>1. ASSUME NEW d \in Caller, caller[d].at = "ledger"
      PROVE  campaign'.status # "NONE"
  BY <1>1, StatusStays DEF LedgerAlone
<1>2. CASE Outside
  BY <1>1, <1>2, OutsideFrame DEF LedgerAlone
<1>3. ASSUME NEW c \in Caller, RunStep(c), Moves(c)
      PROVE  LedgerAlone'
  <2>0. Arrives(c, caller'[c]) /\ \A d \in Caller : d # c => caller'[d] = caller[d]
    BY <1>3, MovedCaller
  <2>1. CASE Create(c)
    <3>1. /\ block' = block /\ block = "NONE"
          /\ campaign' = [status |-> "CREATED", emergency |-> FALSE, failures |-> 0]
          /\ \A d \in Caller : caller[d].at = "idle"
      BY <2>1 DEF Create, CreateCampaign, OpenCampaign, Quiet, Busy
    <3>2. campaign'.status # "NONE"
      BY <3>1
    <3>3. ASSUME NEW d \in Caller, caller'[d].at = "ledger"
          PROVE  d = c
      BY <2>0, <3>1, <3>3
    <3>. QED BY <3>1, <3>2, <3>3 DEF LedgerAlone
  <2>2. CASE ~Create(c)
    <3>1. caller'[c].at # "ledger"
      BY <2>0, <2>2 DEF Arrives
    <3>2. ASSUME NEW d \in Caller, caller'[d].at = "ledger"
          PROVE  /\ block' = "NONE" /\ campaign'.status # "NONE"
                 /\ \A e \in Caller : caller'[e].at = "ledger" => e = d
      <4>1. d # c /\ caller[d].at = "ledger"
        BY <2>0, <3>1, <3>2
      <4>2. block = "NONE" /\ \A e \in Caller : caller[e].at = "ledger" => e = d
        BY <4>1 DEF LedgerAlone
      <4>3. Insert(c)
        BY <1>3, <2>2, <4>2, BeginningSteps
      <4>4. caller[c].at = "ledger"
        BY <4>3 DEF Insert, InsertRuns
      <4>. QED BY <4>1, <4>2, <4>4
    <3>. QED BY <3>2 DEF LedgerAlone
  <2>. QED BY <2>1, <2>2
<1>4. ASSUME NEW c \in Caller, RunStep(c), Analysis
      PROVE  LedgerAlone'
  BY <1>1, <1>4, AnalysisFrame DEF LedgerAlone
<1>5. ASSUME NEW c \in Caller, RestoreStep(c) \/ Leaving(c)
      PROVE  LedgerAlone'
  <2>1. /\ UNCHANGED block /\ caller'[c].at # "ledger"
        /\ \A d \in Caller : d # c => caller'[d] = caller[d]
    BY <1>5, RestoreFrame, LeavingFrame, IdleLocal DEF RestoreAt
  <2>. QED BY <1>1, <2>1 DEF LedgerAlone
<1>. QED BY <1>2, <1>3, <1>4, <1>5, Kinds

(* A block is inserted by a creation, hence after its campaign.            *)
LEMMA CreatedStep ==
  ASSUME Types, Fresh, LedgerAlone, Created, [Next]_stageVars
  PROVE  Created'
<1>1. CASE campaign.status # "NONE"
  BY <1>1, StatusStays DEF Created
<1>2. CASE campaign.status = "NONE"
  <2>1. block = "NONE"
    BY <1>2 DEF Created
  <2>2. ASSUME NEW c \in Caller, RunStep(c)
        PROVE  block' = "NONE"
    <3>1. ~Insert(c)
      BY <1>2 DEF Insert, InsertRuns, LedgerAlone
    <3>2. Create(c)
      BY <2>1, <2>2, <3>1, BeginningSteps
    <3>. QED BY <2>1, <3>2 DEF Create, CreateCampaign, OpenCampaign
  <2>. QED BY <2>1, <2>2, OutsideFrame, RestoreFrame, LeavingFrame, Kinds DEF Created
<1>. QED BY <1>1, <1>2

(* Nothing reopens a campaign after an emergency stop.                     *)
LEMMA EmergencyStep ==
  ASSUME Types, EmergencyEnds, [Next]_stageVars
  PROVE  EmergencyEnds'
<1>1. CASE UNCHANGED campaign
  BY <1>1 DEF EmergencyEnds
<1>2. CASE campaign' = [status |-> "CREATED", emergency |-> FALSE, failures |-> 0]
  BY <1>2 DEF EmergencyEnds
<1>3. CASE campaign'.emergency = TRUE =>
             \/ campaign'.status = "STOPPED"
             \/ /\ campaign.emergency = TRUE
                /\ campaign.status \in Open \/ campaign'.status \in {campaign.status, "FAILED"}
  BY <1>3 DEF EmergencyEnds, Open
<1>. QED BY <1>1, <1>2, <1>3, CampaignEffect DEF CampaignWrites

(* What the steps of a series write, by the command that writes.           *)
LEMMA SeriesEffect ==
  ASSUME Types, NEW c \in Caller, RestoreStep(c)
  PROVE  \/ /\ UNCHANGED <<validation, rep>>
            /\ InSeries(caller'[c]) =>
                 /\ caller[c].at = "validate" /\ caller'[c].number = caller[c].number
                 /\ caller'[c].given = {r \in Rep : rep[r] = "PASSED"} \cup {caller[c].number}
         \/ /\ caller[c].at = "claim" /\ UNCHANGED remediation
            /\ validation' = IF validation = "PLANNED" THEN "RUNNING" ELSE validation
            /\ \/ UNCHANGED rep /\ ~InSeries(caller'[c])
                  /\ \A r \in Rep : rep[r] # "PLANNED"
               \/ \E n \in Rep :
                    /\ rep[n] = "PLANNED" /\ rep' = [rep EXCEPT ![n] = "RUNNING"]
                    /\ caller'[c].at = "validate" /\ caller'[c].number = n
         \/ /\ caller[c].at = "pass" /\ caller'[c] = Idle /\ UNCHANGED remediation
            /\ rep' = [rep EXCEPT ![caller[c].number] = "PASSED"]
            /\ validation' = IF caller[c].given = Rep /\ validation = "RUNNING"
                               THEN "PASSED" ELSE validation
         \/ /\ caller[c].at = "validate" /\ caller'[c] = Idle /\ UNCHANGED remediation
            /\ rep' = [rep EXCEPT ![caller[c].number] = "FAILED"]
            /\ validation' = IF validation = "RUNNING" THEN "FAILED" ELSE validation
<1>0. caller \in [Caller -> LocalType] /\ Arrives(c, caller'[c])
  BY MovedCaller, RestoreMoves DEF Types, CallerOK
<1>1. CASE BeginRepetition(c) \/ ClaimRemediation(c) \/ Rebuild(c)
  <2>1. UNCHANGED <<validation, rep>>
    BY <1>1 DEF BeginRepetition, ClaimRemediation, Rebuild, restoreVars
  <2>2. ~InSeries(caller'[c])
    <3>1. caller[c].at \in {"idle", "rebuild"}
      BY <1>1 DEF BeginRepetition, ClaimRemediation, Rebuild, Enter
    <3>2. ~ClaimRepetition(c) /\ ~CountPassed(c)
      BY <3>1 DEF ClaimRepetition, CountPassed
    <3>. QED BY <1>0, <3>2 DEF Arrives, InSeries
  <2>. QED BY <2>1, <2>2
<1>2. CASE CountPassed(c)
  <2>1. UNCHANGED <<validation, rep>> /\ caller[c].at = "validate"
    BY <1>2 DEF CountPassed, restoreVars
  <2>2. PICK g : g = {r \in Rep : rep[r] = "PASSED"} \cup {caller[c].number}
    OBVIOUS
  <2>3. caller' = [caller EXCEPT ![c].at = "pass", ![c].given = g]
    BY <1>2, <2>2 DEF CountPassed
  <2>4. caller'[c].number = caller[c].number /\ caller'[c].given = g
    BY <1>0, <2>3 DEF LocalType
  <2>. QED BY <2>1, <2>2, <2>4
<1>3. CASE ClaimRepetition(c)
  <2>. DEFINE planned == {r \in Rep : rep[r] = "PLANNED"}
  <2>1. /\ caller[c].at = "claim" /\ UNCHANGED remediation
        /\ validation' = IF validation = "PLANNED" THEN "RUNNING" ELSE validation
    BY <1>3 DEF ClaimRepetition
  <2>2. CASE planned = {}
    <3>1. UNCHANGED rep /\ caller'[c] = Idle
      BY <1>0, <1>3, <2>2 DEF ClaimRepetition, Leave
    <3>. QED BY <2>1, <2>2, <3>1, IdleLocal DEF InSeries
  <2>3. CASE planned # {}
    <3>1. planned \in SUBSET Nat
      BY DEF Rep
    <3>2. PICK n : n = Min(planned)
      OBVIOUS
    <3>3. n \in Rep /\ rep[n] = "PLANNED"
      BY <2>3, <3>1, <3>2, LeastOf
    <3>4. /\ rep' = [rep EXCEPT ![n] = "RUNNING"]
          /\ caller' = [caller EXCEPT ![c] = [Idle EXCEPT !.at = "validate", !.number = n]]
      BY <1>3, <2>3, <3>2 DEF ClaimRepetition
    <3>5. caller'[c].at = "validate" /\ caller'[c].number = n
      BY <1>0, <3>4 DEF Idle
    <3>. QED BY <2>1, <3>3, <3>4, <3>5
  <2>. QED BY <2>2, <2>3
<1>4. CASE CommitPassed(c)
  BY <1>0, <1>4 DEF CommitPassed, Leave
<1>5. CASE RepetitionFails(c)
  BY <1>0, <1>5 DEF RepetitionFails, Leave
<1>. QED BY <1>1, <1>2, <1>3, <1>4, <1>5 DEF RestoreStep, Repetition

(* The steps of a campaign are not those of a restore.                     *)
LEMMA RunPositions ==
  ASSUME NEW c \in Caller, RunStep(c)
  PROVE  Analysis \/ caller[c].at \notin RestoreAt
<1>. SUFFICES ASSUME caller[c].at \in {"claim", "validate", "pass", "rebuild"}
              PROVE  Analysis
  BY DEF RestoreAt
<1>1. /\ ~StartRun(c) /\ ~StageReconciles(c) /\ ~StageSettles(c) /\ ~StageFails(c)
      /\ ~StageStarts(c) /\ ~StageSelects(c) /\ ~CreateRun(c) /\ ~Attach(c)
      /\ ~Works(c)
  BY DEF StartRun, Begin, Enter, StageReconciles, ReconcileFirst, StageSettles, ReconcileLast,
     StageFails, FailBlock, StageStarts, StartBlock, StageSelects, ChooseRun, CompletePart,
     CreateRun, Attach, Works, RunOnce, Measured, AttemptFails, LeaseLost
<1>2. ~Load(c) /\ ~Decide(c) /\ ~Freeze(c) /\ ~CommitFreeze(c) /\ ~Insert(c)
  BY DEF Load, LoadRuns, Enter, Decide, CommitVerdict, Freeze, CommitFreeze, Insert, InsertRuns
<1>3. ~Create(c)
  BY DEF Create, CreateCampaign, OpenCampaign, Quiet, Busy
<1>4. /\ ~ProbeReconciles(c) /\ ~ProbeSelects(c) /\ ~LadderReconciles(c)
      /\ ~AsksToFinalize(c) /\ ~RollsBack(c) /\ ~Finalizes(c) /\ ~LadderSelects(c)
      /\ ~Prepares(c) /\ ~Applies(c) /\ ~Readies(c) /\ ~ChecksDrift(c) /\ ~CreateProbe(c)
      /\ ~Probed(c)
  BY Zenon DEF ProbeReconciles, ProbeSelects, ChooseRun, LadderReconciles, AsksToFinalize,
     RollsBack, Finalizes, LadderSelects, Prepares, Applies, Readies, ChecksDrift,
     CreateProbe, Probed
<1>. QED BY <1>1, <1>2, <1>3, <1>4 DEF RunStep, Analysis

(* A campaign's command does not go on to work on a restore.               *)
LEMMA RunArrives ==
  ASSUME Types, NEW c \in Caller, RunStep(c), UNCHANGED restoreVars, Moves(c)
  PROVE  ~Analysis => caller'[c].at \notin {"validate", "pass", "rebuild"}
<1>. SUFFICES ASSUME ~Analysis
              PROVE  caller'[c].at \notin {"validate", "pass", "rebuild"}
  OBVIOUS
<1>0. caller[c].at \notin RestoreAt /\ Arrives(c, caller'[c])
  BY RunPositions, MovedCaller
<1>1. ~ClaimRepetition(c) /\ ~CountPassed(c)
  BY <1>0 DEF ClaimRepetition, CountPassed, RestoreAt
<1>2. ~ClaimRemediation(c)
  BY DEF ClaimRemediation, restoreVars
<1>. QED BY <1>0, <1>1, <1>2 DEF Arrives

(* A repetition is claimed once, and passed by who claimed it.             *)
LEMMA RepsStep ==
  ASSUME Types, Reps, [Next]_stageVars
  PROVE  Reps'
<1>0. rep \in [Rep -> RestoreStatus] /\ CallerOK
  BY DEF Types, Rows
<1>1. ASSUME UNCHANGED <<validation, rep>>,
             NEW c \in Caller, ~InSeries(caller'[c]),
             \A d \in Caller : d # c => caller'[d] = caller[d]
      PROVE  Reps'
  <2>1. \A d \in Caller : InSeries(caller'[d]) => d # c /\ caller'[d] = caller[d]
    BY <1>1
  <2>2. \A d \in Caller : caller'[d].at = "pass" => d # c /\ caller'[d] = caller[d]
    BY <2>1 DEF InSeries
  <2>. QED BY <1>1, <2>1, <2>2 DEF Reps, InSeries
<1>2. CASE UNCHANGED <<validation, rep, caller>>
  BY <1>2 DEF Reps, InSeries
<1>3. CASE NewSeries
  <2>1. validation' = "PLANNED" /\ \A c \in Caller : caller'[c].at = "idle"
    BY <1>3 DEF NewSeries, Idling, Quiet, Busy, PlanSeries, coreVars
  <2>. QED BY <2>1 DEF Reps, InSeries
<1>4. UNCHANGED stageVars \/ Operator \/ NewRemediation => UNCHANGED <<validation, rep, caller>>
  BY DEF stageVars, runVars, coreVars, restoreVars, Operator, Control, NewRemediation,
     PlanRemediation
<1>5. ASSUME NEW c \in Caller, RunStep(c), UNCHANGED restoreVars, Moves(c) \/ Analysis
      PROVE  Reps'
  <2>0. UNCHANGED <<validation, rep>>
    BY <1>5 DEF restoreVars
  <2>1. CASE Analysis
    BY <1>2, <2>0, <2>1, AnalysisFrame
  <2>2. CASE ~Analysis
    <3>1. ~InSeries(caller'[c]) /\ \A d \in Caller : d # c => caller'[d] = caller[d]
      BY <1>5, <2>2, RunArrives, MovedCaller DEF InSeries
    <3>. QED BY <1>1, <2>0, <3>1
  <2>. QED BY <2>1, <2>2
<1>6. ASSUME NEW c \in Caller, Leaving(c)
      PROVE  Reps'
  <2>1. UNCHANGED <<validation, rep>> /\ ~InSeries(caller'[c])
    BY <1>6, LeavingFrame, IdleLocal DEF restoreVars, InSeries
  <2>. QED BY <1>1, <1>6, <2>1, LeavingFrame
<1>7. ASSUME NEW c \in Caller, RestoreStep(c)
      PROVE  Reps'
  <2>. DEFINE l == caller[c]
  <2>0. /\ \A d \in Caller : d # c => caller'[d] = caller[d]
        /\ LocalOK(l)
        /\ InSeries(l) => l.number \in Rep
    BY <1>0, <1>7, RestoreFrame DEF CallerOK, LocalOK, InSeries
  <2>i. ~InSeries(Idle)
    BY IdleLocal DEF InSeries
  <2>1. CASE /\ UNCHANGED <<validation, rep>>
             /\ InSeries(caller'[c]) =>
                  /\ l.at = "validate" /\ caller'[c].number = l.number
                  /\ caller'[c].given = {r \in Rep : rep[r] = "PASSED"} \cup {l.number}
    <3>1. CASE ~InSeries(caller'[c])
      BY <1>1, <2>0, <2>1, <3>1
    <3>2. CASE InSeries(caller'[c])
      <4>1. /\ InSeries(l) /\ caller'[c].number = l.number
            /\ caller'[c].given = {r \in Rep : rep[r] = "PASSED"} \cup {l.number}
        BY <2>1, <3>2 DEF InSeries
      <4>2. \A d \in Caller : InSeries(caller'[d]) =>
              InSeries(caller[d]) /\ caller'[d].number = caller[d].number
        BY <2>0, <4>1
      <4>3. \A d \in Caller : caller'[d].at = "pass" =>
              \A r \in caller'[d].given : r = caller'[d].number \/ rep'[r] = "PASSED"
        BY <2>0, <2>1, <4>1 DEF Reps
      <4>4. \A d \in Caller : InSeries(caller'[d]) =>
              /\ rep'[caller'[d].number] = "RUNNING"
              /\ \A e \in Caller : InSeries(caller'[e]) /\ caller'[e].number = caller'[d].number
                   => e = d
        BY <2>1, <4>2 DEF Reps
      <4>. QED BY <2>1, <4>3, <4>4 DEF Reps, InSeries
    <3>. QED BY <3>1, <3>2
  <2>2. CASE /\ validation' = IF validation = "PLANNED" THEN "RUNNING" ELSE validation
             /\ UNCHANGED rep /\ ~InSeries(caller'[c])
    <3>1. validation' = "PASSED" => validation = "PASSED"
      BY <2>2
    <3>2. \A d \in Caller : InSeries(caller'[d]) => d # c /\ caller'[d] = caller[d]
      BY <2>0, <2>2
    <3>3. \A d \in Caller : caller'[d].at = "pass" => d # c /\ caller'[d] = caller[d]
      BY <3>2 DEF InSeries
    <3>. QED BY <2>2, <3>1, <3>2, <3>3 DEF Reps, InSeries
  <2>3. ASSUME validation' = IF validation = "PLANNED" THEN "RUNNING" ELSE validation,
               NEW n \in Rep, rep[n] = "PLANNED", rep' = [rep EXCEPT ![n] = "RUNNING"],
               caller'[c].at = "validate", caller'[c].number = n
        PROVE  Reps'
    <3>1. validation' # "PASSED"
      BY <2>3 DEF Reps
    <3>2. rep'[n] = "RUNNING" /\ \A r \in Rep : r # n => rep'[r] = rep[r]
      BY <1>0, <2>3
    <3>3. ASSUME NEW d \in Caller, d # c, InSeries(caller'[d])
          PROVE  /\ InSeries(caller[d]) /\ caller'[d] = caller[d]
                 /\ caller[d].number \in Rep /\ caller[d].number # n
                 /\ rep'[caller[d].number] = "RUNNING"
      <4>1. caller'[d] = caller[d] /\ InSeries(caller[d])
        BY <2>0, <3>3
      <4>2. caller[d].number \in Rep /\ rep[caller[d].number] = "RUNNING"
        BY <1>0, <4>1 DEF CallerOK, LocalOK, InSeries, Reps
      <4>. QED BY <2>3, <3>2, <4>1, <4>2
    <3>4. ASSUME NEW d \in Caller, InSeries(caller'[d])
          PROVE  /\ rep'[caller'[d].number] = "RUNNING"
                 /\ \A e \in Caller : InSeries(caller'[e]) /\ caller'[e].number = caller'[d].number
                      => e = d
      <4>1. CASE d = c
        BY <2>3, <3>2, <3>3, <4>1
      <4>2. CASE d # c
        BY <2>3, <3>3, <3>4, <4>2 DEF Reps
      <4>. QED BY <4>1, <4>2
    <3>5. ASSUME NEW d \in Caller, caller'[d].at = "pass", NEW r \in caller'[d].given
          PROVE  r = caller'[d].number \/ rep'[r] = "PASSED"
      <4>1. d # c
        BY <2>3, <3>5
      <4>2. caller'[d] = caller[d] /\ caller[d].at = "pass"
        BY <2>0, <3>5, <4>1
      <4>3. r \in Rep
        BY <1>0, <3>5, <4>2 DEF CallerOK, LocalType
      <4>4. r = caller[d].number \/ rep[r] = "PASSED"
        BY <3>5, <4>2 DEF Reps
      <4>. QED BY <2>3, <3>2, <4>2, <4>3, <4>4
    <3>. QED BY <3>1, <3>4, <3>5 DEF Reps, InSeries
  <2>4. ASSUME NEW st \in {"PASSED", "FAILED"}, InSeries(l), caller'[c] = Idle,
               rep' = [rep EXCEPT ![l.number] = st],
               validation' = "PASSED" => \A r \in Rep : rep'[r] = "PASSED"
        PROVE  Reps'
    <3>1. l.number \in Rep /\ rep[l.number] = "RUNNING"
      BY <2>0, <2>4 DEF Reps
    <3>2. rep'[l.number] = st /\ \A r \in Rep : r # l.number => rep'[r] = rep[r]
      BY <1>0, <2>4, <3>1
    <3>3. ASSUME NEW d \in Caller, InSeries(caller'[d])
          PROVE  /\ d # c /\ caller'[d] = caller[d] /\ caller[d].number \in Rep
                 /\ rep[caller[d].number] = "RUNNING"
                 /\ rep'[caller[d].number] = rep[caller[d].number]
      <4>1. d # c /\ caller'[d] = caller[d] /\ InSeries(caller[d])
        BY <2>0, <2>4, <2>i, <3>3
      <4>2. caller[d].number \in Rep /\ caller[d].number # l.number
            /\ rep[caller[d].number] = "RUNNING"
        BY <1>0, <2>4, <4>1 DEF CallerOK, LocalOK, InSeries, Reps
      <4>. QED BY <3>2, <4>1, <4>2
    <3>4. ASSUME NEW d \in Caller, InSeries(caller'[d])
          PROVE  /\ rep'[caller'[d].number] = "RUNNING"
                 /\ \A e \in Caller : InSeries(caller'[e]) /\ caller'[e].number = caller'[d].number
                      => e = d
      BY <3>3, <3>4 DEF Reps
    <3>5. ASSUME NEW d \in Caller, caller'[d].at = "pass", NEW r \in caller'[d].given
          PROVE  r = caller'[d].number \/ rep'[r] = "PASSED"
      <4>1. caller'[d] = caller[d] /\ caller[d].at = "pass"
        BY <3>3, <3>5 DEF InSeries
      <4>2. r \in Rep /\ (r = caller[d].number \/ rep[r] = "PASSED")
        BY <1>0, <3>5, <4>1 DEF CallerOK, LocalType, Reps
      <4>3. rep[r] = "PASSED" => r # l.number
        BY <3>1
      <4>. QED BY <3>2, <4>1, <4>2, <4>3
    <3>. QED BY <2>4, <3>4, <3>5 DEF Reps, InSeries
  <2>5. CASE /\ l.at = "pass" /\ caller'[c] = Idle
             /\ rep' = [rep EXCEPT ![l.number] = "PASSED"]
             /\ validation' = IF l.given = Rep /\ validation = "RUNNING"
                                THEN "PASSED" ELSE validation
    <3>1. InSeries(l) /\ l.number \in Rep
      BY <2>0, <2>5 DEF InSeries
    <3>2. rep'[l.number] = "PASSED" /\ \A r \in Rep : r # l.number => rep'[r] = rep[r]
      BY <1>0, <2>5, <3>1
    <3>3. validation' = "PASSED" => \A r \in Rep : rep'[r] = "PASSED"
      BY <2>5, <3>2 DEF Reps
    <3>. QED BY <2>4, <2>5, <3>1, <3>3
  <2>6. CASE /\ l.at = "validate" /\ caller'[c] = Idle
             /\ rep' = [rep EXCEPT ![l.number] = "FAILED"]
             /\ validation' = IF validation = "RUNNING" THEN "FAILED" ELSE validation
    <3>1. InSeries(l)
      BY <2>6 DEF InSeries
    <3>2. validation # "PASSED"
      BY <2>0, <3>1 DEF Reps
    <3>3. validation' # "PASSED"
      BY <2>6, <3>2
    <3>. QED BY <2>4, <2>6, <3>1, <3>3
  <2>. QED BY <1>7, <2>1, <2>2, <2>3, <2>5, <2>6, SeriesEffect
<1>. QED BY <1>2, <1>3, <1>4, <1>5, <1>6, <1>7, Kinds DEF Outside

(* A rebuilding is claimed once; a series asks for its result.             *)
LEMMA RebuiltStep ==
  ASSUME Types, Fresh, Created, Rebuilt, [Next]_stageVars
  PROVE  Rebuilt'
<1>k. kind' = kind
  BY RowsStep
<1>s. campaign'.status # "NONE" => campaign.status # "NONE" \/ \E c \in Caller : Create(c)
  <2>1. (\E c \in Caller : caller[c].at = "measure") => campaign.status # "NONE"
    BY DEF Fresh, Created, RestoreAt
  <2>2. CASE UNCHANGED campaign
    BY <2>2
  <2>3. CASE \/ campaign'.status = campaign.status
             \/ campaign.status \in Open \/ \E c \in Caller : caller[c].at = "measure"
    BY <2>1, <2>3 DEF Open
  <2>. QED BY <2>2, <2>3, CampaignEffect DEF CampaignWrites
<1>v. kind = "recovery" /\ campaign'.status # "NONE" => validation = "PASSED"
  BY <1>s DEF Rebuilt, Create, CreateCampaign, OpenCampaign
<1>1. ASSUME UNCHANGED <<remediation, validation, supersedes>>, NEW c \in Caller,
             caller'[c].at # "rebuild", \A d \in Caller : d # c => caller'[d] = caller[d]
      PROVE  Rebuilt'
  <2>1. \A d \in Caller : caller'[d].at = "rebuild" => d # c /\ caller'[d] = caller[d]
    BY <1>1
  <2>. QED BY <1>1, <1>k, <1>v, <2>1 DEF Rebuilt
<1>2. CASE UNCHANGED <<remediation, validation, supersedes, caller>>
  BY <1>2, <1>k, <1>v DEF Rebuilt
<1>3. CASE NewSeries
  <2>1. \A c \in Caller : caller'[c].at = "idle"
    BY <1>3 DEF NewSeries, Idling, Quiet, Busy, PlanSeries, coreVars
  <2>2. CASE kind # "recovery"
    BY <1>k, <2>1, <2>2 DEF Rebuilt
  <2>3. CASE kind = "recovery"
    <3>1. validation' = "PLANNED" /\ UNCHANGED remediation
      BY <1>3 DEF NewSeries, PlanSeries
    <3>2. CASE validation = "NONE" /\ supersedes' = FALSE
      <4>1. remediation = "NONE" /\ campaign'.status = "NONE"
        BY <1>v, <2>3, <3>2 DEF Rebuilt
      <4>. QED BY <2>1, <3>1, <3>2, <4>1 DEF Rebuilt
    <3>3. CASE remediation = "PASSED" /\ supersedes = FALSE /\ supersedes' = TRUE
      <4>1. validation = "FAILED" /\ campaign'.status = "NONE"
        BY <1>v, <2>3, <3>3 DEF Rebuilt
      <4>. QED BY <2>1, <3>1, <3>3, <4>1 DEF Rebuilt
    <3>. QED BY <1>3, <2>3, <3>2, <3>3, Zenon DEF NewSeries, PlanSeries, Types, Rows
  <2>. QED BY <2>2, <2>3
<1>4. CASE NewRemediation
  <2>1. \A c \in Caller : caller'[c].at = "idle"
    BY <1>4 DEF NewRemediation, PlanRemediation, Idling, Quiet, Busy, coreVars
  <2>2. /\ remediation = "NONE" /\ kind = "recovery" /\ validation = "FAILED"
        /\ UNCHANGED <<validation, supersedes>>
    BY <1>4 DEF NewRemediation, PlanRemediation
  <2>3. supersedes' = FALSE /\ campaign'.status = "NONE"
    BY <1>v, <2>2 DEF Rebuilt, Types, Rows
  <2>. QED BY <2>1, <2>2, <2>3 DEF Rebuilt
<1>5. UNCHANGED stageVars \/ Operator => UNCHANGED <<remediation, validation, supersedes, caller>>
  BY DEF stageVars, runVars, coreVars, restoreVars, Operator, Control
<1>6. ASSUME NEW c \in Caller, RunStep(c), UNCHANGED restoreVars, Moves(c) \/ Analysis
      PROVE  Rebuilt'
  <2>0. UNCHANGED <<remediation, validation, supersedes>>
    BY <1>6 DEF restoreVars
  <2>1. CASE Analysis
    BY <1>2, <2>0, <2>1, AnalysisFrame
  <2>2. CASE ~Analysis
    <3>1. caller'[c].at # "rebuild" /\ \A d \in Caller : d # c => caller'[d] = caller[d]
      BY <1>6, <2>2, RunArrives, MovedCaller
    <3>. QED BY <1>1, <2>0, <3>1
  <2>. QED BY <2>1, <2>2
<1>7. ASSUME NEW c \in Caller, Leaving(c)
      PROVE  Rebuilt'
  <2>1. UNCHANGED <<remediation, validation, supersedes>> /\ caller'[c].at # "rebuild"
    BY <1>7, LeavingFrame, IdleLocal DEF restoreVars
  <2>. QED BY <1>1, <1>7, <2>1, LeavingFrame
<1>8. ASSUME NEW c \in Caller, RestoreStep(c)
      PROVE  Rebuilt'
  <2>0. /\ \A d \in Caller : d # c => caller'[d] = caller[d]
        /\ Arrives(c, caller'[c]) /\ UNCHANGED campaign
    BY <1>8, RestoreFrame, RestoreMoves, MovedCaller
  <2>1. CASE ClaimRemediation(c)
    <3>1. /\ remediation = "PLANNED" /\ remediation' = "RUNNING"
          /\ UNCHANGED <<validation, supersedes>>
      BY <2>1 DEF ClaimRemediation
    <3>2. \A d \in Caller : caller'[d].at = "rebuild" => d = c
      BY <2>0, <3>1 DEF Rebuilt
    <3>3. kind = "recovery" =>
            validation' = "FAILED" /\ campaign'.status = "NONE" /\ supersedes' = FALSE
      BY <1>v, <3>1 DEF Rebuilt, Types, Rows
    <3>. QED BY <1>k, <3>1, <3>2, <3>3 DEF Rebuilt
  <2>2. CASE Rebuild(c)
    <3>1. /\ caller[c].at = "rebuild" /\ caller'[c].at = "idle"
          /\ UNCHANGED <<validation, supersedes>>
      BY <2>2, IdleLocal DEF Rebuild, Leave, Types, CallerOK
    <3>2. \A d \in Caller : caller'[d].at # "rebuild"
      BY <2>0, <3>1 DEF Rebuilt
    <3>3. kind = "recovery" =>
            validation' = "FAILED" /\ campaign'.status = "NONE" /\ supersedes' = FALSE
      BY <1>v, <3>1 DEF Rebuilt, Types, Rows
    <3>. QED BY <1>k, <3>2, <3>3 DEF Rebuilt
  <2>3. CASE ~ClaimRemediation(c) /\ ~Rebuild(c)
    <3>1. caller'[c].at # "rebuild"
      BY <2>0, <2>3 DEF Arrives
    <3>2. UNCHANGED <<remediation, supersedes>>
      BY <1>8, <2>3 DEF RestoreStep, Repetition, BeginRepetition, ClaimRepetition, CountPassed,
         CommitPassed, RepetitionFails, restoreVars
    <3>3. /\ validation' = "NONE" => validation = "NONE"
          /\ validation = "FAILED" => validation' = "FAILED"
          /\ validation = "PASSED" => validation' = "PASSED"
      BY <1>8, SeriesEffect
    <3>4. \A d \in Caller : caller'[d].at = "rebuild" => d # c /\ caller'[d] = caller[d]
      BY <2>0, <3>1
    <3>. QED BY <1>k, <1>v, <3>2, <3>3, <3>4 DEF Rebuilt
  <2>. QED BY <2>1, <2>2, <2>3
<1>. QED BY <1>2, <1>3, <1>4, <1>5, <1>6, <1>7, <1>8, Kinds DEF Outside
-----------------------------------------------------------------------------
(* The statuses of a stage's block.                                        *)
LEMMA StageNames ==
  /\ Plan1 # Run1 /\ Plan1 # Done1 /\ Plan1 # Plan2 /\ Plan1 # Run2 /\ Plan1 # Done2
  /\ Run1 # Done1 /\ Run1 # Plan2 /\ Run1 # Run2 /\ Run1 # Done2
  /\ Done1 # Plan2 /\ Done1 # Run2 /\ Done1 # Done2
  /\ Plan2 # Run2 /\ Plan2 # Done2 /\ Run2 # Done2
  /\ {Plan1, Run1, Done1, Plan2, Run2, Done2} \cap {"NONE", "PASSED", "BLOCKED", "FAILED"} = {}
  /\ Starts[Plan1] = Run1 /\ Starts[Plan2] = Run2
  /\ Analyzed => Staged /\ kind # "warmup"
  /\ Staged /\ ~Analyzed => kind = "warmup"
BY DEF Plan1, Run1, Done1, Plan2, Run2, Done2, Starts, Staged, Analyzed

(* They do not depend on anything that changes.                            *)
LEMMA SameNames ==
  ASSUME kind' = kind
  PROVE  /\ Plan1' = Plan1 /\ Run1' = Run1 /\ Done1' = Done1
         /\ Plan2' = Plan2 /\ Run2' = Run2 /\ Done2' = Done2
         /\ StageBlock' = StageBlock
         /\ Staged' <=> Staged
         /\ Analyzed' <=> Analyzed
BY DEF Plan1, Run1, Done1, Plan2, Run2, Done2, StageBlock, Staged, Analyzed

(* How the block of a stage changes, under its own names.                  *)
LEMMA BlockMoves ==
  ASSUME Types, Blocks, NEW c \in Caller, RunStep(c)
  PROVE  \/ UNCHANGED block
         \/ Insert(c) /\ block' = IF Staged THEN Plan1 ELSE "PLANNED"
         \/ StageFails(c) /\ Staged /\ block \notin Final /\ block' = "FAILED"
         \/ StageStarts(c) /\ Staged /\ block = Plan1 /\ block' = Run1
         \/ StageStarts(c) /\ Staged /\ block = Plan2 /\ block' = Run2
         \/ /\ Completes(c) /\ Staged /\ caller[c].block = Run1 /\ block' = Done1
            /\ kind = "warmup" \/ block = Run1
         \/ /\ Completes(c) /\ Staged /\ caller[c].block = Run2 /\ block' = Done2
            /\ kind = "warmup" \/ block = Run2
         \/ Concludes(c) /\ Analyzed /\ block' \in {"PASSED", "BLOCKED"}
         \/ PlansSecond(c) /\ Staged /\ block' = Plan2
<1>1. CASE StageStarts(c) /\ block = caller[c].block /\ block' = Starts[block]
  <2>1. Staged /\ caller[c].block \in {Plan1, Plan2}
    BY <1>1 DEF StageStarts, StartBlock, Types, CallerOK, LocalOK
  <2>. QED BY <1>1, <2>1, StageNames
<1>2. CASE Completes(c)
  <2>1. Staged /\ caller[c].block \in {Run1, Run2}
    BY <1>2 DEF Completes, Blocks
  <2>. QED BY <1>2, <2>1, StageNames DEF Completes
<1>3. CASE Concludes(c)
  <2>1. PICK p \in 1..2 : block' \in Outcomes(p) /\ block' # "MORE"
    BY <1>3 DEF Concludes
  <2>2. verdict[p] \in {"NONE", "MORE", "PASSED", "BLOCKED"}
    BY DEF Types, Rows
  <2>3. block' \in {"PASSED", "BLOCKED"}
    BY <2>1, <2>2 DEF Outcomes
  <2>. QED BY <1>3, <2>3 DEF Concludes, Decide
<1>4. CASE PlansSecond(c)
  BY <1>4 DEF PlansSecond, Decide, CommitFreeze, Staged, Analyzed
<1>5. CASE StageFails(c) /\ block \notin Final /\ block' = "FAILED"
  BY <1>5 DEF StageFails
<1>. QED BY <1>1, <1>2, <1>3, <1>4, <1>5, BlockEffect DEF BlockWrites

(* A stage stays within its own names.                                     *)
LEMMA BlocksStep ==
  ASSUME Types, Blocks, [Next]_stageVars
  PROVE  Blocks'
<1>k. kind' = kind
  BY RowsStep
<1>1. block' \in StageBlock /\ (kind = "warmup" => block' \notin {"PASSED", "BLOCKED"})
  <2>1. CASE UNCHANGED block
    BY <2>1 DEF Blocks
  <2>2. ASSUME NEW c \in Caller, RunStep(c)
        PROVE  block' \in StageBlock /\ (kind = "warmup" => block' \notin {"PASSED", "BLOCKED"})
    <3>1. CASE Staged
      BY <2>1, <2>2, <3>1, BlockMoves, StageNames DEF StageBlock
    <3>2. CASE ~Staged
      BY <2>1, <2>2, <3>2, BlockMoves, StageNames DEF StageBlock, Staged
    <3>. QED BY <3>1, <3>2
  <2>. QED BY <2>1, <2>2, OutsideFrame, RestoreFrame, LeavingFrame, Kinds
<1>2. ASSUME Staged, NEW d \in Caller
      PROVE  /\ caller'[d].at = "start" => caller'[d].block \in {Plan1, Plan2}
             /\ caller'[d].at = "select" => caller'[d].block \in {Run1, Run2}
  <2>1. CASE caller'[d] = caller[d]
    BY <1>2, <2>1 DEF Blocks
  <2>2. CASE Moves(d)
    <3>0. Arrives(d, caller'[d])
      BY <2>2, MovedCaller
    <3>1. ASSUME caller'[d].at = "select"
          PROVE  caller'[d].block \in {Run1, Run2}
      <4>1. ~ProbeReconciles(d) /\ ~AsksToFinalize(d)
        BY <1>2 DEF ProbeReconciles, AsksToFinalize, Staged
      <4>2. CASE StageStarts(d) /\ caller'[d].block = Starts[caller[d].block]
        <5>1. caller[d].block \in {Plan1, Plan2}
          BY <4>2 DEF StageStarts, StartBlock, Types, CallerOK, LocalOK
        <5>. QED BY <4>2, <5>1, StageNames
      <4>. QED BY <3>0, <3>1, <4>1, <4>2 DEF Arrives
    <3>. QED BY <3>0, <3>1 DEF Arrives
  <2>3. UNCHANGED caller \/ \E c \in Caller : Moves(c)
    BY CallersStep
  <2>. QED BY <2>1, <2>2, <2>3, MovedCaller
<1>. QED BY <1>k, <1>1, <1>2, SameNames DEF Blocks
-----------------------------------------------------------------------------
(* A run goes from one status to the next.                                 *)
LEMMA SlotMoves ==
  ASSUME Types, Fresh, LedgerAlone, [Next]_stageVars, NEW s \in Slot
  PROVE  \/ slot'[s] = slot[s]
         \/ /\ slot[s] = "ABSENT" /\ slot'[s] = "PLANNED"
            /\ \/ block = "NONE" /\ (Staged => s \in First)
               \/ \E c \in Caller : RunStep(c) /\ PlansSecond(c) /\ s \in Second
         \/ /\ slot[s] = "PLANNED" /\ slot'[s] = "CREATED"
            /\ \E c \in Caller : RunStep(c) /\ Refers(c, s)
         \/ /\ slot[s] = "CREATED" /\ slot'[s] \in Over
            /\ \E c \in Caller : RunStep(c) /\ Files(c, s)
<1>0. slot \in [Slot -> SlotStatus]
  BY DEF Types, Rows
<1>1. CASE UNCHANGED slot
  BY <1>1
<1>2. ASSUME NEW c \in Caller, RunStep(c), Insert(c)
      PROVE  \/ slot'[s] = slot[s]
             \/ /\ slot[s] = "ABSENT" /\ slot'[s] = "PLANNED"
                /\ block = "NONE" /\ (Staged => s \in First)
  <2>1. block = "NONE"
    BY <1>2 DEF Insert, InsertRuns, LedgerAlone
  <2>2. slot[s] = "ABSENT"
    BY <2>1 DEF Fresh
  <2>3. slot'[s] = IF s \in (IF Staged THEN First ELSE Slot) THEN "PLANNED" ELSE "ABSENT"
    BY <1>2 DEF Insert, InsertRuns
  <2>. QED BY <2>1, <2>2, <2>3
<1>3. ASSUME NEW c \in Caller, RunStep(c), NEW r \in Slot, Files(c, r)
      PROVE  \/ slot'[s] = slot[s]
             \/ /\ slot[s] = "CREATED" /\ slot'[s] \in Over
                /\ \E d \in Caller : RunStep(d) /\ Files(d, s)
  <2>1. CASE r = s
    BY <1>0, <1>3, <2>1 DEF Files, InFlight, Over
  <2>2. CASE r # s
    BY <1>0, <1>3, <2>2 DEF Files
  <2>. QED BY <2>1, <2>2
<1>4. ASSUME NEW c \in Caller, RunStep(c), NEW r \in Slot, Refers(c, r)
      PROVE  \/ slot'[s] = slot[s]
             \/ /\ slot[s] = "PLANNED" /\ slot'[s] = "CREATED"
                /\ \E d \in Caller : RunStep(d) /\ Refers(d, s)
  <2>1. CASE r = s
    BY <1>0, <1>4, <2>1 DEF Refers
  <2>2. CASE r # s
    BY <1>0, <1>4, <2>2 DEF Refers
  <2>. QED BY <2>1, <2>2
<1>5. ASSUME NEW c \in Caller, RunStep(c), PlansSecond(c)
      PROVE  \/ slot'[s] = slot[s]
             \/ /\ slot[s] = "ABSENT" /\ slot'[s] = "PLANNED"
                /\ \E d \in Caller : RunStep(d) /\ PlansSecond(d) /\ s \in Second
  BY <1>0, <1>5 DEF PlansSecond
<1>. QED BY <1>1, <1>2, <1>3, <1>4, <1>5, SlotEffect, Elsewhere DEF SlotWrites

(* A planned run stays planned; a run that is over stays as it ended.      *)
LEMMA SlotStays ==
  ASSUME Types, Fresh, LedgerAlone, [Next]_stageVars, NEW s \in Slot
  PROVE  /\ slot[s] # "ABSENT" => slot'[s] # "ABSENT"
         /\ slot[s] \in Over => slot'[s] = slot[s]
BY SlotMoves DEF Over

(* A verdict, once given, stays.                                           *)
VerdictCause(c, p) ==
  \/ Concludes(c) /\ p = (IF caller[c].block = Done1 THEN 1 ELSE 2) /\ verdict[p] # "MORE"
  \/ PlansSecond(c) /\ Decide(c) /\ p = 1 /\ verdict'[1] = "MORE"
  \/ AnalyzeWarmup /\ p = 1 /\ verdict'[1] = "MORE"
  \/ AnalyzeDuration /\ p = 2

(* A verdict that was given is not withdrawn.                              *)
LEMMA VerdictMoves ==
  ASSUME Types, [Next]_stageVars, NEW p \in 1..2, verdict[2] # "MORE"
  PROVE  /\ verdict[p] # "NONE" => verdict'[p] # "NONE"
         /\ verdict[1] = "MORE" => verdict'[1] = "MORE"
         /\ verdict'[2] # "MORE"
         /\ verdict'[p] # verdict[p] => \E c \in Caller : RunStep(c) /\ VerdictCause(c, p)
<1>0. verdict \in [1..2 -> Verdict] /\ 1 \in 1..2 /\ 2 \in 1..2
  BY DEF Types, Rows, Verdict
<1>1. CASE UNCHANGED verdict
  BY <1>1
<1>2. ASSUME NEW c \in Caller, RunStep(c), Concludes(c)
      PROVE  /\ verdict[p] # "NONE" => verdict'[p] # "NONE"
             /\ verdict[1] = "MORE" => verdict'[1] = "MORE"
             /\ verdict'[2] # "MORE"
             /\ verdict'[p] # verdict[p] => VerdictCause(c, p)
  <2>1. PICK q : q = IF caller[c].block = Done1 THEN 1 ELSE 2
    OBVIOUS
  <2>2. PICK v \in Outcomes(q) : v # "MORE" /\ verdict' = [verdict EXCEPT ![q] = v]
    BY <1>2, <2>1 DEF Concludes
  <2>3. q \in 1..2 /\ (verdict[q] # "NONE" => v = verdict[q]) /\ v # "NONE"
    BY <2>1, <2>2 DEF Outcomes
  <2>4. verdict'[q] = v /\ \A r \in 1..2 : r # q => verdict'[r] = verdict[r]
    BY <1>0, <2>2, <2>3
  <2>5. verdict[q] # "MORE"
    BY <2>2, <2>3
  <2>. QED BY <1>0, <1>2, <2>1, <2>2, <2>3, <2>4, <2>5 DEF VerdictCause
<1>3. ASSUME verdict' = [verdict EXCEPT ![1] = "MORE"], NEW c \in Caller, RunStep(c),
             (PlansSecond(c) /\ Decide(c)) \/ AnalyzeWarmup
      PROVE  /\ verdict[p] # "NONE" => verdict'[p] # "NONE"
             /\ verdict[1] = "MORE" => verdict'[1] = "MORE"
             /\ verdict'[2] # "MORE"
             /\ verdict'[p] # verdict[p] => VerdictCause(c, p)
  <2>1. verdict'[1] = "MORE" /\ verdict'[2] = verdict[2]
    BY <1>0, <1>3
  <2>2. p = 1 \/ p = 2
    OBVIOUS
  <2>. QED BY <1>3, <2>1, <2>2 DEF VerdictCause
<1>4. ASSUME NEW c \in Caller, RunStep(c), AnalyzeDuration
      PROVE  /\ verdict[p] # "NONE" => verdict'[p] # "NONE"
             /\ verdict[1] = "MORE" => verdict'[1] = "MORE"
             /\ verdict'[2] # "MORE"
             /\ verdict'[p] # verdict[p] => VerdictCause(c, p)
  <2>1. PICK v \in Outcomes(2) : verdict' = [verdict EXCEPT ![2] = v]
    BY <1>4 DEF AnalyzeDuration
  <2>2. v # "NONE" /\ v # "MORE"
    BY DEF Outcomes
  <2>3. verdict'[2] = v /\ verdict'[1] = verdict[1]
    BY <1>0, <2>1
  <2>4. p = 1 \/ p = 2
    OBVIOUS
  <2>. QED BY <1>4, <2>2, <2>3, <2>4 DEF VerdictCause
<1>5. AnalyzeWarmup => verdict' = [verdict EXCEPT ![1] = "MORE"]
  BY DEF AnalyzeWarmup
<1>. QED BY <1>1, <1>2, <1>3, <1>4, <1>5, VerdictEffect, Elsewhere DEF VerdictWrites

(* The second part is planned exactly by the verdict that asks for more.   *)
LEMMA VerdictsStep ==
  ASSUME Types, Fresh, LedgerAlone, Blocks, Verdicts, [Next]_stageVars
  PROVE  Verdicts'
<1>k. kind' = kind
  BY RowsStep
<1>0. verdict[2] # "MORE" /\ 1 \in 1..2 /\ 2 \in 1..2
  BY DEF Verdicts
<1>1. verdict'[2] # "MORE" /\ (verdict[1] = "MORE" => verdict'[1] = "MORE")
      /\ (verdict[1] # "NONE" => verdict'[1] # "NONE")
  BY <1>0, VerdictMoves
<1>2. ASSUME ~Staged, NEW p \in 1..2
      PROVE  verdict'[p] = "NONE"
  <2>1. \A c : ~VerdictCause(c, p)
    BY <1>2 DEF VerdictCause, Concludes, Decide, AnalyzeWarmup, AnalyzeDuration, Staged, Analyzed
  <2>. QED BY <1>0, <1>2, <2>1, VerdictMoves DEF Verdicts
<1>3. ASSUME Staged, block' # "NONE", NEW s \in First
      PROVE  slot'[s] # "ABSENT"
  <2>0. s \in Slot
    BY RunNumbers
  <2>1. CASE block # "NONE"
    BY <1>3, <2>0, <2>1, SlotStays DEF Verdicts
  <2>2. CASE block = "NONE"
    <3>1. PICK c \in Caller : RunStep(c)
      BY <1>3, <2>2, OutsideFrame, RestoreFrame, LeavingFrame, Kinds
    <3>2. Insert(c)
      BY <1>3, <2>2, <3>1, BeginningSteps DEF Create, CreateCampaign, OpenCampaign
    <3>. QED BY <1>3, <2>0, <3>2 DEF Insert, InsertRuns
  <2>. QED BY <2>1, <2>2
<1>4. ASSUME Analyzed
      PROVE  /\ verdict'[1] = "MORE" => \A s \in Second : slot'[s] # "ABSENT"
             /\ verdict'[1] # "MORE" => \A s \in Second : slot'[s] = "ABSENT"
  <2>1. ASSUME verdict'[1] = "MORE", NEW s \in Second
        PROVE  slot'[s] # "ABSENT"
    <3>0. s \in Slot
      BY RunNumbers
    <3>1. CASE verdict[1] = "MORE"
      BY <1>4, <3>0, <3>1, SlotStays DEF Verdicts
    <3>2. CASE verdict[1] # "MORE"
      <4>1. PICK c \in Caller : RunStep(c) /\ VerdictCause(c, 1)
        BY <1>0, <2>1, <3>2, VerdictMoves
      <4>2. ~Concludes(c)
        <5>1. ASSUME Concludes(c)
              PROVE  FALSE
          <6>1. PICK q, v : v # "MORE" /\ verdict' = [verdict EXCEPT ![q] = v]
                            /\ q = IF caller[c].block = Done1 THEN 1 ELSE 2
            BY <5>1 DEF Concludes
          <6>. QED BY <2>1, <3>2, <6>1 DEF Types, Rows
        <5>. QED BY <5>1
      <4>3. PlansSecond(c)
        BY <1>4, <4>1, <4>2, StageNames DEF VerdictCause, AnalyzeWarmup, AnalyzeDuration
      <4>. QED BY <2>1, <3>0, <4>3 DEF PlansSecond
    <3>. QED BY <3>1, <3>2
  <2>2. ASSUME verdict'[1] # "MORE", NEW s \in Second
        PROVE  slot'[s] = "ABSENT"
    <3>0. s \in Slot /\ s \notin First
      BY RunNumbers DEF Second
    <3>1. slot[s] = "ABSENT"
      BY <1>1, <1>4, <2>2 DEF Verdicts
    <3>2. ASSUME NEW c \in Caller, PlansSecond(c)
          PROVE  FALSE
      <4>1. ~CommitFreeze(c)
        BY <1>4, StageNames DEF CommitFreeze
      <4>2. verdict' = [verdict EXCEPT ![1] = "MORE"]
        BY <3>2, <4>1 DEF PlansSecond
      <4>. QED BY <1>0, <2>2, <4>2 DEF Types, Rows
    <3>. QED BY <1>4, <3>0, <3>1, <3>2, SlotMoves, StageNames
  <2>. QED BY <2>1, <2>2
<1>5. ASSUME Analyzed
      PROVE  /\ block' \in {"PASSED", "BLOCKED"} => verdict'[1] # "NONE"
             /\ block' \in {Plan2, Run2, Done2} => verdict'[1] = "MORE"
  <2>0. Staged /\ kind # "warmup"
    BY <1>5, StageNames
  <2>1. CASE UNCHANGED block
    BY <1>1, <1>5, <2>1 DEF Verdicts
  <2>2. ASSUME NEW c \in Caller, RunStep(c), Concludes(c), block' \in {"PASSED", "BLOCKED"}
        PROVE  /\ block' \in {"PASSED", "BLOCKED"} => verdict'[1] # "NONE"
               /\ block' \in {Plan2, Run2, Done2} => verdict'[1] = "MORE"
    <3>1. caller[c].at = "analyze"
      BY <2>2 DEF Concludes, Decide, CommitVerdict
    <3>2. CASE caller[c].block = Done1
      <4>1. PICK v \in Outcomes(1) : verdict' = [verdict EXCEPT ![1] = v]
        BY <2>2, <3>2 DEF Concludes
      <4>2. verdict'[1] = v /\ v # "NONE"
        BY <1>0, <4>1 DEF Types, Rows, Outcomes
      <4>. QED BY <2>2, <4>2, StageNames
    <3>3. CASE caller[c].block = Done2
      BY <1>1, <1>5, <2>2, <3>1, <3>3, StageNames DEF Verdicts
    <3>. QED BY <1>5, <3>1, <3>2, <3>3 DEF Verdicts
  <2>3. ASSUME NEW c \in Caller, RunStep(c), PlansSecond(c)
        PROVE  verdict'[1] = "MORE"
    <3>1. ~CommitFreeze(c)
      BY <1>5, StageNames DEF CommitFreeze
    <3>2. verdict' = [verdict EXCEPT ![1] = "MORE"]
      BY <2>3, <3>1 DEF PlansSecond
    <3>. QED BY <1>0, <3>2 DEF Types, Rows
  <2>4. ASSUME NEW c \in Caller, RunStep(c)
        PROVE  /\ block' \in {"PASSED", "BLOCKED"} => verdict'[1] # "NONE"
               /\ block' \in {Plan2, Run2, Done2} => verdict'[1] = "MORE"
    <3>1. CASE block' = Plan1 \/ block' = Run1 \/ block' = Done1 \/ block' = "FAILED"
      BY <3>1, StageNames
    <3>2. CASE block = Plan2 \/ block = Run2
      BY <1>1, <1>5, <2>0, <2>1, <2>2, <2>3, <2>4, <3>2, BlockMoves, StageNames DEF Verdicts
    <3>. QED BY <1>1, <2>0, <2>1, <2>2, <2>3, <2>4, <3>1, <3>2, BlockMoves, StageNames
  <2>. QED BY <2>1, <2>4, OutsideFrame, RestoreFrame, LeavingFrame, Kinds
<1>6. ASSUME Analyzed, NEW d \in Caller, caller'[d].at = "analyze"
      PROVE  /\ block' # "NONE" /\ caller'[d].block \in {Done1, Done2}
             /\ caller'[d].block = Done2 => verdict'[1] = "MORE"
  <2>1. CASE caller'[d] = caller[d]
    BY <1>1, <1>6, <2>1, BlockStays DEF Verdicts
  <2>2. CASE Moves(d)
    <3>1. Load(d) /\ caller'[d].block = block
      BY <1>6, <2>2, MovedCaller DEF Arrives
    <3>2. block \in {Done1, Done2}
      BY <3>1 DEF Load, LoadRuns
    <3>. QED BY <1>1, <1>6, <3>1, <3>2, BlockStays, StageNames DEF Verdicts
  <2>3. UNCHANGED caller \/ \E c \in Caller : Moves(c)
    BY CallersStep
  <2>. QED BY <2>1, <2>2, <2>3, MovedCaller
<1>7. (Staged' <=> Staged) /\ (Analyzed' <=> Analyzed)
      /\ Plan2' = Plan2 /\ Run2' = Run2 /\ Done1' = Done1 /\ Done2' = Done2
  BY <1>k, SameNames
<1>. QED BY <1>1, <1>2, <1>3, <1>4, <1>5, <1>6, <1>7 DEF Verdicts

(* The reference is measured completely before it is analysed.             *)
LEMMA RefStep ==
  ASSUME Types, Fresh, LedgerAlone, Blocks, Verdicts, RefOK, [Next]_stageVars
  PROVE  RefOK'
<1>k. kind' = kind
  BY RowsStep
<1>. SUFFICES ASSUME kind = "reference"
              PROVE  RefOK'
  BY <1>k DEF RefOK
<1>0. Analyzed /\ Staged /\ (\A s \in Slot : s \in First \/ s \in Second)
  BY RunNumbers DEF Analyzed, Staged
<1>1. ASSUME NEW d \in Caller, caller'[d].at = "analyze",
             NEW s \in Slot, s \in First \/ caller'[d].block = Done2
      PROVE  slot'[s] \in {"ABSENT", "COMPLETED"}
  <2>1. CASE caller'[d] = caller[d]
    <3>1. /\ slot[s] \in {"ABSENT", "COMPLETED"} /\ block # "NONE"
          /\ caller[d].block = Done2 => verdict[1] = "MORE"
      BY <1>0, <1>1, <2>1 DEF RefOK, Verdicts
    <3>2. slot[s] # "ABSENT"
      BY <1>0, <1>1, <2>1, <3>1 DEF Verdicts
    <3>. QED BY <3>1, <3>2, SlotStays DEF Over
  <2>2. CASE Moves(d)
    <3>1. Load(d)
      BY <1>1, <2>2, MovedCaller DEF Arrives
    <3>2. slot' = slot /\ slot[s] \in {"ABSENT", "COMPLETED"}
      BY <3>1 DEF Load, LoadRuns, ledgerVars
    <3>. QED BY <3>2
  <2>3. UNCHANGED caller \/ \E c \in Caller : Moves(c)
    BY CallersStep
  <2>. QED BY <2>1, <2>2, <2>3, MovedCaller
<1>2. ASSUME block' \in {"PASSED", "BLOCKED"}, NEW s \in Slot
      PROVE  slot'[s] \in {"ABSENT", "COMPLETED"}
  <2>1. CASE UNCHANGED block
    <3>1. slot[s] \in {"ABSENT", "COMPLETED"} /\ block # "NONE"
      BY <1>2, <2>1 DEF RefOK
    <3>2. ~ \E c \in Caller : PlansSecond(c)
      BY <1>2, StageNames DEF PlansSecond
    <3>. QED BY <3>1, <3>2, SlotMoves
  <2>2. ASSUME NEW c \in Caller, RunStep(c), Concludes(c)
        PROVE  slot'[s] \in {"ABSENT", "COMPLETED"}
    <3>1. caller[c].at = "analyze" /\ slot' = slot
      BY <2>2 DEF Concludes, Decide, CommitVerdict
    <3>2. caller[c].block \in {Done1, Done2}
      BY <1>0, <3>1 DEF Verdicts
    <3>3. CASE caller[c].block = Done1
      <4>1. PICK v \in Outcomes(1) : v # "MORE"
        BY <2>2, <3>3 DEF Concludes
      <4>2. verdict[1] # "MORE"
        BY <4>1 DEF Outcomes
      <4>. QED BY <1>0, <3>1, <4>2 DEF Verdicts, RefOK
    <3>4. CASE caller[c].block = Done2
      BY <3>1, <3>4 DEF RefOK
    <3>. QED BY <3>2, <3>3, <3>4
  <2>3. ASSUME NEW c \in Caller, RunStep(c), ~UNCHANGED block
        PROVE  Concludes(c)
    BY <1>2, <2>3, BlockMoves, StageNames DEF StageFails
  <2>. QED BY <2>1, <2>2, <2>3, OutsideFrame, RestoreFrame, LeavingFrame, Kinds
<1>3. Done2' = Done2
  BY <1>k, SameNames
<1>. QED BY <1>1, <1>2, <1>3 DEF RefOK

(* Each part of the pilot is measured completely before its verdict.       *)
LEMMA WarmStep ==
  ASSUME Types, Fresh, LedgerAlone, Verdicts, WarmOK, [Next]_stageVars
  PROVE  WarmOK'
<1>k. kind' = kind
  BY RowsStep
<1>. SUFFICES ASSUME kind = "warmup"
              PROVE  WarmOK'
  BY <1>k DEF WarmOK
<1>0. /\ ~Analyzed /\ Staged /\ verdict[2] # "MORE" /\ 1 \in 1..2 /\ 2 \in 1..2
      /\ First \subseteq Slot /\ Second \subseteq Slot
      /\ \A s \in Second : s \notin First
  BY RunNumbers DEF Analyzed, Staged, Verdicts, Second
<1>1. \A c : ~Decide(c) /\ ~Concludes(c)
  BY <1>0 DEF Decide, Concludes
<1>2. ASSUME verdict'[1] # "NONE", NEW s \in First
      PROVE  slot'[s] = "COMPLETED"
  <2>1. slot[s] = "COMPLETED"
    <3>1. CASE verdict[1] # "NONE"
      BY <1>2, <3>1 DEF WarmOK
    <3>2. CASE verdict[1] = "NONE"
      <4>1. PICK c \in Caller : VerdictCause(c, 1)
        BY <1>0, <1>2, <3>2, VerdictMoves
      <4>2. AnalyzeWarmup
        BY <1>1, <4>1 DEF VerdictCause
      <4>. QED BY <4>2 DEF AnalyzeWarmup, Measures, Part
    <3>. QED BY <3>1, <3>2
  <2>. QED BY <1>0, <2>1, SlotStays DEF Over
<1>3. ASSUME verdict'[2] # "NONE", NEW s \in Second
      PROVE  slot'[s] = "COMPLETED"
  <2>1. slot[s] = "COMPLETED"
    <3>1. CASE verdict[2] # "NONE"
      BY <1>3, <3>1 DEF WarmOK
    <3>2. CASE verdict[2] = "NONE"
      <4>1. PICK c \in Caller : VerdictCause(c, 2)
        BY <1>0, <1>3, <3>2, VerdictMoves
      <4>2. AnalyzeDuration
        BY <1>1, <4>1 DEF VerdictCause
      <4>. QED BY <4>2 DEF AnalyzeDuration, Measures, Part
    <3>. QED BY <3>1, <3>2
  <2>. QED BY <1>0, <2>1, SlotStays DEF Over
<1>4. verdict[1] # "NONE" => verdict'[1] # "NONE"
  BY <1>0, VerdictMoves
<1>5. ASSUME NEW s \in Second, slot'[s] # "ABSENT"
      PROVE  verdict'[1] # "NONE"
  <2>1. CASE slot[s] # "ABSENT"
    BY <1>4, <2>1 DEF WarmOK
  <2>2. CASE slot[s] = "ABSENT"
    <3>1. PICK c \in Caller : PlansSecond(c)
      BY <1>0, <1>5, <2>2, SlotMoves
    <3>2. CommitFreeze(c)
      BY <1>1, <3>1 DEF PlansSecond
    <3>. QED BY <1>4, <3>2 DEF CommitFreeze, WarmOK
  <2>. QED BY <2>1, <2>2
<1>6. ASSUME NEW d \in Caller, caller'[d].at = "freeze"
      PROVE  verdict'[1] # "NONE"
  <2>1. CASE caller'[d] = caller[d]
    BY <1>4, <1>6, <2>1 DEF WarmOK
  <2>2. CASE Moves(d)
    <3>1. Freeze(d)
      BY <1>6, <2>2, MovedCaller DEF Arrives
    <3>. QED BY <1>4, <3>1 DEF Freeze
  <2>3. UNCHANGED caller \/ \E c \in Caller : Moves(c)
    BY CallersStep
  <2>. QED BY <2>1, <2>2, <2>3, MovedCaller
<1>. QED BY <1>2, <1>3, <1>5, <1>6 DEF WarmOK

(* What is known of a trial that has ended, or of one that exists.         *)
LEMMA TrialStays ==
  ASSUME Types, [Next]_stageVars, NEW t \in TrialId
  PROVE  /\ trial[t].state \in Ended => trial'[t] = trial[t]
         /\ trial[t].state # "NONE" => trial'[t].state # "NONE"
         /\ trial'[t].state = trial[t].state \/ trial'[t].state \in Ended
            \/ trial'[t].state \in {"LAPSED", "UNFILED", "QUEUED", "RUNNING"}
<1>1. TrialWrites(t)
  BY TrialEffect DEF TrialsWritten
<1>2. "NONE" \notin Ended /\ "QUEUED" \notin Ended /\ "LAPSED" \notin Ended
      /\ "INTERRUPTED" \notin Ended
  BY DEF Ended
<1>. QED BY <1>1, <1>2 DEF TrialWrites, Absent

(* A run ends only after its trial; a trial that ended stays so.           *)
LEMMA RunTrialsStep ==
  ASSUME Types, Fresh, LedgerAlone, Trials, [Next]_stageVars
  PROVE  RunTrials'
<1>0. RunTrials
  BY DEF Trials
<1>1. ASSUME NEW s \in Slot
      PROVE  /\ slot'[s] = "COMPLETED" => trial'[RunTrial(s)].state = "COMPLETED"
             /\ slot'[s] = "FAILED" => trial'[RunTrial(s)].state \in Failures
             /\ slot'[s] = "CREATED" => trial'[RunTrial(s)].state # "NONE"
  <2>. DEFINE t == RunTrial(s)
  <2>0. /\ t \in TrialId
        /\ trial[t].state \in Ended => trial'[t] = trial[t]
        /\ trial[t].state # "NONE" => trial'[t].state # "NONE"
    BY RunNumbers, TrialStays
  <2>a. "COMPLETED" \in Ended /\ Failures \subseteq Ended
    BY DEF Ended, Failures
  <2>1. CASE slot'[s] = slot[s]
    <3>1. /\ slot[s] = "COMPLETED" => trial[t].state = "COMPLETED"
          /\ slot[s] = "FAILED" => trial[t].state \in Failures
          /\ slot[s] = "CREATED" => trial[t].state # "NONE"
      BY <1>0 DEF RunTrials
    <3>. QED BY <2>0, <2>1, <2>a, <3>1
  <2>2. ASSUME slot[s] = "CREATED", NEW c \in Caller, Files(c, s)
        PROVE  /\ slot'[s] = "COMPLETED" => trial'[t].state = "COMPLETED"
               /\ slot'[s] = "FAILED" => trial'[t].state \in Failures
               /\ slot'[s] # "CREATED"
    <3>1. /\ trial[t].state \in Ended
          /\ slot'[s] = IF trial[t].state = "COMPLETED" THEN "COMPLETED" ELSE "FAILED"
      BY <2>2 DEF Files, Settled, Types, Rows
    <3>. QED BY <2>0, <3>1 DEF Failures
  <2>3. ASSUME slot'[s] = "CREATED", NEW c \in Caller, RunStep(c), Refers(c, s)
        PROVE  trial'[t].state # "NONE"
    <3>1. CASE Attach(c)
      <4>1. caller[c].at = "attach" /\ caller[c].slot = s
        BY <2>3, <3>1 DEF Attach, Refers
      <4>. QED BY <1>0, <2>0, <4>1 DEF RunTrials
    <3>2. CASE CreateProbe(c)
      <4>1. caller[c].slot = s /\ slot[s] = "PLANNED"
        BY <2>3 DEF Refers
      <4>2. trial' = [trial EXCEPT ![t] = IF trial[t] = Absent
                        THEN [state |-> "QUEUED", tries |-> 0] ELSE trial[t]]
        BY <3>2, <4>1 DEF CreateProbe
      <4>3. CASE trial[t] = Absent
        <5>1. trial'[t] = [state |-> "QUEUED", tries |-> 0]
          BY <2>0, <4>2, <4>3 DEF Types, Rows
        <5>. QED BY <5>1
      <4>4. CASE trial[t] # Absent
        <5>1. trial'[t] = trial[t]
          BY <2>0, <4>2, <4>4 DEF Types, Rows
        <5>2. trial[t].state # "NONE"
          <6>1. trial[t].state = "NONE" => trial[t].tries = 0
            BY <2>0 DEF Trials, TrialOK
          <6>2. trial[t] \in TrialRow
            BY <2>0 DEF Types, Rows, TrialRow
          <6>. QED BY <4>4, <6>1, <6>2 DEF TrialRow, Absent
        <5>. QED BY <5>1, <5>2
      <4>. QED BY <4>3, <4>4
    <3>. QED BY <2>3, <3>1, <3>2 DEF Refers
  <2>4. CASE slot'[s] = "PLANNED"
    BY <2>4
  <2>. QED BY <2>1, <2>2, <2>3, <2>4, SlotMoves DEF Over
<1>2. ASSUME NEW d \in Caller, caller'[d].at = "attach"
      PROVE  trial'[RunTrial(caller'[d].slot)].state # "NONE"
  <2>1. CASE caller'[d] = caller[d]
    <3>1. caller[d].slot \in Slot
      BY <1>2, <2>1 DEF Types, CallerOK, LocalOK, OnRun
    <3>2. RunTrial(caller[d].slot) \in TrialId
      BY <3>1, RunNumbers
    <3>3. trial[RunTrial(caller[d].slot)].state # "NONE"
      BY <1>0, <1>2, <2>1 DEF RunTrials
    <3>. QED BY <2>1, <3>2, <3>3, TrialStays
  <2>2. CASE Moves(d)
    <3>1. /\ CreateRun(d) /\ AcceptsTrials
          /\ caller'[d].slot = caller[d].slot /\ caller'[d].slot \in Slot
      BY <1>2, <2>2, MovedCaller DEF Arrives
    <3>2. PICK t \in TrialId : t = RunTrial(caller[d].slot)
      BY <3>1, RunNumbers
    <3>3. trial' = IF trial[t] = Absent THEN [trial EXCEPT ![t].state = "QUEUED"] ELSE trial
      BY <3>1, <3>2 DEF CreateRun, CreateTrial
    <3>4. CASE trial[t] = Absent
      <4>1. trial'[t].state = "QUEUED"
        BY <3>3, <3>4 DEF Types, Rows
      <4>. QED BY <3>1, <3>2, <4>1
    <3>5. CASE trial[t] # Absent
      <4>1. trial[t].state = "NONE" => trial[t].tries = 0
        BY DEF Trials, TrialOK
      <4>2. trial[t] \in TrialRow
        BY DEF Types, Rows, TrialRow
      <4>3. trial[t].state # "NONE"
        BY <3>5, <4>1, <4>2 DEF TrialRow, Absent
      <4>. QED BY <3>1, <3>2, <3>3, <3>5, <4>3
    <3>. QED BY <3>4, <3>5
  <2>3. UNCHANGED caller \/ \E c \in Caller : Moves(c)
    BY CallersStep
  <2>. QED BY <2>1, <2>2, <2>3, MovedCaller
<1>. QED BY <1>1, <1>2 DEF RunTrials

(* The command that holds a running trial ends it when it goes on.         *)
LEMMA HolderEnds ==
  ASSUME Types, [Next]_stageVars, NEW c \in Caller, caller[c].at = "measure",
         NEW t \in TrialId, caller[c].trial = t, trial[t].state = "RUNNING"
  PROVE  caller'[c] = caller[c] \/ trial'[t].state # "RUNNING"
<1>0. trial \in [TrialId -> TrialRow]
  BY DEF Types, Rows, TrialRow
<1>1. ASSUME NEW st \in {"COMPLETED", "INVALID", "INFRA", "CANDIDATE", "QUEUED", "UNFILED", "LAPSED"},
             trial' = [trial EXCEPT ![t].state = st]
      PROVE  trial'[t].state # "RUNNING"
  BY <1>0, <1>1
<1>2. CASE Outside
  BY <1>2, OutsideFrame
<1>3. ASSUME NEW d \in Caller, d # c, Moves(d)
      PROVE  caller'[c] = caller[c]
  BY <1>3, MovedCaller
<1>4. CASE Analysis
  BY <1>4, AnalysisFrame
<1>5. CASE RestoreStep(c)
  <2>. QED BY <1>5, RestoreFrame DEF RestoreAt
<1>6. CASE Leaving(c)
  BY <1>1, <1>6 DEF Leaving, Steer, Crash
<1>7. CASE RunStep(c) /\ ~Analysis
  <2>1. CASE Works(c)
    <3>1. CASE Measured(c, "settle")
      BY <1>1, <3>1 DEF Measured
    <3>2. CASE AttemptFails(c)
      <4>1. PICK st \in {"INFRA", "CANDIDATE", "QUEUED"} : trial' = [trial EXCEPT ![t].state = st]
        BY <3>2 DEF AttemptFails
      <4>. QED BY <1>1, <4>1
    <3>. QED BY <2>1, <3>1, <3>2 DEF Works, RunOnce, LeaseLost
  <2>2. CASE Probed(c)
    BY <1>1, <2>2 DEF Probed
  <2>3. CASE ~Works(c) /\ ~Probed(c)
    <3>1. /\ ~StartRun(c) /\ ~StageReconciles(c) /\ ~StageSettles(c) /\ ~StageFails(c)
          /\ ~StageStarts(c) /\ ~StageSelects(c) /\ ~CreateRun(c) /\ ~Attach(c)
          /\ ~Insert(c)
      BY DEF StartRun, Begin, Enter, StageReconciles, ReconcileFirst, StageSettles,
         ReconcileLast, StageFails, FailBlock, StageStarts, StartBlock, StageSelects,
         ChooseRun, CompletePart, CreateRun, Attach, Insert, InsertRuns
    <3>2. ~Create(c)
      BY DEF Create, CreateCampaign, OpenCampaign, Quiet, Busy
    <3>3. ~Load(c) /\ ~Decide(c) /\ ~Freeze(c) /\ ~CommitFreeze(c)
      BY DEF Load, LoadRuns, Enter, Decide, CommitVerdict, Freeze, CommitFreeze
    <3>4. /\ ~ProbeReconciles(c) /\ ~ProbeSelects(c) /\ ~LadderReconciles(c)
          /\ ~AsksToFinalize(c) /\ ~RollsBack(c) /\ ~Finalizes(c) /\ ~LadderSelects(c)
          /\ ~Prepares(c) /\ ~Applies(c) /\ ~Readies(c) /\ ~ChecksDrift(c)
          /\ ~CreateProbe(c)
      BY DEF ProbeReconciles, ProbeSelects, ChooseRun, LadderReconciles, AsksToFinalize,
         RollsBack, Finalizes, LadderSelects, Prepares, Applies, Readies, ChecksDrift,
         CreateProbe
    <3>. QED BY <1>7, <2>3, <3>1, <3>2, <3>3, <3>4 DEF RunStep, Analysis
  <2>. QED BY <2>1, <2>2, <2>3
<1>8. ASSUME NEW d \in Caller, d # c, RestoreStep(d) \/ Leaving(d)
      PROVE  caller'[c] = caller[c]
  BY <1>8, RestoreFrame, LeavingFrame
<1>. QED BY <1>2, <1>3, <1>4, <1>5, <1>6, <1>7, <1>8, Kinds

(* With what is known of each trial.                                       *)
LEMMA TrialsStep ==
  ASSUME Types, Fresh, LedgerAlone, Trials, [Next]_stageVars
  PROVE  Trials'
<1>k. kind' = kind
  BY RowsStep
<1>1. ASSUME NEW t \in TrialId
      PROVE  TrialOK(t)'
  <2>0. TrialWrites(t) /\ TrialOK(t) /\ trial[t] \in TrialRow
    BY TrialEffect DEF TrialsWritten, Trials, Types, Rows, TrialRow
  <2>n. /\ "NONE" \notin Ended /\ "QUEUED" \notin Ended /\ "RUNNING" \notin Ended
        /\ "INTERRUPTED" \notin Ended
    BY DEF Ended
  <2>1. CASE trial'[t] = trial[t]
    <3>1. ASSUME trial[t].state = "RUNNING"
          PROVE  \E c \in Caller : caller'[c].at = "measure" /\ caller'[c].trial = t
      <4>1. PICK c \in Caller : caller[c].at = "measure" /\ caller[c].trial = t
        BY <2>0, <3>1 DEF TrialOK
      <4>2. caller'[c] = caller[c]
        BY <2>1, <3>1, <4>1, HolderEnds
      <4>. QED BY <4>1, <4>2
    <3>. QED BY <1>k, <2>0, <2>1, <3>1 DEF TrialOK
  <2>2. CASE trial[t] = Absent /\ trial'[t].state = "QUEUED" /\ trial'[t].tries = 0
    <3>1. MaxTries[kind] \in Nat \ {0}
      BY StageCoreAssumption DEF Types, Rows
    <3>. QED BY <1>k, <2>2, <3>1 DEF TrialOK
  <2>3. CASE /\ trial'[t].state = "RUNNING"
             /\ \E c \in Caller : caller'[c].at = "measure" /\ caller'[c].trial = t
    BY <2>3 DEF TrialOK
  <2>4. CASE /\ trial'[t].state \in Ended \cup {"LAPSED", "UNFILED", "QUEUED"}
             /\ trial'[t].state = "QUEUED" => trial'[t].tries < MaxTries[kind]
    BY <1>k, <2>4, <2>n DEF TrialOK
  <2>. QED BY <2>0, <2>1, <2>2, <2>3, <2>4 DEF TrialWrites
<1>. QED BY <1>1, RunTrialsStep DEF Trials

(* All of it together.                                                     *)
LEMMA AlwaysInit ==
  ASSUME Init
  PROVE  Always
<1>1. /\ campaign = [status |-> "NONE", emergency |-> FALSE, failures |-> 0]
      /\ block = "NONE" /\ validation = "NONE" /\ remediation = "NONE" /\ supersedes = FALSE
      /\ \A t \in TrialId : trial[t] = Absent
      /\ \A c \in Caller : caller[c] = Idle
      /\ \A s \in Slot : slot[s] = "ABSENT"
      /\ \A p \in 1..2 : verdict[p] = "NONE" /\ ladder[p] = "PLANNED"
  BY DEF Init, InitCore, InitLedger, InitRestore
<1>2. /\ campaign.status = "NONE" /\ campaign.emergency = FALSE
      /\ \A c \in Caller : caller[c].at = "idle"
      /\ \A t \in TrialId : trial[t].state = "NONE" /\ trial[t].tries = 0
      /\ verdict[1] = "NONE" /\ verdict[2] = "NONE"
  <2>1. 1 \in 1..2 /\ 2 \in 1..2
    OBVIOUS
  <2>. QED BY <1>1, <2>1, IdleLocal DEF Absent
<1>3. First \subseteq Slot /\ Second \subseteq Slot /\ \A s \in Slot : RunTrial(s) \in TrialId
  BY RunNumbers
<1>4. Fresh /\ LedgerAlone /\ Created /\ EmergencyEnds
  BY <1>1, <1>2 DEF Fresh, LedgerAlone, Created, EmergencyEnds
<1>5. Reps /\ Rebuilt
  BY <1>1, <1>2 DEF Reps, Rebuilt, InSeries
<1>6. Blocks /\ Verdicts
  BY <1>1, <1>2, <1>3, StageNames DEF Blocks, Verdicts, StageBlock
<1>7. RefOK /\ WarmOK
  BY <1>1, <1>2, <1>3 DEF RefOK, WarmOK
<1>8. Trials
  BY <1>1, <1>2, <1>3 DEF Trials, RunTrials, TrialOK
<1>. QED BY <1>4, <1>5, <1>6, <1>7, <1>8 DEF Always

(* Every step keeps all of it.                                             *)
LEMMA AlwaysStep ==
  ASSUME Types, Always, [Next]_stageVars
  PROVE  Always'
BY FreshStep, LedgerAloneStep, CreatedStep, EmergencyStep, RepsStep, RebuiltStep, BlocksStep,
   VerdictsStep, RefStep, WarmStep, TrialsStep, Zenon DEF Always

(* It holds however commands overlap.                                      *)
LEMMA AlwaysHolds == Spec => [](Types /\ Always)
<1>1. Init => Types /\ Always
  BY TypesInit, AlwaysInit
<1>2. Types /\ Always /\ [Next]_stageVars => Types' /\ Always'
  BY TypesStep, AlwaysStep
<1>. QED BY <1>1, <1>2, PTL DEF Spec
-----------------------------------------------------------------------------
(***************************************************************************)
(* What holds while commands do not overlap.                               *)
(***************************************************************************)
Solo == \A c, d \in Busy : c = d

(* What a command may rely on at its position: no run is in flight when it *)
(* chooses one, and the block is as it read it ...                         *)
WorkingRuns(l) ==
  /\ l.at = "select" \/ (l.at \in {"start", "finalize?"} /\ ~l.open) => InFlight = {}
  /\ l.at \in OnRun => InFlight = {} /\ slot[l.slot] = "PLANNED"
  /\ Staged /\ l.at \in {"reconcile", "start", "select", "analyze"} => l.block = block
  /\ l.at = "fail" => block \notin {"PASSED", "BLOCKED", Done2}

(* ... its series runs, and it has counted all that passed ...             *)
WorkingSeries(l) ==
  /\ l.at = "claim" => validation \in {"PLANNED", "RUNNING"}
  /\ InSeries(l) => validation = "RUNNING"
  /\ l.at = "pass" => l.number \in l.given /\ \A r \in Rep : rep[r] = "PASSED" => r \in l.given

(* ... its ladder is the one at work.                                      *)
WorkingLadder(l) ==
  /\ l.at = "prepare" => ladder[l.number] \in {"PLANNED", "PREPARING"} /\ AtWork \subseteq {l.number}
  /\ l.at = "apply" => ladder[l.number] = "PREPARING"
  /\ l.at = "ready" => ladder[l.number] = "PREPARING" /\ target = Own(l.number)
  /\ l.at = "rollback" => Finalizable(l.number) /\ l.number \in AtWork
  /\ l.at = "finalize" => Finalizable(l.number) /\ target = Default

Working == \A c \in Caller :
  WorkingRuns(caller[c]) /\ WorkingSeries(caller[c]) /\ WorkingLadder(caller[c])

(* Runs are executed one by one, and a part is complete when all are over. *)
OneInFlight == \A s, r \in InFlight : s = r

Settles == \A s \in Slot : slot[s] \in Over \cup {"ABSENT"}

Parts == Staged =>
  /\ block \in {Plan1, Run1} => \A s \in Second : slot[s] = "ABSENT"
  /\ block \in {Plan2, Run2} =>
       (\A s \in First : slot[s] \in Over) /\ (\A s \in Second : slot[s] # "ABSENT")
  /\ block \notin {"NONE", "FAILED", Plan1, Run1, Plan2, Run2} => Settles
  /\ Analyzed => \A p \in 1..2 : verdict[p] # "NONE" => \A s \in Part(p) : slot[s] \in Over

(* A series that runs has lost no repetition, and has one to go.           *)
Series ==
  /\ validation = "PLANNED" => \A r \in Rep : rep[r] = "PLANNED"
  /\ validation = "RUNNING" =>
       /\ \A r \in Rep : rep[r] \in {"PLANNED", "RUNNING", "PASSED"}
       /\ \E r \in Rep : rep[r] # "PASSED"

(* One ladder is at work; the target is its, or nobody's.                  *)
Ladders == kind = "saturation" =>
  /\ \A l \in 1..2 : target = Own(l) => l \in AtWork
  /\ \A l, m \in AtWork : l = m
  /\ \A l \in 1..2 : ladder[l] \in {"READY", "RUNNING"} /\ ~Finalizable(l) => target = Own(l)

(* A failure that ends the stage has ended it, or is about to.             *)
Stops ==
  Staged /\ ~passedOver
    /\ (\E s \in Slot : slot[s] = "FAILED" /\ trial[RunTrial(s)].state \in Fatal)
    => block = "FAILED" \/ \E c \in Caller : caller[c].at = "fail"

Serial == Solo /\ Working /\ OneInFlight /\ Parts /\ Series /\ Ladders /\ Stops

SerialInv == ~overlapped => Serial
-----------------------------------------------------------------------------
(* A command that starts alone finds nobody at work.                       *)
LEMMA IdleSteps ==
  ASSUME NEW c \in Caller, caller[c].at = "idle"
  PROVE  /\ RestoreStep(c) => overlapped' = (overlapped \/ ~Quiet)
         /\ RunStep(c) => Analysis \/ Quiet \/ overlapped' = (overlapped \/ ~Quiet)
<1>1. ASSUME RestoreStep(c)
      PROVE  overlapped' = (overlapped \/ ~Quiet)
  <2>1. /\ ~ClaimRepetition(c) /\ ~CountPassed(c) /\ ~CommitPassed(c) /\ ~RepetitionFails(c)
        /\ ~Rebuild(c)
    BY DEF ClaimRepetition, CountPassed, CommitPassed, RepetitionFails, Rebuild
  <2>2. BeginRepetition(c) \/ ClaimRemediation(c)
    BY <1>1, <2>1 DEF RestoreStep, Repetition
  <2>. QED BY <2>2, Zenon DEF BeginRepetition, ClaimRemediation, Enter
<1>2. ASSUME RunStep(c)
      PROVE  Analysis \/ Create(c) \/ StartRun(c) \/ Load(c) \/ Freeze(c)
  <2>1. /\ ~StageReconciles(c) /\ ~StageSettles(c) /\ ~StageFails(c)
        /\ ~StageStarts(c) /\ ~StageSelects(c) /\ ~CreateRun(c) /\ ~Attach(c)
        /\ ~Works(c) /\ ~Insert(c) /\ ~Decide(c) /\ ~CommitFreeze(c)
    BY DEF StageReconciles, ReconcileFirst, StageSettles, ReconcileLast,
       StageFails, FailBlock, StageStarts, StartBlock, StageSelects, ChooseRun, CompletePart,
       CreateRun, Attach, Works, RunOnce, Measured, AttemptFails, LeaseLost, Insert,
       InsertRuns, Decide, CommitVerdict, CommitFreeze
  <2>2. /\ ~ProbeReconciles(c) /\ ~ProbeSelects(c) /\ ~LadderReconciles(c)
        /\ ~AsksToFinalize(c) /\ ~RollsBack(c) /\ ~Finalizes(c) /\ ~LadderSelects(c)
        /\ ~Prepares(c) /\ ~Applies(c) /\ ~Readies(c) /\ ~ChecksDrift(c) /\ ~CreateProbe(c)
        /\ ~Probed(c)
    BY DEF ProbeReconciles, ProbeSelects, ChooseRun, LadderReconciles, AsksToFinalize,
       RollsBack, Finalizes, LadderSelects, Prepares, Applies, Readies, ChecksDrift,
       CreateProbe, Probed
  <2>. QED BY <1>2, <2>1, <2>2 DEF RunStep, Analysis
<1>3. Create(c) => Quiet
  BY DEF Create, CreateCampaign, OpenCampaign
<1>4. StartRun(c) \/ Load(c) \/ Freeze(c) => overlapped' = (overlapped \/ ~Quiet)
  BY Zenon DEF StartRun, Begin, Load, LoadRuns, Freeze, Enter
<1>. QED BY <1>1, <1>2, <1>3, <1>4

(* While commands do not overlap, whoever steps is alone.                  *)
Alone(c) == \A d \in Caller : d # c => caller[d].at = "idle" /\ caller'[d] = caller[d]

(* Every step is that of one command, or of somebody outside the stage.    *)
LEMMA OneCommand ==
  ASSUME Types, Solo, [Next]_stageVars, ~overlapped'
  PROVE  \/ Outside
         \/ Analysis /\ UNCHANGED restoreVars
         \/ \E c \in Caller :
              /\ Alone(c)
              /\ \/ RunStep(c) /\ UNCHANGED restoreVars /\ Moves(c) /\ ~Analysis
                 \/ RestoreStep(c) /\ Moves(c)
                 \/ Leaving(c)
<1>1. ASSUME NEW c \in Caller, caller[c].at # "idle"
      PROVE  \A d \in Caller : d # c => caller[d].at = "idle"
  BY <1>1 DEF Solo, Busy
<1>2. ASSUME Quiet
      PROVE  \A d \in Caller : caller[d].at = "idle"
  BY <1>2 DEF Quiet, Busy
<1>3. ASSUME NEW c \in Caller, (RunStep(c) /\ ~Analysis) \/ RestoreStep(c)
      PROVE  \A d \in Caller : d # c => caller[d].at = "idle"
  <2>1. CASE caller[c].at = "idle"
    <3>1. Quiet
      BY <1>3, <2>1, IdleSteps, Zenon
    <3>. QED BY <1>2, <3>1
  <2>. QED BY <1>1, <2>1
<1>4. ASSUME NEW c \in Caller, Leaving(c)
      PROVE  \A d \in Caller : d # c => caller[d].at = "idle"
  <2>1. caller[c].at # "idle"
    BY <1>4 DEF Leaving, Steer, Crash, Busy
  <2>. QED BY <1>1, <2>1
<1>5. ASSUME NEW c \in Caller, RunStep(c), UNCHANGED restoreVars, Moves(c) \/ Analysis
      PROVE  Analysis \/ (Alone(c) /\ Moves(c) /\ ~Analysis)
  BY <1>3, <1>5, MovedCaller DEF Alone
<1>6. ASSUME NEW c \in Caller, RestoreStep(c), Moves(c)
      PROVE  Alone(c)
  BY <1>3, <1>6, MovedCaller DEF Alone
<1>7. ASSUME NEW c \in Caller, Leaving(c)
      PROVE  Alone(c)
  BY <1>4, <1>7, LeavingFrame DEF Alone
<1>. QED BY <1>5, <1>6, <1>7, Kinds

(* It stays alone.                                                         *)
LEMMA SoloStep ==
  ASSUME Types, Solo, [Next]_stageVars, ~overlapped'
  PROVE  Solo'
<1>1. ASSUME UNCHANGED caller
      PROVE  Solo'
  BY <1>1 DEF Solo, Busy
<1>2. ASSUME NEW c \in Caller, Alone(c)
      PROVE  Solo'
  <2>1. ASSUME NEW d \in Caller, caller'[d].at # "idle"
        PROVE  d = c
    BY <1>2, <2>1 DEF Alone
  <2>. QED BY <2>1 DEF Solo, Busy
<1>. QED BY <1>1, <1>2, OneCommand, OutsideFrame, AnalysisFrame
-----------------------------------------------------------------------------
(* A run is sent on its way only when none is.                             *)
LEMMA OneInFlightStep ==
  ASSUME Types, Always, Serial, [Next]_stageVars
  PROVE  OneInFlight'
<1>0. slot \in [Slot -> SlotStatus]
  BY DEF Types, Rows
<1>1. CASE \E c \in Caller, s \in Slot : Refers(c, s)
  <2>1. PICK c \in Caller, s \in Slot : Refers(c, s)
    BY <1>1
  <2>2. caller[c].at \in OnRun
    BY <2>1 DEF Refers, Attach, CreateProbe, OnRun
  <2>3. InFlight = {}
    BY <2>2 DEF Serial, Working, WorkingRuns
  <2>4. \A r \in Slot : slot[r] # "CREATED"
    BY <2>3 DEF InFlight
  <2>5. \A r \in Slot : slot'[r] = "CREATED" => r = s
    BY <1>0, <2>1, <2>4 DEF Refers
  <2>. QED BY <2>5 DEF OneInFlight, InFlight
<1>2. CASE ~ \E c \in Caller, s \in Slot : Refers(c, s)
  <2>1. ASSUME NEW s \in Slot, slot'[s] = "CREATED"
        PROVE  slot[s] = "CREATED"
    <3>1. SlotStatus = {"ABSENT", "PLANNED", "CREATED", "COMPLETED", "FAILED"}
      BY DEF SlotStatus
    <3>. QED BY <1>2, <2>1, <3>1, SlotMoves DEF Always, Over
  <2>. QED BY <2>1 DEF Serial, OneInFlight, InFlight
<1>. QED BY <1>1, <1>2

(* What is analysed is settled.                                            *)
LEMMA DecidesSettled ==
  ASSUME Types, Always, Serial, NEW c \in Caller, Decide(c)
  PROVE  /\ Staged /\ block # "NONE" /\ caller[c].block = block
         /\ block \in {Done1, Done2} /\ Settles
         /\ \A s \in First : slot[s] \in Over
         /\ caller[c].block = Done2 => \A s \in Second : slot[s] \in Over
<1>1. caller[c].at = "analyze" /\ Analyzed /\ Staged
  BY StageNames DEF Decide, CommitVerdict
<1>2. /\ block # "NONE" /\ caller[c].block \in {Done1, Done2}
      /\ caller[c].block = Done2 => \A s \in Second : slot[s] # "ABSENT"
      /\ \A s \in First : slot[s] # "ABSENT"
  BY <1>1 DEF Always, Verdicts
<1>3. caller[c].block = block
  BY <1>1 DEF Serial, Working, WorkingRuns
<1>4. block \notin {"NONE", "FAILED", Plan1, Run1, Plan2, Run2}
  BY <1>2, <1>3, StageNames
<1>5. Settles
  BY <1>1, <1>4 DEF Serial, Parts
<1>6. First \subseteq Slot /\ Second \subseteq Slot
  BY RunNumbers
<1>. QED BY <1>1, <1>2, <1>3, <1>5, <1>6 DEF Settles

(* Planning the second part finds the first one over.                      *)
LEMMA SecondAfterFirst ==
  ASSUME Types, Always, Serial, NEW c \in Caller, RunStep(c), PlansSecond(c), Staged
  PROVE  \A s \in First : slot[s] \in Over
<1>1. CASE Decide(c)
  BY <1>1, DecidesSettled
<1>2. CASE CommitFreeze(c) /\ block = Done1
  <2>1. block \notin {"NONE", "FAILED", Plan1, Run1, Plan2, Run2}
    BY <1>2, StageNames
  <2>2. Settles
    BY <2>1 DEF Serial, Parts
  <2>3. \A s \in First : slot[s] # "ABSENT"
    BY <2>1 DEF Always, Verdicts
  <2>4. First \subseteq Slot
    BY RunNumbers
  <2>. QED BY <2>2, <2>3, <2>4 DEF Settles
<1>3. CASE CommitFreeze(c) /\ block # Done1
  <2>1. block = Plan2
    BY <1>3 DEF CommitFreeze, PlansSecond
  <2>. QED BY <2>1 DEF Serial, Parts
<1>. QED BY <1>1, <1>2, <1>3 DEF PlansSecond

(* The part a command finds complete is, and all is settled.               *)
LEMMA CompletesSettled ==
  ASSUME Types, Always, Serial, NEW c \in Caller, RunStep(c), Completes(c)
  PROVE  UNCHANGED slot /\ Settles
<1>1. caller[c].at = "select" /\ Staged
  BY DEF Completes
<1>2. /\ ~Insert(c) /\ ~PlansSecond(c)
      /\ \A s \in Slot : ~Files(c, s) /\ ~Refers(c, s)
  BY <1>1 DEF Insert, InsertRuns, PlansSecond, Decide, CommitVerdict, CommitFreeze, Files,
     Refers, Attach, CreateProbe
<1>3. UNCHANGED slot
  BY <1>2, SlotEffect DEF SlotWrites
<1>4. InFlight = {} /\ caller[c].block = block
  BY <1>1 DEF Serial, Working, WorkingRuns
<1>5. caller[c].block \in {Run1, Run2}
  BY <1>1 DEF Always, Blocks
<1>6. slot \in [Slot -> SlotStatus]
  BY DEF Types, Rows
<1>7. \A s \in Slot : slot[s] # "CREATED" /\ (s \in First \/ s \in Second)
  BY <1>4, RunNumbers DEF InFlight
<1>8. CASE block = Run1
  <2>1. Planned(First) = {}
    BY <1>4, <1>8 DEF Completes
  <2>2. \A s \in First : slot[s] # "PLANNED"
    BY <2>1 DEF Planned
  <2>3. \A s \in Second : slot[s] = "ABSENT"
    BY <1>1, <1>8 DEF Serial, Parts
  <2>. QED BY <1>3, <1>6, <1>7, <2>2, <2>3 DEF Settles, SlotStatus, Over
<1>9. CASE block = Run2
  <2>1. Planned(Second) = {}
    BY <1>4, <1>9, StageNames DEF Completes
  <2>2. \A s \in Second : slot[s] # "PLANNED"
    BY <2>1 DEF Planned
  <2>3. \A s \in First : slot[s] \in Over
    BY <1>1, <1>9 DEF Serial, Parts
  <2>. QED BY <1>3, <1>6, <1>7, <2>2, <2>3 DEF Settles, SlotStatus, Over
<1>. QED BY <1>4, <1>5, <1>8, <1>9

(* How the block of a stage changes, at any step.                          *)
LEMMA StagedMovesBlock ==
  ASSUME Types, Always, Serial, [Next]_stageVars, Staged
  PROVE  \/ UNCHANGED block
         \/ \E c \in Caller : RunStep(c) /\
              \/ Insert(c) /\ block' = Plan1
              \/ StageFails(c) /\ block \notin Final /\ block' = "FAILED"
              \/ StageStarts(c) /\ block = Plan1 /\ block' = Run1
              \/ StageStarts(c) /\ block = Plan2 /\ block' = Run2
              \/ Completes(c)
              \/ Concludes(c) /\ Analyzed
              \/ PlansSecond(c) /\ block' = Plan2
<1>1. Blocks
  BY DEF Always
<1>2. ASSUME NEW c \in Caller, RunStep(c)
      PROVE  UNCHANGED block \/
              \/ Insert(c) /\ block' = Plan1
              \/ StageFails(c) /\ block \notin Final /\ block' = "FAILED"
              \/ StageStarts(c) /\ block = Plan1 /\ block' = Run1
              \/ StageStarts(c) /\ block = Plan2 /\ block' = Run2
              \/ Completes(c)
              \/ Concludes(c) /\ Analyzed
              \/ PlansSecond(c) /\ block' = Plan2
  BY <1>1, <1>2, BlockMoves
<1>. QED BY <1>2, Kinds, OutsideFrame, RestoreFrame, LeavingFrame

(* The second part waits for the first.                                    *)
LEMMA PlannedStays ==
  ASSUME Types, Always, [Next]_stageVars, NEW s \in Slot, slot[s] = "ABSENT",
         block # "NONE", block' # Plan2
  PROVE  slot'[s] = "ABSENT"
BY SlotMoves DEF Always, PlansSecond

(* The part at work is the one the block names.                            *)
LEMMA PartsStep ==
  ASSUME Types, Always, Serial, [Next]_stageVars
  PROVE  Parts'
<1>0. kind' = kind /\ slot \in [Slot -> SlotStatus]
  BY RowsStep DEF Types, Rows
<1>a. First \subseteq Slot /\ Second \subseteq Slot
  BY RunNumbers
<1>b. Slot' = Slot /\ Second' = Second
  BY DEF Slot, Second
<1>. SUFFICES ASSUME Staged
              PROVE  /\ block' \in {Plan1, Run1} => \A s \in Second : slot'[s] = "ABSENT"
                     /\ block' \in {Plan2, Run2} =>
                          (\A s \in First : slot'[s] \in Over) /\ (\A s \in Second : slot'[s] # "ABSENT")
                     /\ block' \notin {"NONE", "FAILED", Plan1, Run1, Plan2, Run2} =>
                          \A s \in Slot : slot'[s] \in Over \cup {"ABSENT"}
                     /\ Analyzed => \A p \in 1..2 : verdict'[p] # "NONE" =>
                          \A s \in Part(p) : slot'[s] \in Over
  <2>1. \A p : Part(p)' = Part(p)
    BY DEF Part, Second, Slot
  <2>. QED BY <1>0, <1>b, <2>1, SameNames DEF Parts, Settles, Over
<1>1. /\ block \in {Plan1, Run1} => \A s \in Second : slot[s] = "ABSENT"
      /\ block \in {Plan2, Run2} =>
           (\A s \in First : slot[s] \in Over) /\ (\A s \in Second : slot[s] # "ABSENT")
      /\ block \notin {"NONE", "FAILED", Plan1, Run1, Plan2, Run2} =>
           \A s \in Slot : slot[s] \in Over \cup {"ABSENT"}
      /\ Analyzed => \A p \in 1..2 : verdict[p] # "NONE" =>
           \A s \in Part(p) : slot[s] \in Over
  BY DEF Serial, Parts, Settles
<1>2. \A s \in Slot : slot[s] \in Over => slot'[s] = slot[s]
  BY SlotStays DEF Always
<1>3. \A s \in Slot : slot[s] # "ABSENT" => slot'[s] # "ABSENT"
  BY SlotStays DEF Always
<1>4. block # "NONE" /\ block' # Plan2 => \A s \in Slot : slot[s] = "ABSENT" => slot'[s] = "ABSENT"
  BY PlannedStays
<1>5. block' \in {Plan1, Run1} => \A s \in Second : slot'[s] = "ABSENT"
  <2>. SUFFICES ASSUME block' \in {Plan1, Run1} PROVE \A s \in Second : slot'[s] = "ABSENT"
    OBVIOUS
  <2>1. CASE \E c \in Caller : Insert(c)
    BY <1>a, <2>1 DEF Insert, InsertRuns, Second
  <2>2. ASSUME NEW c \in Caller, Concludes(c), Analyzed
        PROVE  block' \in {"PASSED", "BLOCKED"}
    BY <2>2 DEF Concludes, Outcomes, Types, Rows
  <2>3. ASSUME NEW c \in Caller, Completes(c)
        PROVE  block' \in {Done1, Done2}
    BY <2>3 DEF Completes
  <2>4. CASE ~ \E c \in Caller : Insert(c)
    <3>1. block \in {Plan1, Run1}
      BY <2>2, <2>3, <2>4, StageNames, StagedMovesBlock
    <3>. QED BY <1>1, <1>4, <1>a, <3>1, StageNames
  <2>. QED BY <2>1, <2>4
<1>6. block' \in {Plan2, Run2} =>
        (\A s \in First : slot'[s] \in Over) /\ (\A s \in Second : slot'[s] # "ABSENT")
  <2>. SUFFICES ASSUME block' \in {Plan2, Run2}
                PROVE  (\A s \in First : slot'[s] \in Over) /\ (\A s \in Second : slot'[s] # "ABSENT")
    OBVIOUS
  <2>1. CASE block \in {Plan2, Run2}
    BY <1>1, <1>2, <1>3, <1>a, <2>1
  <2>2. ASSUME NEW c \in Caller, Concludes(c), Analyzed
        PROVE  block' \in {"PASSED", "BLOCKED"}
    BY <2>2 DEF Concludes, Outcomes, Types, Rows
  <2>3. ASSUME NEW c \in Caller, Completes(c)
        PROVE  block' \in {Done1, Done2}
    BY <2>3 DEF Completes
  <2>4. CASE block \notin {Plan2, Run2}
    <3>1. PICK c \in Caller : RunStep(c) /\ PlansSecond(c)
      BY <2>2, <2>3, <2>4, StageNames, StagedMovesBlock
    <3>2. \A s \in First : slot[s] \in Over
      BY <3>1, SecondAfterFirst
    <3>3. \A s \in Second : slot'[s] = "PLANNED"
      BY <1>a, <3>1 DEF PlansSecond
    <3>. QED BY <1>2, <1>a, <3>2, <3>3
  <2>. QED BY <2>1, <2>4
<1>7. block' \notin {"NONE", "FAILED", Plan1, Run1, Plan2, Run2} =>
        \A s \in Slot : slot'[s] \in Over \cup {"ABSENT"}
  <2>. SUFFICES ASSUME block' \notin {"NONE", "FAILED", Plan1, Run1, Plan2, Run2}
                PROVE  \A s \in Slot : slot'[s] \in Over \cup {"ABSENT"}
    OBVIOUS
  <2>1. CASE block' = block
    BY <1>1, <1>2, <1>4, <2>1
  <2>2. CASE \E c \in Caller : RunStep(c) /\ Completes(c)
    BY <2>2, CompletesSettled DEF Settles
  <2>3. CASE \E c \in Caller : Concludes(c)
    BY <2>3, DecidesSettled DEF Concludes, Settles
  <2>. QED BY <2>1, <2>2, <2>3, StagedMovesBlock
<1>8. Analyzed => \A p \in 1..2 : verdict'[p] # "NONE" =>
        \A s \in Part(p) : slot'[s] \in Over
  <2>. SUFFICES ASSUME Analyzed, NEW p \in 1..2, verdict'[p] # "NONE", NEW s \in Part(p)
                PROVE  slot'[s] \in Over
    OBVIOUS
  <2>0. s \in Slot
    BY <1>a DEF Part
  <2>1. CASE verdict'[p] = verdict[p]
    BY <1>1, <1>2, <2>0, <2>1
  <2>2. CASE verdict'[p] # verdict[p]
    <3>1. PICK c \in Caller : RunStep(c) /\ VerdictCause(c, p)
      BY <2>2, VerdictMoves DEF Always, Verdicts
    <3>2. CASE Concludes(c) /\ p = (IF caller[c].block = Done1 THEN 1 ELSE 2)
      <4>1. /\ \A r \in First : slot[r] \in Over
            /\ caller[c].block = Done2 => \A r \in Second : slot[r] \in Over
            /\ caller[c].block \in {Done1, Done2}
        BY <3>2, DecidesSettled DEF Concludes
      <4>2. slot[s] \in Over
        BY <3>2, <4>1 DEF Part
      <4>. QED BY <1>2, <2>0, <4>2
    <3>3. CASE PlansSecond(c) /\ p = 1
      <4>1. \A r \in First : slot[r] \in Over
        BY <3>1, <3>3, SecondAfterFirst
      <4>. QED BY <1>2, <2>0, <3>3, <4>1 DEF Part
    <3>4. ~AnalyzeWarmup /\ ~AnalyzeDuration
      BY DEF Analyzed, AnalyzeWarmup, AnalyzeDuration
    <3>. QED BY <3>1, <3>2, <3>3, <3>4 DEF VerdictCause
  <2>. QED BY <2>1, <2>2
<1>. QED BY <1>5, <1>6, <1>7, <1>8
-----------------------------------------------------------------------------
(* The repetitions of a series are run one by one to its end.              *)
LEMMA SeriesStep ==
  ASSUME Types, Always, Serial, [Next]_stageVars
  PROVE  Series'
<1>0. rep \in [Rep -> RestoreStatus] /\ Rep' = Rep /\ 1 \in Rep
  BY RepetitionsAssumption DEF Types, Rows, Rep
<1>1. Series
  BY DEF Serial
<1>2. CASE UNCHANGED <<validation, rep>>
  BY <1>0, <1>1, <1>2 DEF Series
<1>3. CASE PlanSeries(TRUE) \/ PlanSeries(FALSE)
  BY <1>0, <1>3 DEF PlanSeries, Series
<1>4. ASSUME NEW c \in Caller, RestoreStep(c)
      PROVE  Series'
  <2>0. WorkingSeries(caller[c])
    BY DEF Serial, Working
  <2>1. CASE caller[c].at = "claim" /\ validation' = IF validation = "PLANNED" THEN "RUNNING" ELSE validation
    <3>1. validation \in {"PLANNED", "RUNNING"} /\ validation' = "RUNNING"
      BY <2>0, <2>1 DEF WorkingSeries
    <3>2. \A r \in Rep : rep[r] \in {"PLANNED", "RUNNING", "PASSED"}
      BY <1>1, <3>1 DEF Series
    <3>3. CASE UNCHANGED rep /\ \A r \in Rep : rep[r] # "PLANNED"
      <4>1. validation = "RUNNING"
        BY <1>0, <1>1, <3>1, <3>3 DEF Series
      <4>. QED BY <1>0, <1>1, <3>1, <3>3, <4>1 DEF Series
    <3>4. ASSUME NEW n \in Rep, rep' = [rep EXCEPT ![n] = "RUNNING"]
          PROVE  Series'
      BY <1>0, <3>1, <3>2, <3>4 DEF Series
    <3>. QED BY <1>4, <2>1, <3>1, <3>3, <3>4, <1>2, SeriesEffect
  <2>2. CASE /\ caller[c].at = "pass"
             /\ rep' = [rep EXCEPT ![caller[c].number] = "PASSED"]
             /\ validation' = IF caller[c].given = Rep /\ validation = "RUNNING"
                                THEN "PASSED" ELSE validation
    <3>1. /\ validation = "RUNNING" /\ caller[c].number \in caller[c].given
          /\ \A r \in Rep : rep[r] = "PASSED" => r \in caller[c].given
      BY <2>0, <2>2 DEF WorkingSeries, InSeries
    <3>2. caller[c].given \in SUBSET Rep /\ caller[c].number \in Rep
      BY <2>2 DEF Types, CallerOK, LocalOK, LocalType
    <3>3. CASE caller[c].given = Rep
      BY <2>2, <3>1, <3>3 DEF Series
    <3>4. CASE caller[c].given # Rep
      <4>1. PICK r \in Rep : r \notin caller[c].given
        BY <3>2, <3>4
      <4>2. rep'[r] # "PASSED"
        BY <1>0, <2>2, <3>1, <4>1
      <4>. QED BY <1>0, <1>1, <2>2, <3>1, <3>2, <4>1, <4>2 DEF Series
    <3>. QED BY <3>3, <3>4
  <2>3. CASE /\ caller[c].at = "validate"
             /\ validation' = IF validation = "RUNNING" THEN "FAILED" ELSE validation
             /\ rep' = [rep EXCEPT ![caller[c].number] = "FAILED"]
    BY <2>0, <2>3 DEF WorkingSeries, InSeries, Series
  <2>. QED BY <1>2, <1>4, <2>1, <2>2, <2>3, SeriesEffect
<1>5. CASE Outside
  BY <1>2, <1>3, <1>5 DEF Outside, stageVars, restoreVars, Operator, NewSeries, NewRemediation,
     PlanRemediation
<1>6. ASSUME NEW c \in Caller, Leaving(c)
      PROVE  Series'
  BY <1>2, <1>6, LeavingFrame DEF restoreVars
<1>7. CASE UNCHANGED restoreVars
  BY <1>2, <1>7 DEF restoreVars
<1>. QED BY <1>4, <1>5, <1>6, <1>7, Kinds

(* The probes of a ladder that amount to something keep doing so.          *)
LEMMA FinalizableStays ==
  ASSUME Types, Always, [Next]_stageVars, NEW l, Finalizable(l)
  PROVE  Finalizable(l)'
<1>1. Part(l) \subseteq Slot
  BY RunNumbers DEF Part
<1>2. \A s \in Slot : slot[s] \in Over => slot'[s] = slot[s]
  BY SlotStays DEF Always
<1>3. Part(l)' = Part(l)
  BY DEF Part, Second, Slot
<1>. QED BY <1>1, <1>2, <1>3 DEF Finalizable, Over

(* How the steps of a ladder change it and the target.                     *)
LEMMA LaddersRunStep ==
  ASSUME Types, Always, Serial, [Next]_stageVars, kind = "saturation",
         NEW c \in Caller, RunStep(c)
  PROVE  Ladders'
<1>. DEFINE work(l, f) == f[l] \in {"PREPARING", "READY", "RUNNING"}
<1>0. /\ ladder \in [1..2 -> LadderStatus] /\ ladder' \in [1..2 -> LadderStatus]
      /\ caller[c] \in LocalType
      /\ \A l, m \in 1..2 : Own(l) = Own(m) => l = m
      /\ \A l \in 1..2 : Own(l) # Default /\ Own(l) \notin TrialId
  BY LadderType, RunNumbers DEF Types, Rows, CallerOK, LadderStatus, Own
<1>1. \A l \in 1..2 : Finalizable(l) => Finalizable(l)'
  BY FinalizableStays
<1>2. /\ \A l \in 1..2 : target = Own(l) => work(l, ladder)
      /\ \A l, m \in 1..2 : work(l, ladder) /\ work(m, ladder) => l = m
      /\ \A l \in 1..2 : ladder[l] \in {"READY", "RUNNING"} /\ ~Finalizable(l) => target = Own(l)
  BY DEF Serial, Ladders, AtWork
<1>3. WorkingLadder(caller[c]) /\ LocalOK(caller[c])
  BY DEF Serial, Working, Types, CallerOK
<1>4. ASSUME /\ \A l \in 1..2 : target' = Own(l) => work(l, ladder')
             /\ \A l, m \in 1..2 : work(l, ladder') /\ work(m, ladder') => l = m
             /\ \A l \in 1..2 : ladder'[l] \in {"READY", "RUNNING"} /\ ~Finalizable(l)' => target' = Own(l)
      PROVE  Ladders'
  <2>1. \A l : Own(l)' = Own(l)
    BY DEF Own
  <2>. QED BY <1>4, <2>1 DEF Ladders, AtWork
<1>. HIDE DEF work
<1>5. CASE UNCHANGED <<ladder, target>>
  BY <1>1, <1>2, <1>4, <1>5
<1>6. CASE Works(c) /\ target' = Default /\ target = caller[c].trial
  <2>1. UNCHANGED ladder
    BY <1>6 DEF Works, ledgerVars
  <2>2. \A l \in 1..2 : target # Own(l) /\ target' # Own(l)
    BY <1>0, <1>6 DEF LocalType, Default
  <2>. QED BY <1>1, <1>2, <1>4, <2>1, <2>2
<1>7. CASE RollsBack(c)
  <2>1. UNCHANGED ladder /\ target' = Default /\ caller[c].at = "rollback"
    BY <1>7 DEF RollsBack
  <2>2. Finalizable(caller[c].number) /\ work(caller[c].number, ladder) /\ caller[c].number \in 1..2
    BY <1>3, <2>1 DEF WorkingLadder, AtWork, work
  <2>3. \A l \in 1..2 : ladder[l] \in {"READY", "RUNNING"} => l = caller[c].number
    BY <1>2, <2>2 DEF work
  <2>. QED BY <1>0, <1>1, <1>2, <1>4, <2>1, <2>2, <2>3
<1>8. CASE Applies(c)
  <2>1. UNCHANGED ladder /\ target' = Own(caller[c].number) /\ caller[c].at = "apply"
    BY <1>8 DEF Applies
  <2>2. ladder[caller[c].number] = "PREPARING" /\ caller[c].number \in 1..2
    BY <1>3, <2>1 DEF WorkingLadder, LocalOK, OnLadder
  <2>3. work(caller[c].number, ladder)
    BY <2>2 DEF work
  <2>4. \A l \in 1..2 : ladder[l] \notin {"READY", "RUNNING"}
    BY <1>2, <2>2, <2>3 DEF work
  <2>. QED BY <1>0, <1>2, <1>4, <2>1, <2>2, <2>3, <2>4
<1>9. CASE Prepares(c)
  <2>. DEFINE n == caller[c].number
  <2>1. /\ UNCHANGED target /\ caller[c].at = "prepare" /\ n \in 1..2
        /\ ladder' = [ladder EXCEPT ![n] = IF @ = "PLANNED" THEN "PREPARING" ELSE @]
    BY <1>3, <1>9 DEF Prepares, LocalOK, OnLadder
  <2>2. ladder[n] \in {"PLANNED", "PREPARING"} /\ \A l \in 1..2 : work(l, ladder) => l = n
    BY <1>3, <2>1 DEF WorkingLadder, AtWork, work
  <2>3. ladder'[n] = "PREPARING" /\ \A l \in 1..2 : l # n => ladder'[l] = ladder[l]
    BY <1>0, <2>1, <2>2
  <2>4. \A l \in 1..2 : work(l, ladder') <=> l = n
    BY <2>2, <2>3 DEF work
  <2>5. \A l \in 1..2 : ladder'[l] \notin {"READY", "RUNNING"}
    BY <2>3, <2>4 DEF work
  <2>. QED BY <1>2, <1>4, <2>1, <2>2, <2>4, <2>5
<1>10. CASE Readies(c)
  <2>. DEFINE n == caller[c].number
  <2>1. /\ UNCHANGED target /\ caller[c].at = "ready" /\ n \in 1..2
        /\ ladder' = [ladder EXCEPT ![n] = IF @ = "PREPARING" THEN "READY" ELSE @]
    BY <1>3, <1>10 DEF Readies, LocalOK, OnLadder
  <2>2. ladder[n] = "PREPARING" /\ target = Own(n)
    BY <1>3, <2>1 DEF WorkingLadder
  <2>3. ladder'[n] = "READY" /\ \A l \in 1..2 : l # n => ladder'[l] = ladder[l]
    BY <1>0, <2>1, <2>2
  <2>4. work(n, ladder) /\ \A l \in 1..2 : work(l, ladder') <=> work(l, ladder)
    BY <2>2, <2>3 DEF work
  <2>5. \A l \in 1..2 : ladder'[l] \in {"READY", "RUNNING"} => l = n
    BY <1>2, <2>1, <2>4 DEF work
  <2>. QED BY <1>2, <1>4, <2>1, <2>2, <2>4, <2>5
<1>11. CASE Finalizes(c) /\ ladder' = [ladder EXCEPT ![caller[c].number] = caller[c].block]
            /\ ladder[caller[c].number] = "RUNNING"
  <2>. DEFINE n == caller[c].number
  <2>1. /\ UNCHANGED target /\ caller[c].at = "finalize" /\ n \in 1..2
        /\ caller[c].block \in {"COMPLETED", "FAILED"}
    BY <1>3, <1>11 DEF Finalizes, LocalOK, OnLadder
  <2>2. target = Default
    BY <1>3, <2>1 DEF WorkingLadder
  <2>3. ladder'[n] \in {"COMPLETED", "FAILED"} /\ \A l \in 1..2 : l # n => ladder'[l] = ladder[l]
    BY <1>0, <1>11, <2>1
  <2>4. \A l \in 1..2 : work(l, ladder) => l = n
    BY <1>2, <1>11, <2>1 DEF work
  <2>5. \A l \in 1..2 : ~work(l, ladder')
    BY <2>3, <2>4 DEF work
  <2>. QED BY <1>0, <1>2, <1>4, <2>1, <2>2, <2>5 DEF work
<1>12. CASE CreateProbe(c) /\ slot[caller[c].slot] = "PLANNED"
  <2>1. PICK n \in 1..2 : n = PartOf(caller[c].slot)
    BY DEF PartOf
  <2>2. UNCHANGED target
    BY <1>12 DEF CreateProbe
  <2>3. ladder' = [ladder EXCEPT ![n] =
          IF caller[c].block = "READY" /\ @ = "READY" THEN "RUNNING" ELSE @]
    BY <1>12, <2>1 DEF CreateProbe
  <2>4. /\ \A l \in 1..2 : l # n => ladder'[l] = ladder[l]
        /\ ladder'[n] = ladder[n] \/ (ladder[n] = "READY" /\ ladder'[n] = "RUNNING")
    BY <1>0, <2>3
  <2>5. \A l \in 1..2 : /\ work(l, ladder') <=> work(l, ladder)
                        /\ ladder'[l] \in {"READY", "RUNNING"} <=> ladder[l] \in {"READY", "RUNNING"}
    BY <2>4 DEF work
  <2>. QED BY <1>1, <1>2, <1>4, <2>2, <2>5
<1>13. CASE UNCHANGED ladder
  BY <1>5, <1>6, <1>7, <1>8, <1>13, TargetEffect DEF TargetWrites
<1>. QED BY <1>9, <1>10, <1>11, <1>12, <1>13, LadderEffect DEF LadderWrites

(* The ladders, by who writes them.                                        *)
LEMMA LaddersStep ==
  ASSUME Types, Always, Serial, [Next]_stageVars
  PROVE  Ladders'
<1>0. kind' = kind
  BY RowsStep
<1>1. CASE kind # "saturation"
  BY <1>0, <1>1 DEF Ladders
<1>2. ASSUME kind = "saturation", UNCHANGED <<target, slot, ladder>>
      PROVE  Ladders'
  <2>1. \A l : Finalizable(l)' <=> Finalizable(l)
    BY <1>2 DEF Finalizable, Part, Second, Slot
  <2>. QED BY <1>2, <2>1 DEF Serial, Ladders, AtWork, Own
<1>3. ASSUME kind = "saturation", NEW c \in Caller, Leaving(c)
      PROVE  UNCHANGED <<target, slot, ladder>>
  <2>1. UNCHANGED target
    BY <1>3 DEF Leaving, Steer, Crash, Tunes
  <2>. QED BY <1>3, <2>1, LeavingFrame
<1>. QED BY <1>1, <1>2, <1>3, LaddersRunStep, Kinds, OutsideFrame, RestoreFrame
-----------------------------------------------------------------------------
(* Once it has looked, a command that finds no trial running finds no run  *)
(* in flight.                                                              *)
LEMMA ReconciledEmpty ==
  ASSUME Types, OneInFlight, NEW c \in Caller, caller[c].at \in {"reconcile", "settle"},
         ReconcileRun, ~Pending
  PROVE  InFlight' = {}
<1>0. slot \in [Slot -> SlotStatus] /\ Slot' = Slot
  BY DEF Types, Rows, Slot
<1>1. CASE UNCHANGED slot /\ Filed = "NONE"
  <2>1. InFlight # {} => Filed \in Ended
    BY DEF Pending, Filed, Settled
  <2>2. InFlight = {}
    BY <1>1, <2>1 DEF Ended
  <2>. QED BY <1>1, <2>2, <1>0 DEF InFlight
<1>2. ASSUME NEW s \in Slot, Files(c, s)
      PROVE  InFlight' = {}
  <2>1. \A r \in Slot : slot[r] = "CREATED" => r = s
    BY <1>2 DEF Files, OneInFlight, InFlight
  <2>2. \A r \in Slot : slot'[r] # "CREATED"
    BY <1>0, <1>2, <2>1 DEF Files
  <2>. QED BY <1>0, <2>2 DEF InFlight
<1>. QED BY <1>1, <1>2, ReconcileEffect

(* Most steps leave the runs alone.                                        *)
LEMMA RunsStay ==
  ASSUME Types, NEW c \in Caller, RunStep(c),
         caller[c].at \notin {"ledger", "reconcile", "settle", "attach", "probe", "analyze", "freeze"}
  PROVE  UNCHANGED slot /\ InFlight' = InFlight
<1>1. /\ ~Insert(c) /\ ~PlansSecond(c)
      /\ \A s \in Slot : ~Files(c, s) /\ ~Refers(c, s)
  BY DEF Insert, InsertRuns, PlansSecond, Decide, CommitVerdict, CommitFreeze, Files,
     Refers, Attach, CreateProbe
<1>2. UNCHANGED slot
  BY <1>1, SlotEffect DEF SlotWrites
<1>. QED BY <1>2 DEF InFlight, Slot

(* A command that chooses a run finds none in flight.                      *)
LEMMA ArrivesEmpty ==
  ASSUME Types, Always, Serial, NEW c \in Caller, RunStep(c), NEW m, Arrives(c, m),
         \/ m.at = "select" \/ (m.at \in {"start", "finalize?"} /\ ~m.open)
         \/ m.at \in OnRun
  PROVE  /\ InFlight' = {}
         /\ m.at \in OnRun => slot'[m.slot] = "PLANNED"
<1>0. WorkingRuns(caller[c]) /\ OneInFlight
  BY DEF Serial, Working
<1>1. CASE StageReconciles(c) /\ m.at \notin OnRun
  <2>1. caller[c].at = "reconcile" /\ ReconcileRun /\ ~Pending
    <3>1. caller[c].at = "reconcile" /\ ReconcileRun
      BY <1>1 DEF StageReconciles, ReconcileFirst
    <3>2. /\ ~StageStarts(c) /\ ~AsksToFinalize(c)
      BY <3>1 DEF StageStarts, StartBlock, AsksToFinalize
    <3>3. ~Pending
      BY <1>1, <3>2 DEF Arrives
    <3>. QED BY <3>1, <3>3
  <2>. QED BY <1>0, <1>1, <2>1, ReconciledEmpty
<1>2. CASE ProbeReconciles(c) /\ m.at = "select"
  <2>1. caller[c].at \in {"reconcile", "settle"} /\ ReconcileRun
    BY <1>2 DEF ProbeReconciles
  <2>2. ~Pending
    <3>1. ~StageStarts(c) /\ ~AsksToFinalize(c)
      BY <2>1 DEF StageStarts, StartBlock, AsksToFinalize
    <3>. QED BY <1>2, <3>1 DEF Arrives
  <2>. QED BY <1>0, <1>2, <2>1, <2>2, ReconciledEmpty DEF OnRun
<1>3. CASE LadderReconciles(c) /\ m.at = "finalize?"
  <2>1. caller[c].at \in {"reconcile", "settle"} /\ ReconcileRun
    BY <1>3 DEF LadderReconciles
  <2>2. ~Pending
    BY <1>3 DEF Arrives, OnRun
  <2>. QED BY <1>0, <1>3, <2>1, <2>2, ReconciledEmpty DEF OnRun
<1>4. CASE (StageStarts(c) \/ AsksToFinalize(c)) /\ ~caller[c].open /\ m.at = "select"
  <2>1. caller[c].at \in {"start", "finalize?"}
    BY <1>4 DEF StageStarts, StartBlock, AsksToFinalize
  <2>2. InFlight = {}
    BY <1>0, <1>4, <2>1 DEF WorkingRuns
  <2>. QED BY <1>4, <2>1, <2>2, RunsStay DEF OnRun
<1>5. CASE m.at \in {"trial", "drift?"}
  <2>1. caller[c].at = "select" /\ slot[m.slot] = "PLANNED"
    BY <1>5, Zenon DEF Arrives, LadderSelects
  <2>. QED BY <1>0, <2>1, RunsStay DEF WorkingRuns
<1>6. CASE m.at \in {"attach", "probe"}
  <2>1. caller[c].at \in {"trial", "drift?"} /\ m.slot = caller[c].slot
    BY <1>6 DEF Arrives, CreateRun, ChecksDrift
  <2>. QED BY <1>0, <2>1, RunsStay DEF WorkingRuns, OnRun
<1>7. m.at = "start" => StageReconciles(c)
  BY DEF Arrives
<1>8. m.at = "finalize?" => LadderReconciles(c)
  BY DEF Arrives
<1>9. m.at = "select" =>
        \/ StageReconciles(c) \/ ProbeReconciles(c)
        \/ (StageStarts(c) \/ AsksToFinalize(c)) /\ ~caller[c].open
  BY DEF Arrives
<1>10. CASE m.at = "select"
  BY <1>1, <1>2, <1>4, <1>9, <1>10 DEF OnRun
<1>11. CASE m.at = "start"
  BY <1>1, <1>7, <1>11 DEF OnRun
<1>12. CASE m.at = "finalize?"
  BY <1>3, <1>8, <1>12
<1>. QED BY <1>5, <1>6, <1>10, <1>11, <1>12 DEF OnRun

(* It knows the status of the block.                                       *)
LEMMA ArrivesBlock ==
  ASSUME Types, Always, Serial, NEW c \in Caller, NEW m, Arrives(c, m), Staged,
         m.at \in {"reconcile", "start", "select", "analyze"}
  PROVE  m.block = block'
<1>0. WorkingRuns(caller[c])
  BY DEF Serial, Working
<1>1. CASE StartRun(c) /\ m.block = block
  BY <1>1 DEF StartRun, RowsVars
<1>2. CASE Load(c) /\ m.block = block
  BY <1>2 DEF Load, LoadRuns
<1>3. CASE StageReconciles(c) /\ m.block = caller[c].block
  BY <1>0, <1>3 DEF StageReconciles, ReconcileFirst, WorkingRuns
<1>4. CASE StageStarts(c) /\ m.block = Starts[caller[c].block]
  BY <1>0, <1>4 DEF StageStarts, StartBlock, WorkingRuns
<1>5. ~ProbeReconciles(c) /\ ~AsksToFinalize(c)
  BY DEF Staged, ProbeReconciles, AsksToFinalize
<1>. QED BY <1>1, <1>2, <1>3, <1>4, <1>5 DEF Arrives

(* It fails a block that has not ended otherwise.                          *)
LEMMA ArrivesFailing ==
  ASSUME Types, Always, Serial, NEW c \in Caller, NEW m, Arrives(c, m), m.at = "fail"
  PROVE  block' \notin {"PASSED", "BLOCKED", Done2}
<1>1. (StageReconciles(c) \/ StageSettles(c)) /\ Filed \in Fatal
  BY DEF Arrives
<1>2. UNCHANGED block /\ Staged
  BY <1>1 DEF StageReconciles, ReconcileFirst, StageSettles, ReconcileLast
<1>3. Filed # "NONE"
  BY <1>1 DEF Fatal, Failures, Ended
<1>4. InFlight # {}
  BY <1>3 DEF Filed
<1>5. ~Settles
  BY <1>4 DEF Settles, InFlight, Over
<1>. QED BY <1>2, <1>5, StageNames DEF Serial, Parts

(* So it works on what is there ...                                        *)
LEMMA WorkingRunsStep ==
  ASSUME Types, Always, Serial, [Next]_stageVars, NEW c \in Caller, RunStep(c), NEW m, Arrives(c, m)
  PROVE  WorkingRuns(m)'
<1>0. Staged' <=> Staged
  BY RowsStep, SameNames
<1>1. /\ m.at = "select" \/ (m.at \in {"start", "finalize?"} /\ ~m.open) => InFlight' = {}
      /\ m.at \in OnRun => InFlight' = {} /\ slot'[m.slot] = "PLANNED"
  BY ArrivesEmpty
<1>2. Staged /\ m.at \in {"reconcile", "start", "select", "analyze"} => m.block = block'
  BY ArrivesBlock
<1>3. m.at = "fail" => block' \notin {"PASSED", "BLOCKED", Done2}
  BY ArrivesFailing
<1>4. Done2' = Done2 /\ OnRun' = OnRun
  BY RowsStep, SameNames DEF OnRun
<1>. QED BY <1>0, <1>1, <1>2, <1>3, <1>4 DEF WorkingRuns

(* ... on a ladder at work ...                                             *)
LEMMA WorkingLadderStep ==
  ASSUME Types, Always, Serial, [Next]_stageVars, NEW c \in Caller, NEW m, LocalOK(m), Arrives(c, m)
  PROVE  WorkingLadder(m)'
<1>0. /\ ladder \in [1..2 -> LadderStatus] /\ caller[c] \in LocalType
      /\ WorkingLadder(caller[c])
      /\ \A l : Own(l)' = Own(l)
  BY DEF Types, Rows, CallerOK, LadderStatus, Serial, Working, Own
<1>1. m.at \in OnLadder => m.number \in 1..2
  BY DEF LocalOK
<1>2. m.at = "prepare" => ladder'[m.number] \in {"PLANNED", "PREPARING"} /\ AtWork' \subseteq {m.number}
  <2>. SUFFICES ASSUME m.at = "prepare"
                PROVE  ladder'[m.number] \in {"PLANNED", "PREPARING"} /\ AtWork' \subseteq {m.number}
    OBVIOUS
  <2>1. /\ kind = "saturation" /\ UNCHANGED ladder
        /\ \/ ladder[m.number] = "PLANNED" /\ AtWork = {}
           \/ ladder[m.number] = "PREPARING"
    BY Zenon DEF Arrives, LadderSelects
  <2>2. AtWork' = AtWork
    BY <2>1 DEF AtWork
  <2>3. CASE ladder[m.number] = "PREPARING"
    <3>1. m.number \in AtWork
      BY <1>1, <2>3 DEF AtWork, OnLadder
    <3>2. \A l \in AtWork : l = m.number
      BY <2>1, <3>1 DEF Serial, Ladders
    <3>. QED BY <2>1, <2>2, <2>3, <3>2
  <2>. QED BY <2>1, <2>2, <2>3
<1>3. m.at = "apply" => ladder'[m.number] = "PREPARING"
  <2>1. m.at = "apply" => Prepares(c) /\ m.number = caller[c].number /\ caller[c].at = "prepare"
    BY DEF Arrives, Prepares
  <2>2. m.at = "apply" => ladder[m.number] \in {"PLANNED", "PREPARING"}
    BY <1>0, <2>1 DEF WorkingLadder
  <2>. QED BY <1>0, <1>1, <2>1, <2>2 DEF Prepares, OnLadder
<1>4. m.at = "ready" => ladder'[m.number] = "PREPARING" /\ target' = Own(m.number)
  <2>1. m.at = "ready" => Applies(c) /\ m.number = caller[c].number /\ caller[c].at = "apply"
    BY DEF Arrives, Applies
  <2>. QED BY <1>0, <2>1 DEF WorkingLadder, Applies
<1>5. m.at = "rollback" => Finalizable(m.number)' /\ m.number \in AtWork'
  <2>1. m.at = "rollback" => /\ UNCHANGED ladder /\ m.number \in AtWork /\ Finalizable(m.number)
    BY Zenon DEF Arrives, AsksToFinalize, LadderSelects
  <2>. QED BY <2>1, FinalizableStays DEF AtWork
<1>6. m.at = "finalize" => Finalizable(m.number)' /\ target' = Default
  <2>1. m.at = "finalize" => RollsBack(c) /\ m.number = caller[c].number /\ caller[c].at = "rollback"
    BY DEF Arrives, RollsBack
  <2>2. m.at = "finalize" => Finalizable(m.number)
    BY <1>0, <2>1 DEF WorkingLadder
  <2>. QED BY <2>1, <2>2, FinalizableStays DEF RollsBack
<1>7. Default' = Default
  BY DEF Default, NoTrial
<1>. QED BY <1>0, <1>2, <1>3, <1>4, <1>5, <1>6, <1>7 DEF WorkingLadder

(* ... and in a series that runs.                                          *)
LEMMA WorkingSeriesStep ==
  ASSUME Types, Always, Serial, [Next]_stageVars, NEW c \in Caller,
         \/ RunStep(c) /\ UNCHANGED restoreVars /\ Moves(c) /\ ~Analysis
         \/ RestoreStep(c) /\ Moves(c),
         NEW m, m = caller'[c]
  PROVE  WorkingSeries(m)'
<1>0. /\ Arrives(c, m) /\ rep \in [Rep -> RestoreStatus] /\ Rep' = Rep
      /\ WorkingSeries(caller[c])
  BY MovedCaller DEF Types, Rows, Rep, Serial, Working
<1>1. m.at = "claim" => validation' \in {"PLANNED", "RUNNING"}
  BY <1>0 DEF Arrives, BeginRepetition, restoreVars
<1>2. CASE RestoreStep(c)
  <2>1. CASE /\ UNCHANGED <<validation, rep>>
             /\ InSeries(m) =>
                  /\ caller[c].at = "validate" /\ m.number = caller[c].number
                  /\ m.given = {r \in Rep : rep[r] = "PASSED"} \cup {caller[c].number}
    BY <1>0, <1>1, <2>1 DEF WorkingSeries, InSeries
  <2>2. CASE /\ caller[c].at = "claim"
             /\ validation' = IF validation = "PLANNED" THEN "RUNNING" ELSE validation
    <3>1. validation' = "RUNNING"
      BY <1>0, <2>2 DEF WorkingSeries
    <3>2. m.at # "pass"
      BY <1>0, <2>2 DEF Arrives, CountPassed
    <3>. QED BY <1>0, <1>1, <3>1, <3>2 DEF WorkingSeries, InSeries
  <2>3. CASE m = Idle
    BY <2>3, IdleLocal DEF WorkingSeries, InSeries
  <2>. QED BY <1>2, <2>1, <2>2, <2>3, SeriesEffect
<1>3. CASE RunStep(c) /\ UNCHANGED restoreVars /\ Moves(c) /\ ~Analysis
  BY <1>1, <1>3, RunArrives DEF WorkingSeries, InSeries
<1>. QED BY <1>2, <1>3

(* A command may rely on all this wherever it is.                          *)
LEMMA IdleWorks ==
  ASSUME NEW m, m.at = "idle"
  PROVE  (WorkingRuns(m) /\ WorkingSeries(m) /\ WorkingLadder(m))'
BY DEF WorkingRuns, WorkingSeries, WorkingLadder, InSeries, OnRun

(* Who leaves these rows alone takes nothing from a command.               *)
LEMMA RowsAlone ==
  ASSUME UNCHANGED <<kind, block, target, slot, ladder, validation, rep>>,
         NEW m, WorkingRuns(m), WorkingSeries(m), WorkingLadder(m)
  PROVE  (WorkingRuns(m) /\ WorkingSeries(m) /\ WorkingLadder(m))'
<1>1. InFlight' = InFlight /\ AtWork' = AtWork
  BY DEF InFlight, Slot, AtWork
<1>2. \A l : Finalizable(l)' <=> Finalizable(l)
  BY DEF Finalizable, Part, Second, Slot
<1>3. WorkingRuns(m)'
  BY <1>1, SameNames DEF WorkingRuns, OnRun
<1>4. WorkingSeries(m)'
  BY DEF WorkingSeries, InSeries, Rep
<1>5. WorkingLadder(m)'
  BY <1>1, <1>2 DEF WorkingLadder, Own, Default, NoTrial
<1>. QED BY <1>3, <1>4, <1>5

(* What a command relies on is there until it uses it.                     *)
LEMMA WorkingStep ==
  ASSUME Types, Always, Serial, [Next]_stageVars, ~overlapped'
  PROVE  Working'
<1>. DEFINE W(m) == WorkingRuns(m) /\ WorkingSeries(m) /\ WorkingLadder(m)
<1>1. \A d \in Caller : W(caller[d])
  BY DEF Serial, Working
<1>2. ASSUME \A d \in Caller : \E m : m = caller'[d] /\ W(m)'
      PROVE  Working'
  BY <1>2 DEF Working
<1>3. ASSUME UNCHANGED <<kind, block, target, slot, ladder, validation, rep, caller>>
      PROVE  Working'
  <2>1. ASSUME NEW d \in Caller
        PROVE  \E m : m = caller'[d] /\ W(m)'
    <3>1. PICK m : m = caller[d]
      OBVIOUS
    <3>2. W(m)
      BY <1>1, <3>1
    <3>3. W(m)'
      BY <1>3, <3>2, RowsAlone
    <3>. QED BY <1>3, <3>1, <3>3
  <2>. HIDE DEF W
  <2>. QED BY <1>2, <2>1
<1>4. ASSUME NEW c \in Caller, Alone(c), NEW m, m = caller'[c], W(m)'
      PROVE  Working'
  <2>1. ASSUME NEW d \in Caller
        PROVE  \E n : n = caller'[d] /\ W(n)'
    <3>1. CASE d = c
      BY <1>4, <3>1
    <3>2. CASE d # c
      <4>1. PICK n : n = caller'[d]
        OBVIOUS
      <4>2. n.at = "idle"
        BY <1>4, <3>2, <4>1 DEF Alone
      <4>3. W(n)'
        BY <4>2, IdleWorks
      <4>. QED BY <4>1, <4>3
    <3>. QED BY <3>1, <3>2
  <2>. HIDE DEF W
  <2>. QED BY <1>2, <2>1
<1>5. CASE Outside
  <2>1. UNCHANGED <<kind, block, target, slot, ladder, caller>>
    BY <1>5, OutsideFrame
  <2>2. CASE NewSeries
    <3>1. ASSUME NEW d \in Caller
          PROVE  \E n : n = caller'[d] /\ W(n)'
      <4>1. PICK n : n = caller'[d]
        OBVIOUS
      <4>2. n.at = "idle"
        BY <2>1, <2>2, <4>1 DEF NewSeries, Idling, Quiet, Busy
      <4>3. W(n)'
        BY <4>2, IdleWorks
      <4>. QED BY <4>1, <4>3
    <3>. HIDE DEF W
    <3>. QED BY <1>2, <3>1
  <2>3. CASE ~NewSeries
    <3>1. UNCHANGED <<validation, rep>>
      BY <1>5, <2>3 DEF Outside, stageVars, restoreVars, Operator, NewRemediation, PlanRemediation
    <3>. QED BY <1>3, <2>1, <3>1
  <2>. QED BY <2>2, <2>3
<1>6. CASE Analysis /\ UNCHANGED restoreVars
  BY <1>3, <1>6, AnalysisFrame DEF restoreVars
<1>7. ASSUME NEW c \in Caller, Alone(c), Leaving(c)
      PROVE  Working'
  <2>1. PICK m : m = caller'[c]
    OBVIOUS
  <2>2. m.at = "idle"
    BY <1>7, <2>1, LeavingFrame, IdleLocal
  <2>3. W(m)'
    BY <2>2, IdleWorks
  <2>. HIDE DEF W
  <2>. QED BY <1>4, <1>7, <2>1, <2>3
<1>8. ASSUME NEW c \in Caller, Alone(c), RestoreStep(c), Moves(c)
      PROVE  Working'
  <2>1. PICK m : m = caller'[c]
    OBVIOUS
  <2>2. WorkingSeries(m)'
    BY <1>8, <2>1, WorkingSeriesStep
  <2>3. m.at \in RestoreAt \cup {"idle"}
    BY <1>8, <2>1, RestoreFrame
  <2>4. WorkingRuns(m)' /\ WorkingLadder(m)'
    BY <2>3 DEF WorkingRuns, WorkingLadder, RestoreAt, OnRun
  <2>5. W(m)'
    BY <2>2, <2>4
  <2>. HIDE DEF W
  <2>. QED BY <1>4, <1>8, <2>1, <2>5
<1>9. ASSUME NEW c \in Caller, Alone(c), RunStep(c), UNCHANGED restoreVars, Moves(c), ~Analysis
      PROVE  Working'
  <2>1. PICK m : m = caller'[c]
    OBVIOUS
  <2>2. LocalOK(m) /\ Arrives(c, m)
    BY <1>9, <2>1, MovedCaller
  <2>3. WorkingSeries(m)'
    BY <1>9, <2>1, WorkingSeriesStep
  <2>4. WorkingRuns(m)' /\ WorkingLadder(m)'
    BY <1>9, <2>2, WorkingRunsStep, WorkingLadderStep
  <2>5. W(m)'
    BY <2>3, <2>4
  <2>. HIDE DEF W
  <2>. QED BY <1>4, <1>9, <2>1, <2>5
<1>10. Solo
  BY DEF Serial
<1>. QED BY <1>5, <1>6, <1>7, <1>8, <1>9, <1>10, OneCommand
-----------------------------------------------------------------------------
(* A command about to fail a block does so, or dies.                       *)
LEMMA FailPosition ==
  ASSUME NEW c \in Caller, caller[c].at = "fail", RunStep(c)
  PROVE  StageFails(c) \/ Analysis
<1>1. /\ ~Create(c) /\ ~Insert(c) /\ ~StartRun(c) /\ ~Load(c) /\ ~Freeze(c)
  BY DEF Create, CreateCampaign, OpenCampaign, Quiet, Busy, Insert, InsertRuns, StartRun,
     Begin, Enter, Load, LoadRuns, Freeze
<1>2. /\ ~StageReconciles(c) /\ ~StageSettles(c) /\ ~StageStarts(c) /\ ~StageSelects(c)
      /\ ~CreateRun(c) /\ ~Attach(c) /\ ~Works(c) /\ ~Decide(c) /\ ~CommitFreeze(c)
  BY DEF StageReconciles, ReconcileFirst, StageSettles, ReconcileLast, StageStarts,
     StartBlock, StageSelects, ChooseRun, CompletePart, CreateRun, Attach, Works, RunOnce,
     Measured, AttemptFails, LeaseLost, Decide, CommitVerdict, CommitFreeze
<1>3. /\ ~ProbeReconciles(c) /\ ~ProbeSelects(c) /\ ~LadderReconciles(c)
      /\ ~AsksToFinalize(c) /\ ~RollsBack(c) /\ ~Finalizes(c) /\ ~LadderSelects(c)
      /\ ~Prepares(c) /\ ~Applies(c) /\ ~Readies(c) /\ ~ChecksDrift(c) /\ ~CreateProbe(c)
      /\ ~Probed(c)
  BY DEF ProbeReconciles, ProbeSelects, ChooseRun, LadderReconciles, AsksToFinalize,
     RollsBack, Finalizes, LadderSelects, Prepares, Applies, Readies, ChecksDrift,
     CreateProbe, Probed
<1>. QED BY <1>1, <1>2, <1>3 DEF RunStep, Analysis

(* A failure that ends the stage is followed up by whoever files it.       *)
LEMMA FilesFatal ==
  ASSUME Types, NEW c \in Caller, RunStep(c), NEW s \in Slot, Files(c, s), Staged,
         trial[RunTrial(s)].state \in Fatal
  PROVE  caller'[c].at = "fail"
<1>0. caller \in [Caller -> LocalType] /\ slot \in [Slot -> SlotStatus]
  BY DEF Types, Rows, CallerOK
<1>1. Filed \in Fatal /\ caller[c].at \in {"reconcile", "settle"} /\ UNCHANGED slot => FALSE
  BY <1>0 DEF Files, InFlight
<1>2. Filed \in Fatal /\ caller[c].at \in {"reconcile", "settle"} /\ slot' # slot
  BY <1>0, <1>1 DEF Files
<1>3. /\ ~Create(c) /\ ~Insert(c) /\ ~StartRun(c) /\ ~Load(c) /\ ~Freeze(c)
  BY <1>2 DEF Create, CreateCampaign, OpenCampaign, Quiet, Busy, Insert, InsertRuns, StartRun,
     Begin, Enter, Load, LoadRuns, Freeze
<1>4. /\ ~StageFails(c) /\ ~StageStarts(c) /\ ~StageSelects(c)
      /\ ~CreateRun(c) /\ ~Attach(c) /\ ~Works(c) /\ ~Decide(c) /\ ~CommitFreeze(c)
  BY <1>2 DEF StageFails, FailBlock, StageStarts,
     StartBlock, StageSelects, ChooseRun, CompletePart, CreateRun, Attach, Works, RunOnce,
     Measured, AttemptFails, LeaseLost, Decide, CommitVerdict, CommitFreeze
<1>5. /\ ~ProbeReconciles(c) /\ ~ProbeSelects(c) /\ ~LadderReconciles(c)
      /\ ~AsksToFinalize(c) /\ ~RollsBack(c) /\ ~Finalizes(c) /\ ~LadderSelects(c)
      /\ ~Prepares(c) /\ ~Applies(c) /\ ~Readies(c) /\ ~ChecksDrift(c) /\ ~CreateProbe(c)
      /\ ~Probed(c)
  BY Zenon DEF ProbeReconciles, ProbeSelects, LadderReconciles, AsksToFinalize,
     RollsBack, Finalizes, LadderSelects, Prepares, Applies, Readies, ChecksDrift,
     CreateProbe, Probed, Staged
<1>6. ~AnalyzeWarmup /\ ~AnalyzeDuration
  BY <1>2, AnalysisFrame DEF Analysis
<1>7. CASE StageSettles(c)
  <2>1. Proceed(c, "fail")
    BY <1>2, <1>7 DEF StageSettles, ReconcileLast
  <2>. QED BY <1>0, <2>1 DEF Proceed, LocalType
<1>8. CASE StageReconciles(c)
  <2>1. PICK m : m = [Idle EXCEPT !.at = "fail"]
    OBVIOUS
  <2>2. m.at = "fail"
    BY <2>1 DEF Idle
  <2>3. Filed \in Failures
    BY <1>2 DEF Fatal, Failures, Ended
  <2>4. caller' = [caller EXCEPT ![c] = m]
    BY <1>2, <1>8, <2>1, <2>3 DEF StageReconciles, ReconcileFirst
  <2>. QED BY <1>0, <2>2, <2>4
<1>. QED BY <1>3, <1>4, <1>5, <1>6, <1>7, <1>8 DEF RunStep

(* A block that has failed stays so.                                       *)
LEMMA FailedStays ==
  ASSUME Types, Always, Serial, [Next]_stageVars, Staged, block = "FAILED"
  PROVE  block' = "FAILED"
<1>1. block \notin {"NONE", Plan1, Run1, Done1, Plan2, Run2, Done2}
  BY StageNames
<1>2. ASSUME NEW c \in Caller
      PROVE  /\ ~Insert(c) /\ ~Completes(c) /\ ~Concludes(c)
             /\ PlansSecond(c) => UNCHANGED block
  <2>1. ~Insert(c)
    BY <1>1 DEF Insert, InsertRuns, Always, LedgerAlone
  <2>2. ~Completes(c)
    <3>1. caller[c].at = "select" => caller[c].block = block /\ caller[c].block \in {Run1, Run2}
      BY DEF Serial, Working, WorkingRuns, Always, Blocks
    <3>. QED BY <1>1, <3>1 DEF Completes
  <2>3. ~Decide(c)
    BY <1>1, DecidesSettled
  <2>4. CommitFreeze(c) => UNCHANGED block
    BY <1>1 DEF CommitFreeze
  <2>. QED BY <2>1, <2>2, <2>3, <2>4 DEF Concludes, PlansSecond
<1>3. block \in Final
  BY DEF Final
<1>. QED BY <1>1, <1>2, <1>3, StagedMovesBlock

(* A fatal failure keeps its consequences.                                 *)
LEMMA StopsStep ==
  ASSUME Types, Always, Serial, [Next]_stageVars, ~overlapped'
  PROVE  Stops'
<1>0. kind' = kind
  BY RowsStep
<1>a. (Staged' <=> Staged) /\ Fatal' = Fatal
  BY <1>0, SameNames DEF Fatal, Failures, Ended
<1>. SUFFICES ASSUME Staged, ~passedOver', NEW s \in Slot, slot'[s] = "FAILED",
                     trial'[RunTrial(s)].state \in Fatal
              PROVE  block' = "FAILED" \/ \E c \in Caller : caller'[c].at = "fail"
  BY <1>a DEF Stops, Slot, RunTrial
<1>1. ~passedOver
  BY PassedOverEffect, Zenon DEF Types, Rows
<1>2. RunTrial(s) \in TrialId
  BY RunNumbers
<1>3. CASE slot[s] = "FAILED"
  <2>1. trial[RunTrial(s)].state \in Failures
    BY <1>3 DEF Always, Trials, RunTrials
  <2>2. trial[RunTrial(s)].state \in Fatal
    BY <1>2, <2>1, TrialStays DEF Failures
  <2>3. block = "FAILED" \/ \E c \in Caller : caller[c].at = "fail"
    BY <1>1, <1>3, <2>2 DEF Serial, Stops
  <2>4. ASSUME NEW c \in Caller, caller[c].at = "fail", block # "FAILED"
        PROVE  block' = "FAILED" \/ \E d \in Caller : caller'[d].at = "fail"
    <3>1. CASE UNCHANGED caller
      BY <2>4, <3>1
    <3>2. ASSUME NEW d \in Caller, Alone(d)
          PROVE  d = c
      BY <2>4, <3>2 DEF Alone
    <3>3. CASE RunStep(c) /\ ~Analysis
      <4>1. StageFails(c)
        BY <2>4, <3>3, FailPosition
      <4>2. block \notin {"PASSED", "BLOCKED", Done2}
        BY <2>4 DEF Serial, Working, WorkingRuns
      <4>3. block \notin Final
        BY <2>4, <4>2 DEF Final, Done2
      <4>. QED BY <4>1, <4>3 DEF StageFails, FailBlock, Final
    <3>4. CASE RestoreStep(c)
      BY <2>4, <3>4, RestoreFrame DEF RestoreAt
    <3>5. CASE Leaving(c)
      <4>1. Crash(c)
        BY <2>4, <3>5 DEF Leaving, Steer
      <4>2. passedOver' = TRUE
        <5>1. passedOver' = (passedOver \/ caller[c].at = "fail")
          BY <2>4, <3>5, Zenon DEF Leaving, Steer
        <5>. QED BY <2>4, <5>1
      <4>. QED BY <4>2
    <3>6. Solo
      BY DEF Serial
    <3>. QED BY <3>1, <3>2, <3>3, <3>4, <3>5, <3>6, OneCommand, OutsideFrame, AnalysisFrame
  <2>. QED BY <2>3, <2>4, FailedStays
<1>4. CASE slot[s] # "FAILED"
  <2>1. PICK c \in Caller : RunStep(c) /\ Files(c, s)
    BY <1>4, SlotMoves DEF Always
  <2>2. trial[RunTrial(s)].state \in Fatal
    BY <1>2, <2>1, TrialStays DEF Files, Settled
  <2>3. caller'[c].at = "fail"
    BY <2>1, <2>2, FilesFatal
  <2>. QED BY <2>3
<1>. QED BY <1>3, <1>4

(* No command is at work initially.                                        *)
LEMMA SerialInit ==
  ASSUME Init
  PROVE  Serial
<1>1. /\ caller = [c \in Caller |-> Idle] /\ slot = [s \in Slot |-> "ABSENT"]
      /\ verdict = [p \in 1..2 |-> "NONE"] /\ ladder = [p \in 1..2 |-> "PLANNED"]
      /\ block = "NONE" /\ target = Default /\ validation = "NONE"
  BY DEF Init, InitCore, InitLedger, InitRestore
<1>2. \A c \in Caller : caller[c].at = "idle"
  BY <1>1, IdleLocal
<1>3. Solo
  BY <1>2 DEF Solo, Busy
<1>4. Working
  BY <1>2 DEF Working, WorkingRuns, WorkingSeries, WorkingLadder, InSeries, OnRun
<1>5. OneInFlight
  BY <1>1 DEF OneInFlight, InFlight
<1>6. Parts
  BY <1>1, StageNames DEF Parts
<1>7. Series
  BY <1>1 DEF Series
<1>8. Ladders
  BY <1>1, RunNumbers DEF Ladders, AtWork
<1>9. Stops
  BY <1>1 DEF Stops
<1>. QED BY <1>3, <1>4, <1>5, <1>6, <1>7, <1>8, <1>9 DEF Serial

(* Every step keeps it, as long as commands do not overlap.                *)
LEMMA SerialStep ==
  ASSUME Types, Always, SerialInv, [Next]_stageVars
  PROVE  SerialInv'
<1>. SUFFICES ASSUME ~overlapped'
              PROVE  Serial'
  BY DEF SerialInv
<1>1. ~overlapped
  BY OverlapEffect, Zenon DEF OverlapWrites, Types, Rows
<1>2. Serial
  BY <1>1 DEF SerialInv
<1>3. Solo' /\ Working' /\ OneInFlight' /\ Parts' /\ Series' /\ Ladders' /\ Stops'
  BY <1>2, SoloStep, WorkingStep, OneInFlightStep, PartsStep, SeriesStep, LaddersStep,
     StopsStep DEF Serial
<1>. QED BY <1>3 DEF Serial

(* The inductive invariant of the stages.                                  *)
LEMMA SerialHolds == Spec => [](Types /\ Always /\ SerialInv)
<1>1. Init => Types /\ Always /\ SerialInv
  BY TypesInit, AlwaysInit, SerialInit DEF SerialInv
<1>2. Types /\ Always /\ SerialInv /\ [Next]_stageVars => (Types /\ Always /\ SerialInv)'
  BY TypesStep, AlwaysStep, SerialStep
<1>. QED BY <1>1, <1>2, PTL DEF Spec
-----------------------------------------------------------------------------
(***************************************************************************)
(* The properties.                                                         *)
(***************************************************************************)

(* A stage is decided by the evidence it asks for, however many commands   *)
(* overlap and wherever they die: a series passes when every repetition    *)
(* has (restore_soak.py, screening_recovery.py), a recovery campaign has a *)
(* series that passed, the target database is only dropped and rebuilt     *)
(* after a series that failed and never beneath a recovery campaign, and   *)
(* the default reference and the warm-up pilot rest on completed runs      *)
(* alone.                                                                  *)
THEOREM VerdictsAreEarned == Spec => []VerdictIsEarned
<1>1. ASSUME Types, Always, SerialInv
      PROVE  VerdictIsEarned
  <2>1. validation = "PASSED" => \A r \in Rep : rep[r] = "PASSED"
    BY <1>1 DEF Always, Reps
  <2>2. /\ kind = "recovery" /\ campaign.status # "NONE" => validation = "PASSED"
        /\ kind = "recovery" /\ remediation \in {"PLANNED", "RUNNING"} =>
             validation = "FAILED" /\ campaign.status = "NONE"
    BY <1>1 DEF Always, Rebuilt
  <2>3. kind = "reference" /\ block \in {"PASSED", "BLOCKED"} => Reference!AllMeasured
    BY <1>1 DEF Always, RefOK, Reference!AllMeasured, Reference!Slot, Slot
  <2>4. /\ Warmup!AllMeasured(1) <=> \A s \in First : slot[s] = "COMPLETED"
        /\ Warmup!AllMeasured(2) <=> \A s \in Second : slot[s] = "COMPLETED"
    BY DEF Warmup!AllMeasured, Warmup!Part, Warmup!Second, Warmup!Slot, Second, Slot
  <2>5. kind = "warmup" /\ (\E s \in Second : slot[s] # "ABSENT") => Warmup!AllMeasured(1)
    BY <1>1, <2>4 DEF Always, WarmOK
  <2>6. kind = "warmup" /\ verdict[2] # "NONE" => Warmup!AllMeasured(2)
    BY <1>1, <2>4 DEF Always, WarmOK
  <2>7. ASSUME ~overlapped, NEW p \in 1..2, verdict[p] # "NONE"
        PROVE  \A s \in Part(p) : slot[s] \in Over
    <3>1. Staged
      BY <1>1, <2>7 DEF Always, Verdicts
    <3>2. CASE Analyzed
      BY <1>1, <2>7, <3>1, <3>2 DEF SerialInv, Serial, Parts
    <3>3. CASE kind = "warmup"
      BY <1>1, <2>7, <3>3 DEF Always, WarmOK, Part, Over
    <3>. QED BY <3>1, <3>2, <3>3, StageNames
  <2>. QED BY <2>1, <2>2, <2>3, <2>5, <2>6, <2>7 DEF VerdictIsEarned
<1>. QED BY <1>1, SerialHolds, PTL

(* A failure that ends a stage (an infrastructure failure of a screening,  *)
(* any failure of the default reference or the warm-up pilot) has failed   *)
(* its block or is about to, as _fail_infrastructure and its likes in      *)
(* campaigns/ are there to do.                                             *)
THEOREM FailuresStop == Spec => []FailureStops
<1>1. ASSUME Types, SerialInv
      PROVE  FailureStops
  <2>. DEFINE fatal == CASE kind \in {"screening", "recovery"} -> Screen!Fatal
                         [] kind \in {"reference", "warmup"} -> Failures
                         [] OTHER -> {}
  <2>1. CASE Staged
    <3>1. fatal = Fatal
      BY <2>1 DEF Staged, Fatal, Screen!Fatal
    <3>. HIDE DEF fatal
    <3>. SUFFICES ASSUME ~overlapped, ~passedOver,
                         \E s \in Slot : slot[s] = "FAILED" /\ trial[RunTrial(s)].state \in fatal
                  PROVE  block = "FAILED" \/ \E c \in Caller : caller[c].at = "fail"
      BY DEF FailureStops, fatal
    <3>. QED BY <1>1, <2>1, <3>1 DEF SerialInv, Serial, Stops
  <2>2. CASE ~Staged
    <3>1. fatal = {}
      BY <2>2 DEF Staged
    <3>. HIDE DEF fatal
    <3>. SUFFICES ~ \E s \in Slot : slot[s] = "FAILED" /\ trial[RunTrial(s)].state \in fatal
      BY DEF FailureStops, fatal
    <3>. QED BY <3>1
  <2>. QED BY <2>1, <2>2
<1>. QED BY <1>1, SerialHolds, PTL

(* The target server has the configuration of a ladder only while that     *)
(* ladder is at work, and has it whenever a probe may run, wherever        *)
(* run_saturation_next (campaigns/saturation.py) was cut off before.       *)
THEOREM TargetsFollowLadders == Spec => []TargetFollowsLadder
<1>1. ASSUME SerialInv
      PROVE  TargetFollowsLadder
  <2>. SUFFICES ASSUME kind = "saturation", ~overlapped, NEW l \in 1..2
                PROVE  /\ target = Own(l) => l \in AtWork
                       /\ ladder[l] \in {"READY", "RUNNING"} /\ ~Finalizable(l) => target = Own(l)
    BY CoarseNames DEF TargetFollowsLadder
  <2>. QED BY <1>1 DEF SerialInv, Serial, Ladders
<1>. QED BY <1>1, SerialHolds, PTL

(* A run in flight can be settled or its trial claimed, or the stage is    *)
(* stuck for one of the known reasons.                                     *)
LEMMA FlightGoesOn ==
  ASSUME Types, Always, Quiet, campaign.status = "RUNNING", InFlight # {}
  PROVE  \/ Settled(Min(InFlight)) \/ RunTrial(Min(InFlight)) \in Claimable
         \/ KnownStuck
<1>1. PICK s : s = Min(InFlight)
  OBVIOUS
<1>2. s \in Slot /\ s \in InFlight /\ slot[s] = "CREATED"
  BY <1>1, FirstInFlight DEF InFlight
<1>3. PICK t \in TrialId : t = RunTrial(s)
  BY <1>2, RunNumbers
<1>4. trial[t] \in TrialRow
  BY DEF Types, Rows, TrialRow
<1>5. trial[t].state # "NONE" /\ TrialOK(t)
  BY <1>2, <1>3 DEF Always, Trials, RunTrials
<1>6. trial[t].state # "RUNNING"
  BY <1>5 DEF TrialOK, Quiet, Busy
<1>7. campaign.emergency = FALSE
  BY DEF Always, EmergencyEnds, Types, Rows
<1>8. CASE trial[t].state \in Ended
  BY <1>1, <1>3, <1>8 DEF Settled
<1>9. CASE trial[t].state = "UNFILED"
  BY <1>2, <1>3, <1>9 DEF KnownStuck
<1>10. CASE trial[t].state \in {"QUEUED", "LAPSED"} /\ trial[t].tries < MaxTries[kind]
  BY <1>1, <1>3, <1>7, <1>10 DEF Claimable
<1>11. CASE trial[t].state \in {"QUEUED", "LAPSED"} /\ ~(trial[t].tries < MaxTries[kind])
  <2>1. trial[t].state = "LAPSED"
    BY <1>5, <1>11 DEF TrialOK
  <2>2. MaxTries[kind] \in Nat
    BY StageCoreAssumption DEF Types, Rows
  <2>3. trial[t].tries = MaxTries[kind]
    BY <1>4, <1>11, <2>2 DEF TrialRow
  <2>4. trial[t] = [state |-> "LAPSED", tries |-> MaxTries[kind]]
    BY <1>4, <2>1, <2>3 DEF TrialRow
  <2>. QED BY <1>2, <1>3, <2>4 DEF KnownStuck
<1>. QED BY <1>4, <1>5, <1>6, <1>8, <1>9, <1>10, <1>11 DEF TrialRow, TrialState, TrialOK

(* Whatever cut a command off, a stage on which nothing else works can go  *)
(* on, or is stuck for a known reason: run-next and the analyses of every  *)
(* stage (campaigns/*.py) find a next step.                                *)
THEOREM StagesCanGoOn == Spec => []StageCanGoOn
<1>1. ASSUME Types, Always, SerialInv, ~overlapped, Quiet
      PROVE  /\ campaign.status = "RUNNING" /\ block \notin Complete \cup Screen!Final =>
                  CanProceed \/ KnownStuck
             /\ block \in Complete =>
                  /\ \A s \in Slot : slot[s] \in Over \cup {"ABSENT"}
                  /\ kind \in {"reference", "warmup"} /\ ~passedOver =>
                       \A s \in Slot : slot[s] # "FAILED"
             /\ validation \in {"PLANNED", "RUNNING"} =>
                  (\E r \in Rep : rep[r] = "PLANNED") \/ KnownStuck
  <2>0. Serial /\ slot \in [Slot -> SlotStatus] /\ \A c \in Caller : caller[c].at = "idle"
    BY <1>1 DEF SerialInv, Types, Rows, Quiet, Busy
  <2>1. campaign.status = "RUNNING" => CanProceed \/ KnownStuck
    <3>1. CASE InFlight # {}
      BY <1>1, <3>1, FlightGoesOn DEF CanProceed
    <3>2. CASE InFlight = {}
      <4>1. \A s \in Slot : slot[s] # "CREATED"
        BY <3>2 DEF InFlight
      <4>2. Planned(Slot) = {} => \A s \in Slot : slot[s] # "PLANNED"
        BY DEF Planned
      <4>. QED BY <2>0, <3>2, <4>1, <4>2 DEF CanProceed, SlotStatus, Over
    <3>. QED BY <3>1, <3>2
  <2>2. ASSUME block \in Complete
        PROVE  Staged /\ block \notin {"NONE", "FAILED", Plan1, Run1, Plan2, Run2}
    <3>1. block \in StageBlock
      BY <1>1 DEF Always, Blocks
    <3>2. Staged
      BY <2>2, <3>1 DEF StageBlock, Complete
    <3>. QED BY <2>2, <3>2 DEF Complete, Staged, Plan1, Run1, Plan2, Run2
  <2>3. block \in Complete => Settles
    BY <2>0, <2>2 DEF Serial, Parts
  <2>4. ASSUME block \in Complete, kind \in {"reference", "warmup"}, ~passedOver, NEW s \in Slot
        PROVE  slot[s] # "FAILED"
    <3>1. slot[s] = "FAILED" => trial[RunTrial(s)].state \in Failures
      BY <1>1 DEF Always, Trials, RunTrials
    <3>2. Failures = Fatal
      BY <2>4 DEF Fatal
    <3>. QED BY <2>0, <2>2, <2>4, <3>1, <3>2 DEF Serial, Stops
  <2>5. validation \in {"PLANNED", "RUNNING"} =>
          (\E r \in Rep : rep[r] = "PLANNED") \/ KnownStuck
    <3>1. 1 \in Rep
      BY RepetitionsAssumption DEF Rep
    <3>. QED BY <2>0, <3>1 DEF Serial, Series, KnownStuck
  <2>. QED BY <2>1, <2>3, <2>4, <2>5 DEF Settles
<1>2. Types /\ Always /\ SerialInv => StageCanGoOn
  BY <1>1 DEF StageCanGoOn
<1>. QED BY <1>2, SerialHolds, PTL
=============================================================================
