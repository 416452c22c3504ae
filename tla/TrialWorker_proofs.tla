------------------------- MODULE TrialWorker_proofs -------------------------
(***************************************************************************)
(* Proofs about TrialWorker for every set of workers and trials, every mix *)
(* of workflow kinds, every max_attempts and every failure limit; at the   *)
(* end, what is promised of the target where one worker tries each trial   *)
(* once.                                                                   *)
(***************************************************************************)
EXTENDS TrialWorker, FiniteSetTheorems, TLAPS

-----------------------------------------------------------------------------
(* Facts about the lifecycle tables.                                       *)

(* The next state of the chain is a state that has a name in worker.py,    *)
(* and never the first.                                                    *)
LEMMA SuccessorType ==
  ASSUME NEW kind \in Kinds, NEW s, NEW feasible
  PROVE  Successor(kind, s, feasible) \in
           (ActiveStates \cup TerminalStates) \ {"CREATED"}
<1>1. HealthSuccessor(s) \in (ActiveStates \cup TerminalStates) \ {"CREATED"}
  BY DEF HealthSuccessor, ActiveStates, Stage, TerminalStates
<1>2. AfterObservation(kind, feasible) \in
        (ActiveStates \cup TerminalStates) \ {"CREATED"}
  BY DEF AfterObservation, ActiveStates, Stage, TerminalStates
<1>3. BenchmarkSuccessor(kind, s, feasible) \in
        (ActiveStates \cup TerminalStates) \ {"CREATED"}
  BY <1>2 DEF BenchmarkSuccessor, ActiveStates, Stage, TerminalStates
<1>. QED BY <1>1, <1>3 DEF Successor

(* Every failure is filed under a terminal state.                          *)
LEMMA FailureStateType ==
  ASSUME NEW s
  PROVE  FailureState(s) \in TerminalStates
BY DEF FailureState, TerminalStates

(* Stages are neither "CREATED" nor terminal.                              *)
LEMMA StageFacts ==
  ASSUME NEW kind \in Kinds
  PROVE  /\ StagesOf(kind) \subseteq Stage
         /\ "CREATED" \notin Stage
         /\ Absent \notin Stage
         /\ Stage \cap ClosingStates = {}
         /\ ReapplyStates \subseteq StagesOf(Tuned)
BY DEF StagesOf, Stage, Kinds, Health, Baseline, Tuned, Saturation, Absent,
       ClosingStates, ReapplyStates

(* The ranks of "CREATED" and of the stages.                               *)
LEMMA RankTable ==
  /\ Rank("CREATED") = 0
  /\ Rank("RESTORING_CANDIDATE_DATASET") = 1
  /\ Rank("VERIFYING_CANDIDATE_BASELINE") = 2
  /\ Rank("CAPTURING_WORKLOAD_CONTEXT") = 3
  /\ Rank("VALIDATING_ACTIONS") = 4
  /\ Rank("ESTIMATING_STATIC_RISK") = 5
  /\ Rank("APPLYING_KNOBS") = 6
  /\ Rank("RELOADING_OR_RESTARTING") = 7
  /\ Rank("VERIFYING_DATABASE_HEALTH") = 8
  /\ Rank("VERIFYING_ACTIVE_CONFIGURATION") = 9
  /\ Rank("WARMING_UP") = 10
  /\ Rank("RESETTING_OR_SNAPSHOTTING_COUNTERS") = 11
  /\ Rank("RUNNING_FULL_EVALUATION") = 12
  /\ Rank("COLLECTING_METRICS") = 13
  /\ Rank("VALIDATING_MEASUREMENT") = 14
  /\ Rank("CALCULATING_OBJECTIVES") = 15
  /\ Rank("CALCULATING_CONSTRAINTS") = 16
  /\ Rank("PERSISTING_OBSERVATION") = 17
  /\ Rank("SELECTING_NEXT_ACTION") = 18
BY DEF Rank, Absent

(* No two stages have the same rank.                                       *)
LEMMA RankOfStage ==
  ASSUME NEW a \in Stage, NEW b \in Stage
  PROVE  /\ Rank(a) \in 1 .. 18
         /\ Rank(a) = Rank(b) => a = b
BY DEF Rank, Stage, Absent

(* A benchmark's successor skips no stage of its kind.                     *)
LEMMA BenchmarkRank ==
  ASSUME NEW kind \in Kinds \ {Health},
         NEW s \in {"CREATED"} \cup StagesOf(kind),
         NEW feasible,
         NEW a \in StagesOf(kind),
         Rank(a) < Rank(BenchmarkSuccessor(kind, s, feasible))
  PROVE  Rank(a) <= Rank(s)
<1>a. Rank(a) \in 1 .. 18 /\ a \in Stage
  BY RankOfStage, StageFacts
<1>. USE DEF BenchmarkSuccessor, AfterObservation, Kinds, Health, Baseline, Tuned,
             Saturation, V2Benchmark, StagesOf, Stage
<1>1. CASE s = "CREATED"
  BY <1>1, <1>a, RankTable
<1>2. CASE s \in {"RESTORING_CANDIDATE_DATASET", "VERIFYING_CANDIDATE_BASELINE",
                 "CAPTURING_WORKLOAD_CONTEXT", "VALIDATING_ACTIONS"}
  BY <1>2, <1>a, RankTable
<1>3. CASE s = "ESTIMATING_STATIC_RISK"
  BY <1>3, <1>a, RankTable
<1>4. CASE s \in {"APPLYING_KNOBS", "RELOADING_OR_RESTARTING",
                 "VERIFYING_DATABASE_HEALTH"}
  BY <1>4, <1>a, RankTable
<1>5. CASE s \in {"VERIFYING_ACTIVE_CONFIGURATION", "WARMING_UP",
                 "RESETTING_OR_SNAPSHOTTING_COUNTERS", "RUNNING_FULL_EVALUATION"}
  BY <1>5, <1>a, RankTable
<1>6. CASE s \in {"COLLECTING_METRICS", "VALIDATING_MEASUREMENT",
                 "CALCULATING_OBJECTIVES", "CALCULATING_CONSTRAINTS"}
  BY <1>6, <1>a, RankTable
<1>7. CASE s = "PERSISTING_OBSERVATION"
  BY <1>7, <1>a, RankTable
<1>8. CASE s = "SELECTING_NEXT_ACTION"
  BY <1>8, <1>a, RankTable
<1>. QED BY <1>1, <1>2, <1>3, <1>4, <1>5, <1>6, <1>7, <1>8

(* The stages behind the successor of s are those behind s, and s itself.  *)
LEMMA BehindSuccessor ==
  ASSUME NEW kind \in Kinds, NEW s \in {"CREATED"} \cup StagesOf(kind),
         NEW feasible,
         NEW a \in Behind(kind, Successor(kind, s, feasible))
  PROVE  a \in Behind(kind, s) \/ a = s
<1>a. a \in StagesOf(kind) /\ a \in Stage
  BY StageFacts DEF Behind
<1>1. CASE kind = Health
  <2>1. a \in {"VERIFYING_DATABASE_HEALTH", "PERSISTING_OBSERVATION"}
    BY <1>a, <1>1 DEF StagesOf, Health, Baseline, Tuned, Saturation
  <2>2. s \in {"CREATED", "VERIFYING_DATABASE_HEALTH", "PERSISTING_OBSERVATION"}
    BY <1>1 DEF StagesOf, Health, Baseline, Tuned, Saturation
  <2>3. Rank(a) < Rank(HealthSuccessor(s))
    BY <1>1 DEF Behind, Successor
  <2>4. /\ s = "CREATED" =>
             HealthSuccessor(s) = "VERIFYING_DATABASE_HEALTH"
        /\ s = "VERIFYING_DATABASE_HEALTH" =>
             HealthSuccessor(s) = "PERSISTING_OBSERVATION"
    BY DEF HealthSuccessor
  <2>. QED BY <1>a, <2>1, <2>2, <2>3, <2>4, RankTable DEF Behind
<1>2. CASE kind # Health
  <2>1. Rank(a) <= Rank(s)
    BY <1>a, <1>2, BenchmarkRank DEF Behind, Successor
  <2>2. Rank("CREATED") = 0 /\ Rank(a) \in 1 .. 18
    BY <1>a, RankTable, RankOfStage
  <2>3. s \in Stage
    BY <2>1, <2>2, StageFacts
  <2>4. Rank(s) \in 1 .. 18 /\ (Rank(a) = Rank(s) => a = s)
    BY <1>a, <2>3, RankOfStage
  <2>. QED BY <1>a, <2>1, <2>2, <2>4 DEF Behind
<1>. QED BY <1>1, <1>2

(* Nothing is behind a trial that has just been created.                   *)
LEMMA BehindCreated ==
  ASSUME NEW kind \in Kinds
  PROVE  Behind(kind, "CREATED") = {}
BY DEF Behind, Rank, Absent

(* What the position of a worker says about the state it has just seen.    *)
LEMMA EntryPointFacts ==
  ASSUME NEW t \in Trial, NEW s
  PROVE  /\ EntryPoint(t, s) \in {"advance", "start", "finish", "idle"}
         /\ EntryPoint(t, s) = "advance" => s = "CREATED"
         /\ EntryPoint(t, s) = "start"   => s \in StagesOf(Kind[t])
         /\ EntryPoint(t, s) = "finish"  => s \in ClosingStates
         /\ s \in StagesOf(Kind[t]) => EntryPoint(t, s) = "start"
<1>1. Kind[t] \in Kinds  BY KindAssumption
<1>2. "CREATED" \notin StagesOf(Kind[t]) /\ "CREATED" \notin ClosingStates
  BY <1>1, StageFacts DEF ClosingStates
<1>3. s \in StagesOf(Kind[t]) => s \notin ClosingStates
  BY <1>1, StageFacts
<1>. QED BY <1>2, <1>3 DEF EntryPoint
-----------------------------------------------------------------------------
(* The inductive invariant holds initially.                                *)
THEOREM InitIInv == Init => IInv
<1>. SUFFICES ASSUME Init PROVE IInv
  OBVIOUS
<1>1. TypeOK
  BY NoneAssumption DEF Init, TypeOK, CampaignStatus, TrialState, NoLease, NoEntry,
     LedgerEntry, NoMarker, Configuration, Default, Idle, LocalState, Position
<1>2. WorkerInv
  BY DEF Init, WorkerInv, WorkerOK, Idle
<1>3. LeaseInv
  BY AttemptsAssumption DEF Init, LeaseInv, LeaseOK
<1>4. LedgerBehindState
  BY DEF Init, LedgerBehindState
<1>. QED BY <1>1, <1>2, <1>3, <1>4 DEF IInv

(* What the position of a worker guarantees, spelled out for one worker.   *)
LEMMA Busy ==
  ASSUME TypeOK, WorkerInv, NEW w \in Worker, worker[w].pc # "idle"
  PROVE  /\ worker[w].trial \in Trial
         /\ worker[w] \in LocalState
         /\ worker[w].token \in 1 .. attempts[worker[w].trial]
         /\ Kind[worker[w].trial] \in Kinds
BY KindAssumption DEF TypeOK, WorkerInv, WorkerOK

(* Moving a worker to another position keeps its type.                     *)
LEMMA GotoType ==
  ASSUME TypeOK, NEW w \in Worker, NEW pc \in Position, Goto(w, pc)
  PROVE  worker' \in [Worker -> LocalState]
<1>1. worker \in [Worker -> LocalState]
  BY DEF TypeOK
<1>2. [worker[w] EXCEPT !.pc = pc] \in LocalState
  BY <1>1 DEF LocalState
<1>. QED BY <1>1, <1>2 DEF Goto

(* A worker without a trial.                                               *)
LEMMA IdleType == Idle \in LocalState
BY DEF Idle, LocalState, Position, TrialState

(* So does replacing all it remembers.                                     *)
LEMMA BecomeType ==
  ASSUME TypeOK, NEW w \in Worker, NEW local \in LocalState, Become(w, local)
  PROVE  worker' \in [Worker -> LocalState]
BY IdleType DEF TypeOK, Become

(* What the operations on the target leave behind.                         *)
ApplicationType ==
  /\ active \in Configuration
  /\ saved \in [Trial -> Configuration]
  /\ applied \in [Trial -> {"ABSENT", "VERIFIED", "FAILED", "ROLLED_BACK"}]

MarkerType ==
  marker \in [Trial -> [settings : Configuration, feasible : BOOLEAN,
                       taken : BOOLEAN]]

LeaseType ==
  lease \in [Trial -> [owner : Worker \cup {None}, token : Nat]]

LedgerType == ledger \in [Trial -> [Stage -> LedgerEntry]]

(* What discovering the target's settings can return.                      *)
LEMMA SnapshotType ==
  ASSUME ApplicationType, NEW t \in Trial, Snapshot(t)
  PROVE  saved' \in [Trial -> Configuration]
BY DEF ApplicationType, Snapshot

(* What an apply that returned leaves behind.                              *)
LEMMA ApplyType ==
  ASSUME ApplicationType, NEW t \in Trial, Apply(t)
  PROVE  ApplicationType'
BY SnapshotType DEF ApplicationType, Apply, Configuration

(* What an apply that raised leaves behind.                                *)
LEMMA ApplyRaisesType ==
  ASSUME ApplicationType, NEW t \in Trial, ApplyRaises(t)
  PROVE  ApplicationType'
<1>. USE DEF ApplicationType, ApplyRaises, Configuration
<1>1. CASE UNCHANGED <<saved, active, applied>>
  BY <1>1
<1>2. CASE /\ Snapshot(t)
           /\ applied' = [applied EXCEPT ![t] = "FAILED"]
           /\ active' \in {active, t}
  BY <1>2, SnapshotType
<1>3. CASE /\ Snapshot(t)
           /\ applied' = [applied EXCEPT ![t] = "ROLLED_BACK"]
           /\ active' = saved'[t]
  BY <1>3, SnapshotType
<1>. QED BY <1>1, <1>2, <1>3

(* What a rollback leaves behind.                                          *)
LEMMA RollbackType ==
  ASSUME ApplicationType, NEW t \in Trial, Rollback(t)
  PROVE  ApplicationType'
<1>1. applied' = [applied EXCEPT ![t] = "ROLLED_BACK"] \/ applied' = applied
  BY DEF Rollback
<1>2. active' \in {saved[t], active} /\ saved' = saved
  BY DEF Rollback
<1>. QED BY <1>1, <1>2 DEF ApplicationType

(* The configurations the target can have.                                 *)
LEMMA ConfigurationType ==
  ASSUME ApplicationType, NEW t \in Trial, NEW s, ConfigurationEffect(t, s)
  PROVE  ApplicationType'
BY ApplyType, RollbackType DEF ApplicationType, ConfigurationEffect

(* What a measurement files.                                               *)
LEMMA MeasureType ==
  ASSUME MarkerType, active \in Configuration, NEW t \in Trial, NEW s,
         MeasureEffect(t, s)
  PROVE  MarkerType'
<1>1. CASE UNCHANGED marker
  BY <1>1 DEF MarkerType
<1>2. ASSUME NEW feasible \in BOOLEAN,
             marker' = [marker EXCEPT ![t] =
               [settings |-> active, feasible |-> feasible, taken |-> TRUE]]
      PROVE  MarkerType'
  BY <1>2 DEF MarkerType
<1>. QED BY <1>1, <1>2 DEF MeasureEffect

(* A trial's lease is taken away.                                          *)
LEMMA NoLeaseType ==
  ASSUME LeaseType, NEW t \in Trial, lease' = [lease EXCEPT ![t] = NoLease]
  PROVE  LeaseType'
<1>1. NoLease \in [owner : Worker \cup {None}, token : Nat]
  BY DEF NoLease
<1>. QED BY <1>1 DEF LeaseType

(* An entry of the ledger is replaced.                                     *)
LEMMA EntryType ==
  ASSUME LedgerType, NEW t \in Trial, NEW s \in Stage, NEW e \in LedgerEntry,
         ledger' = [ledger EXCEPT ![t][s] = e]
  PROVE  LedgerType'
BY DEF LedgerType

(* Every step leaves every variable in its type.                           *)
LEMMA TypeStep ==
  ASSUME TypeOK, WorkerInv, [Next]_vars
  PROVE  TypeOK'
<1>. USE DEF controlVars, trialVars, targetVars
<1>1. CASE UNCHANGED vars
  BY <1>1 DEF vars, TypeOK
<1>2. CASE Operator
  <2>1. CASE Pause \/ Resume \/ Stop
    BY <2>1 DEF Pause, Resume, Stop, Control, TypeOK, CampaignStatus
  <2>2. CASE EmergencyStop
    BY <2>2 DEF EmergencyStop, OpenTrials, TypeOK, CampaignStatus, TrialState,
       TerminalStates, NoLease
  <2>3. ASSUME NEW t \in Trial, AdmitTrial(t) PROVE TypeOK'
    BY <2>3 DEF AdmitTrial, TypeOK
  <2>4. ASSUME NEW t \in Trial, InsertTrial(t) PROVE TypeOK'
    BY <2>4 DEF InsertTrial, TypeOK, TrialState, ActiveStates
  <2>. QED BY <1>2, <2>1, <2>2, <2>3, <2>4 DEF Operator
<1>3. CASE Clock
  BY <1>3 DEF Clock, LeaseExpires, BackoffEnds, TypeOK
<1>4. ASSUME NEW w \in Worker, NEW t \in Trial, Claim(w, t) PROVE TypeOK'
  <2>. DEFINE n == attempts[t] + 1
              local == [pc |-> IF NeedsReapply(t, state[t], n) THEN "rebeat"
                                 ELSE EntryPoint(t, state[t]),
                        trial |-> t, token |-> n, state |-> state[t],
                        verdict |-> Absent]
  <2>1. n \in Nat
    BY DEF TypeOK
  <2>2. local \in LocalState
    BY <2>1, EntryPointFacts DEF TypeOK, LocalState, Position
  <2>3. worker' \in [Worker -> LocalState]
    BY <1>4, <2>2, BecomeType DEF Claim
  <2>4. lease' \in [Trial -> [owner : Worker \cup {None}, token : Nat]]
    BY <1>4, <2>1 DEF Claim, TypeOK
  <2>. QED BY <1>4, <2>1, <2>3, <2>4 DEF Claim, TypeOK
<1>5. ASSUME NEW w \in Worker, Step(w) PROVE TypeOK'
  <2>a. worker[w].pc # "idle"
    BY <1>5 DEF Step, StartAction, Beat, Operate, OperateRaises, Reapply,
       RecordAction, Advance, FinishTrial, StepRaises, HandleError, FailTrial
  <2>b. /\ worker[w].trial \in Trial
        /\ worker[w] \in LocalState
        /\ worker[w].token \in Nat
        /\ worker[w].state \in TrialState
        /\ Kind[worker[w].trial] \in Kinds
    BY <2>a, Busy DEF TypeOK, LocalState
  <2>c. ApplicationType /\ MarkerType /\ LeaseType /\ LedgerType
    BY DEF TypeOK, ApplicationType, MarkerType, LeaseType, LedgerType
  <2>. DEFINE t == worker[w].trial
              s == worker[w].state
  <2>1. CASE StartAction(w)
    <3>1. worker' \in [Worker -> LocalState]
      BY <2>1, GotoType DEF StartAction, Position
    <3>2. s \in Stage
      BY <2>1, <2>a, <2>b, StageFacts DEF StartAction, WorkerInv, WorkerOK
    <3>3. [status |-> "STARTED", token |-> worker[w].token] \in LedgerEntry
      BY <2>b DEF LedgerEntry
    <3>4. LedgerType'
      BY <2>1, <2>b, <2>c, <3>2, <3>3, EntryType DEF StartAction, LedgerType
    <3>. QED BY <2>1, <3>1, <3>4 DEF StartAction, TypeOK, LedgerType
  <2>2. CASE Beat(w)
    <3>1. worker' \in [Worker -> LocalState]
      BY <2>2, GotoType DEF Beat, Position
    <3>. QED BY <2>2, <3>1 DEF Beat, TypeOK
  <2>3. CASE Operate(w)
    <3>1. worker' \in [Worker -> LocalState]
      BY <2>3, GotoType DEF Operate, Position
    <3>2. (restored \subseteq Trial)'
      BY <2>3, <2>b DEF Operate, RestoreEffect, TypeOK
    <3>3. MeasureEffect(t, s) /\ ConfigurationEffect(t, s)
      BY <2>3 DEF Operate
    <3>4. ApplicationType' /\ MarkerType'
      BY <2>b, <2>c, <3>3, MeasureType, ConfigurationType DEF ApplicationType
    <3>. QED BY <2>3, <3>1, <3>2, <3>4
             DEF Operate, TypeOK, ApplicationType, MarkerType
  <2>4. CASE OperateRaises(w)
    <3>1. worker' \in [Worker -> LocalState]
      BY <2>4, GotoType DEF OperateRaises, Position
    <3>2. CASE UNCHANGED targetVars
      BY <2>4, <3>1, <3>2 DEF OperateRaises, TypeOK
    <3>3. CASE ApplyRaises(t) /\ UNCHANGED <<restored, marker>>
      <4>1. ApplicationType'
        BY <2>b, <2>c, <3>3, ApplyRaisesType
      <4>. QED BY <2>4, <3>1, <3>3, <4>1 DEF OperateRaises, TypeOK, ApplicationType
    <3>4. CASE /\ RestoreEffect(t, s)
               /\ MeasureEffect(t, s)
               /\ ConfigurationEffect(t, s)
      <4>1. (restored \subseteq Trial)'
        BY <2>b, <3>4 DEF RestoreEffect, TypeOK
      <4>2. ApplicationType' /\ MarkerType'
        BY <2>b, <2>c, <3>4, MeasureType, ConfigurationType DEF ApplicationType
      <4>. QED BY <2>4, <3>1, <4>1, <4>2
               DEF OperateRaises, TypeOK, ApplicationType, MarkerType
    <3>. QED BY <2>4, <3>2, <3>3, <3>4 DEF OperateRaises
  <2>5. CASE Reapply(w)
    <3>1. EntryPoint(t, s) \in Position
      BY <2>b, EntryPointFacts DEF Position
    <3>2. worker' \in [Worker -> LocalState]
      BY <2>5, <3>1, GotoType DEF Reapply, Position
    <3>3. ApplicationType'
      BY <2>5, <2>b, <2>c, ApplyType, ApplyRaisesType DEF Reapply
    <3>. QED BY <2>5, <3>2, <3>3 DEF Reapply, TypeOK, ApplicationType
  <2>6. CASE RecordAction(w)
    <3>1. worker' \in [Worker -> LocalState]
      BY <2>6, GotoType DEF RecordAction, Position
    <3>2. s \in Stage
      BY <2>6, <2>a, <2>b, StageFacts DEF RecordAction, WorkerInv, WorkerOK
    <3>3. [ledger[t][s] EXCEPT !.status = "COMPLETED"] \in LedgerEntry
      BY <2>b, <2>c, <3>2 DEF LedgerType, LedgerEntry
    <3>4. LedgerType'
      BY <2>6, <2>b, <2>c, <3>2, <3>3, EntryType DEF RecordAction, LedgerType
    <3>. QED BY <2>6, <3>1, <3>4 DEF RecordAction, TypeOK, LedgerType
  <2>7. CASE Advance(w)
    <3>. DEFINE n == Successor(Kind[t], s, Feasible(t))
                pc == IF n = "COMPLETED" THEN "finish" ELSE EntryPoint(t, n)
    <3>1. n \in TrialState
      BY <2>b, SuccessorType DEF TrialState
    <3>2. pc \in Position
      BY <2>b, EntryPointFacts DEF Position
    <3>3. [worker[w] EXCEPT !.state = n, !.pc = pc] \in LocalState
      BY <2>b, <3>1, <3>2 DEF LocalState
    <3>4. \/ /\ state' = [state EXCEPT ![t] = n]
             /\ Become(w, [worker[w] EXCEPT !.state = n, !.pc = pc])
          \/ Goto(w, "handle") /\ UNCHANGED state
      BY <2>7 DEF Advance
    <3>5. worker' \in [Worker -> LocalState]
      BY <3>3, <3>4, BecomeType, GotoType DEF Position
    <3>6. state' \in [Trial -> TrialState]
      BY <3>1, <3>4 DEF TypeOK
    <3>. QED BY <2>7, <3>5, <3>6 DEF Advance, TypeOK
  <2>8. CASE FinishTrial(w)
    <3>1. worker' \in [Worker -> LocalState]
      BY <2>8, GotoType, IdleType DEF FinishTrial, Position, TypeOK
    <3>2. LeaseType'
      BY <2>8, <2>b, <2>c, NoLeaseType DEF FinishTrial, LeaseType
    <3>. QED BY <2>8, <2>b, <3>1, <3>2 DEF FinishTrial, TypeOK, LeaseType
  <2>9. CASE StepRaises(w)
    <3>1. worker' \in [Worker -> LocalState]
      BY <2>9, GotoType DEF StepRaises, Position
    <3>. QED BY <2>9, <3>1 DEF StepRaises, TypeOK
  <2>10. CASE HandleError(w)
    <3>1. PICK v \in {"DATABASE_UNHEALTHY", FailureState(state[t]),
                      "RESOURCE_LIMIT_EXCEEDED"} :
                 worker' = [worker EXCEPT ![w].pc = "fail", ![w].verdict = v]
      BY <2>10 DEF HandleError
    <3>2. v \in TerminalStates
      BY <3>1, FailureStateType DEF TerminalStates
    <3>3. [worker[w] EXCEPT !.pc = "fail", !.verdict = v] \in LocalState
      BY <2>b, <3>2 DEF LocalState, Position
    <3>4. worker' \in [Worker -> LocalState]
      BY <3>1, <3>3 DEF TypeOK
    <3>5. ApplicationType'
      BY <2>10, <2>b, <2>c, RollbackType DEF HandleError, ApplicationType
    <3>. QED BY <2>10, <3>4, <3>5 DEF HandleError, TypeOK, ApplicationType
  <2>11. CASE FailTrial(w)
    <3>1. worker' \in [Worker -> LocalState]
      BY <2>11, IdleType DEF FailTrial, TypeOK
    <3>2. LeaseType'
      BY <2>11, <2>b, <2>c, NoLeaseType DEF FailTrial, LeaseType
    <3>3. worker[w].verdict \in TerminalStates
      BY <2>11, <2>a DEF FailTrial, WorkerInv, WorkerOK
    <3>4. campaign' \in [status : CampaignStatus, emergency : BOOLEAN,
                         failures : Nat]
      <4>1. /\ campaign.failures + 1 \in Nat
            /\ campaign \in [status : CampaignStatus, emergency : BOOLEAN,
                             failures : Nat]
        BY DEF TypeOK
      <4>2. \A status \in CampaignStatus, n \in Nat :
              [campaign EXCEPT !.failures = n, !.status = status] \in
                [status : CampaignStatus, emergency : BOOLEAN, failures : Nat]
        BY <4>1
      <4>3. (IF campaign.failures + 1 >= FailureLimit
               THEN "FAILED" ELSE campaign.status) \in CampaignStatus
        BY <4>1 DEF CampaignStatus
      <4>. QED BY <2>11, <4>1, <4>2, <4>3 DEF FailTrial
    <3>5. /\ state' \in [Trial -> TrialState]
          /\ failure' \in [Trial -> TerminalStates \cup {None}]
      BY <2>11, <3>3 DEF FailTrial, TypeOK, TrialState
    <3>. QED BY <2>11, <2>b, <3>1, <3>2, <3>4, <3>5 DEF FailTrial, TypeOK, LeaseType
  <2>. QED BY <1>5, <2>1, <2>2, <2>3, <2>4, <2>5, <2>6, <2>7, <2>8, <2>9, <2>10,
           <2>11 DEF Step
<1>6. ASSUME NEW w \in Worker, Crash(w) PROVE TypeOK'
  BY <1>6, IdleType DEF Crash, TypeOK
<1>. QED BY <1>1, <1>2, <1>3, <1>4, <1>5, <1>6 DEF Next

-----------------------------------------------------------------------------
(* What a step can do to what the others rely on.                          *)

(* An entry other than the one replaced stays.                             *)
LEMMA EntryElsewhere ==
  ASSUME LedgerType, NEW t \in Trial, NEW s \in Stage, NEW u, NEW r, NEW e,
         ledger' = [ledger EXCEPT ![u][r] = e],
         u # t \/ r # s
  PROVE  ledger'[t][s] = ledger[t][s]
BY DEF LedgerType

(* Only two actions write the ledger: _record_action_start replaces an     *)
(* entry that is not COMPLETED, _record_action_complete completes one.     *)
LEMMA LedgerWrites ==
  ASSUME TypeOK, WorkerInv, [Next]_vars
  PROVE  \/ UNCHANGED ledger
         \/ \E w \in Worker : StartAction(w) /\ ~AlreadyDone(w)
         \/ \E w \in Worker : RecordAction(w)
<1>1. CASE UNCHANGED vars
  BY <1>1 DEF vars
<1>2. CASE Operator
  BY <1>2 DEF Operator, Pause, Resume, Stop, Control, EmergencyStop, AdmitTrial,
     InsertTrial
<1>3. CASE Clock
  BY <1>3 DEF Clock, LeaseExpires, BackoffEnds
<1>4. ASSUME NEW w \in Worker, (\E t \in Trial : Claim(w, t)) \/ Crash(w)
      PROVE  UNCHANGED ledger
  BY <1>4 DEF Claim, Crash
<1>5. ASSUME NEW w \in Worker, Step(w)
      PROVE  \/ UNCHANGED ledger
             \/ StartAction(w) /\ ~AlreadyDone(w)
             \/ RecordAction(w)
  <2>1. CASE StartAction(w)
    BY <2>1 DEF StartAction
  <2>2. CASE Operate(w) \/ OperateRaises(w) \/ Reapply(w)
    BY <2>2 DEF Operate, OperateRaises, Reapply
  <2>. QED BY <1>5, <2>1, <2>2 DEF Step, Beat, Advance, FinishTrial, StepRaises,
           HandleError, FailTrial
<1>. QED BY <1>1, <1>2, <1>3, <1>4, <1>5 DEF Next

(* A completed entry of the ledger is never touched again: a retry that    *)
(* finds one does not write, a late completion writes what is there.       *)
LEMMA LedgerStep ==
  ASSUME TypeOK, WorkerInv, [Next]_vars,
         NEW t \in Trial, NEW s \in Stage, ledger[t][s].status = "COMPLETED"
  PROVE  ledger'[t][s] = ledger[t][s]
<1>0. LedgerType
  BY DEF TypeOK, LedgerType
<1>1. CASE UNCHANGED ledger
  BY <1>1
<1>2. ASSUME NEW w \in Worker, StartAction(w), ~AlreadyDone(w)
      PROVE  ledger'[t][s] = ledger[t][s]
  <2>. DEFINE u == worker[w].trial
              r == worker[w].state
  <2>1. u # t \/ r # s
    BY <1>2 DEF AlreadyDone, Entry
  <2>2. \E e : ledger' = [ledger EXCEPT ![u][r] = e]
    BY <1>2 DEF StartAction
  <2>. QED BY <1>0, <2>1, <2>2, EntryElsewhere
<1>3. ASSUME NEW w \in Worker, RecordAction(w)
      PROVE  ledger'[t][s] = ledger[t][s]
  <2>. DEFINE u == worker[w].trial
              r == worker[w].state
              e == [ledger[u][r] EXCEPT !.status = "COMPLETED"]
  <2>1. ledger' = ledger \/ ledger' = [ledger EXCEPT ![u][r] = e]
    BY <1>3 DEF RecordAction
  <2>2. CASE u = t /\ r = s
    <3>1. e = ledger[t][s]
      BY <1>0, <2>2 DEF LedgerType, LedgerEntry
    <3>. QED BY <1>0, <2>1, <2>2, <3>1 DEF LedgerType
  <2>3. CASE u # t \/ r # s
    <3>1. CASE ledger' = ledger
      BY <3>1
    <3>2. CASE ledger' # ledger
      <4>1. \E x : ledger' = [ledger EXCEPT ![u][r] = x]
        BY <2>1, <3>2
      <4>. HIDE DEF u, r, e
      <4>. QED BY <1>0, <2>3, <4>1, EntryElsewhere
    <3>. QED BY <3>1, <3>2
  <2>. QED BY <2>2, <2>3
<1>. QED BY <1>1, <1>2, <1>3, LedgerWrites

(* Which steps touch the rows of the trials.                               *)
LEMMA RowsStep ==
  ASSUME [Next]_vars
  PROVE  \/ UNCHANGED <<arriving, trialVars>>
         \/ \E t \in Trial : AdmitTrial(t) \/ InsertTrial(t)
         \/ EmergencyStop
         \/ Clock
         \/ \E w \in Worker, t \in Trial : Claim(w, t)
         \/ \E w \in Worker : Advance(w) \/ FinishTrial(w) \/ FailTrial(w)
<1>. USE DEF controlVars, trialVars
<1>1. CASE UNCHANGED vars
  BY <1>1 DEF vars
<1>2. CASE Operator
  BY <1>2 DEF Operator, Pause, Resume, Stop, Control
<1>3. ASSUME NEW w \in Worker, Step(w)
      PROVE  \/ UNCHANGED <<arriving, trialVars>>
             \/ Advance(w) \/ FinishTrial(w) \/ FailTrial(w)
  BY <1>3 DEF Step, StartAction, Beat, Operate, OperateRaises, Reapply,
     RecordAction, StepRaises, HandleError
<1>4. ASSUME NEW w \in Worker, Crash(w)
      PROVE  UNCHANGED <<arriving, trialVars>>
  BY <1>4 DEF Crash
<1>. QED BY <1>1, <1>2, <1>3, <1>4 DEF Next

(* Attempts are never taken back.                                          *)
LEMMA AttemptsStep ==
  ASSUME TypeOK, [Next]_vars, NEW t \in Trial
  PROVE  attempts'[t] \in Nat /\ attempts'[t] >= attempts[t]
<1>. USE DEF TypeOK
<1>1. CASE attempts' = attempts
  BY <1>1
<1>2. ASSUME NEW w \in Worker, NEW u \in Trial, Claim(w, u)
      PROVE  attempts'[t] \in Nat /\ attempts'[t] >= attempts[t]
  BY <1>2 DEF Claim
<1>3. attempts' = attempts \/ \E w \in Worker, u \in Trial : Claim(w, u)
  BY RowsStep DEF trialVars, AdmitTrial, InsertTrial, EmergencyStop, Clock,
     LeaseExpires, BackoffEnds, Advance, FinishTrial, FailTrial
<1>. QED BY <1>1, <1>2, <1>3

(* A worker that advances changes its position.                            *)
LEMMA AdvanceMoves ==
  ASSUME TypeOK, WorkerInv, NEW w \in Worker, Advance(w)
  PROVE  worker'[w] # worker[w]
<1>. DEFINE t == worker[w].trial
            n == Successor(Kind[t], worker[w].state, Feasible(t))
            pc == IF n = "COMPLETED" THEN "finish" ELSE EntryPoint(t, n)
<1>1. worker[w].pc = "advance"
  BY DEF Advance
<1>2. pc # "advance"
  BY <1>1, Busy, SuccessorType, EntryPointFacts
<1>3. worker \in [Worker -> LocalState]
  BY DEF TypeOK
<1>4. \/ Become(w, [worker[w] EXCEPT !.state = n, !.pc = pc])
      \/ Goto(w, "handle")
  BY DEF Advance
<1>5. CASE Goto(w, "handle")
  BY <1>1, <1>3, <1>5 DEF Goto, LocalState
<1>6. CASE Become(w, [worker[w] EXCEPT !.state = n, !.pc = pc])
  <2>1. [worker[w] EXCEPT !.state = n, !.pc = pc].pc = pc
    BY <1>3 DEF LocalState
  <2>2. worker'[w].pc \in {pc, "idle"}
    BY <1>3, <1>6, <2>1 DEF Become, Idle
  <2>. QED BY <1>1, <1>2, <2>2
<1>. QED BY <1>4, <1>5, <1>6

(* A worker that is between two transactions and still holds its lease     *)
(* after somebody else's step held it before, and its trial has not moved. *)
LEMMA HeldStep ==
  ASSUME TypeOK, WorkerInv, LeaseInv, [Next]_vars,
         NEW v \in Worker, worker[v].pc # "idle", worker'[v] = worker[v],
         Holds(v)'
  PROVE  Holds(v) /\ state'[worker[v].trial] = state[worker[v].trial]
<1>. DEFINE t == worker[v].trial
<1>0. /\ t \in Trial
      /\ worker[v].token \in 1 .. attempts[t]
      /\ lease'[t] = [owner |-> v, token |-> worker[v].token]
      /\ lease'[t] # NoLease
      /\ attempts[t] \in Nat
  BY Busy, NoneAssumption DEF Holds, NoLease, TypeOK
<1>1. CASE UNCHANGED <<arriving, trialVars>>
  BY <1>0, <1>1 DEF trialVars, Holds
<1>2. ASSUME NEW u \in Trial, AdmitTrial(u) \/ InsertTrial(u)
      PROVE  Holds(v) /\ state'[t] = state[t]
  <2>1. CASE AdmitTrial(u)
    BY <1>0, <2>1 DEF AdmitTrial, trialVars, Holds
  <2>2. CASE InsertTrial(u)
    <3>1. attempts[u] = 0
      BY <2>2 DEF InsertTrial, LeaseInv, LeaseOK
    <3>2. u # t
      BY <1>0, <3>1
    <3>. QED BY <1>0, <2>2, <3>2 DEF InsertTrial, Holds, TypeOK
  <2>. QED BY <1>2, <2>1, <2>2
<1>3. CASE EmergencyStop
  BY <1>0, <1>3 DEF EmergencyStop, Holds
<1>4. CASE Clock
  BY <1>0, <1>4 DEF Clock, LeaseExpires, BackoffEnds, Holds
<1>5. ASSUME NEW w \in Worker, NEW u \in Trial, Claim(w, u)
      PROVE  Holds(v) /\ state'[t] = state[t]
  <2>1. w # v
    BY <1>5 DEF Claim
  <2>2. u # t
    BY <1>0, <1>5, <2>1 DEF Claim, TypeOK
  <2>. QED BY <1>0, <1>5, <2>2 DEF Claim, Holds, TypeOK
<1>6. ASSUME NEW w \in Worker, Advance(w)
      PROVE  Holds(v) /\ state'[t] = state[t]
  <2>1. lease' = lease
    BY <1>6 DEF Advance
  <2>2. Holds(v)
    BY <1>0, <2>1 DEF Holds
  <2>3. CASE state' = state
    BY <2>2, <2>3
  <2>4. CASE HoldsLive(w) /\ w # v
    <3>1. worker[w].trial # t
      BY <2>2, <2>4 DEF HoldsLive, Holds
    <3>2. \/ state' = state
          \/ \E n : state' = [state EXCEPT ![worker[w].trial] = n]
      BY <1>6 DEF Advance
    <3>. QED BY <1>0, <2>2, <3>1, <3>2 DEF TypeOK
  <2>5. w # v
    BY <1>6, AdvanceMoves
  <2>6. state' = state \/ HoldsLive(w)
    BY <1>6 DEF Advance
  <2>. QED BY <2>3, <2>4, <2>5, <2>6
<1>7. ASSUME NEW w \in Worker, FinishTrial(w)
      PROVE  Holds(v) /\ state'[t] = state[t]
  BY <1>0, <1>7 DEF FinishTrial, Holds, TypeOK
<1>8. ASSUME NEW w \in Worker, FailTrial(w)
      PROVE  Holds(v) /\ state'[t] = state[t]
  <2>1. CASE Holds(w)
    <3>1. lease' = [lease EXCEPT ![worker[w].trial] = NoLease]
      BY <1>8, <2>1 DEF FailTrial
    <3>2. worker[w].trial # t
      BY <1>0, <3>1 DEF TypeOK
    <3>3. lease'[t] = lease[t]
      BY <1>0, <3>1, <3>2 DEF TypeOK
    <3>. QED BY <1>0, <1>8, <2>1, <3>2, <3>3 DEF FailTrial, Holds, TypeOK
  <2>2. CASE ~Holds(w)
    BY <1>0, <1>8, <2>2 DEF FailTrial, Holds
  <2>. QED BY <2>1, <2>2
<1>. QED BY <1>1, <1>2, <1>3, <1>4, <1>5, <1>6, <1>7, <1>8, RowsStep

-----------------------------------------------------------------------------
(* Every step preserves the inductive invariant.                           *)

(* A worker that holds its lease holds the latest attempt of an open trial *)
(* that is where the worker last saw it.                                   *)
LEMMA Holding ==
  ASSUME TypeOK, WorkerInv, LeaseInv,
         NEW w \in Worker, worker[w].pc # "idle", Holds(w)
  PROVE  LET t == worker[w].trial IN
         /\ lease[t] # NoLease
         /\ worker[w].token = attempts[t]
         /\ t \notin closed
         /\ failure[t] = None
         /\ state[t] = worker[w].state
         /\ state[t] # Absent
<1>. DEFINE t == worker[w].trial
<1>1. t \in Trial /\ worker[w].token \in 1 .. attempts[t] /\ attempts[t] \in Nat
  BY Busy DEF TypeOK
<1>2. lease[t] # NoLease /\ lease[t].token = worker[w].token
  BY NoneAssumption DEF Holds, NoLease
<1>3. state[t] = worker[w].state
  BY DEF WorkerInv, WorkerOK
<1>. QED BY <1>1, <1>2, <1>3 DEF LeaseInv, LeaseOK

(* Every step keeps leases with the latest attempt.                        *)
LEMMA LeaseInvStep ==
  ASSUME TypeOK, WorkerInv, LeaseInv, [Next]_vars
  PROVE  LeaseInv'
<1>. SUFFICES ASSUME NEW t \in Trial
              PROVE  LeaseOK(t)'
  BY DEF LeaseInv
<1>0. /\ LeaseOK(t)
      /\ attempts[t] \in Nat
      /\ MaxAttempts[t] \in Nat \ {0}
  BY AttemptsAssumption DEF TypeOK, LeaseInv
<1>1. CASE UNCHANGED <<arriving, trialVars>>
  BY <1>0, <1>1 DEF trialVars, LeaseOK
<1>2. ASSUME NEW u \in Trial, AdmitTrial(u) \/ InsertTrial(u)
      PROVE  LeaseOK(t)'
  <2>1. CASE AdmitTrial(u)
    BY <1>0, <2>1 DEF AdmitTrial, trialVars, LeaseOK
  <2>2. CASE InsertTrial(u)
    BY <1>0, <2>2 DEF InsertTrial, LeaseOK, TypeOK, Absent
  <2>. QED BY <1>2, <2>1, <2>2
<1>3. CASE EmergencyStop
  BY <1>0, <1>3 DEF EmergencyStop, OpenTrials, LeaseOK, Absent
<1>4. CASE Clock
  BY <1>0, <1>4 DEF Clock, LeaseExpires, BackoffEnds, controlVars, LeaseOK
<1>5. ASSUME NEW w \in Worker, NEW u \in Trial, Claim(w, u)
      PROVE  LeaseOK(t)'
  <2>1. /\ attempts' = [attempts EXCEPT ![u] = attempts[u] + 1]
        /\ lease' = [lease EXCEPT ![u] = [owner |-> w, token |-> attempts[u] + 1]]
        /\ live' = live \cup {u}
        /\ UNCHANGED <<arriving, state, closed, failure>>
        /\ state[u] # Absent /\ u \notin closed /\ attempts[u] < MaxAttempts[u]
    BY <1>5 DEF Claim, NextInQueue, Claimable, controlVars
  <2>2. CASE u = t
    <3>1. /\ attempts'[t] = attempts[t] + 1
          /\ lease'[t] = [owner |-> w, token |-> attempts[t] + 1]
      BY <2>1, <2>2 DEF TypeOK
    <3>2. /\ lease'[t].token = attempts'[t]
          /\ lease'[t].owner = w
          /\ lease'[t] # NoLease
      BY <3>1, NoneAssumption DEF NoLease
    <3>. QED BY <1>0, <2>1, <2>2, <3>1, <3>2 DEF LeaseOK
  <2>3. CASE u # t
    <3>1. attempts'[t] = attempts[t] /\ lease'[t] = lease[t]
      BY <2>1, <2>3 DEF TypeOK
    <3>. QED BY <1>0, <2>1, <2>3, <3>1 DEF LeaseOK
  <2>. QED BY <2>2, <2>3
<1>6. ASSUME NEW w \in Worker, Advance(w) PROVE LeaseOK(t)'
  <2>. DEFINE u == worker[w].trial
              n == Successor(Kind[u], worker[w].state, Feasible(u))
  <2>1. /\ UNCHANGED <<arriving, closed, failure, attempts, lease, live>>
        /\ state' = state \/ (state' = [state EXCEPT ![u] = n] /\ HoldsLive(w))
        /\ worker[w].pc = "advance"
    BY <1>6 DEF Advance, controlVars
  <2>2. n # Absent
    BY <2>1, Busy, SuccessorType DEF ActiveStates, Stage, TerminalStates, Absent
  <2>3. CASE HoldsLive(w) /\ state' = [state EXCEPT ![u] = n]
    <3>1. state[u] # Absent
      BY <2>1, <2>3, Holding DEF HoldsLive
    <3>2. state'[t] = Absent <=> state[t] = Absent
      BY <2>2, <2>3, <3>1 DEF TypeOK
    <3>. QED BY <1>0, <2>1, <3>2 DEF LeaseOK
  <2>. QED BY <1>0, <2>1, <2>3 DEF LeaseOK
<1>7. ASSUME NEW w \in Worker, FinishTrial(w) PROVE LeaseOK(t)'
  <2>. DEFINE u == worker[w].trial
  <2>1. /\ UNCHANGED <<arriving, state, failure, attempts>>
        /\ \/ /\ Holds(w)
              /\ closed' = closed \cup {u}
              /\ lease' = [lease EXCEPT ![u] = NoLease]
              /\ live' = live \ {u}
           \/ UNCHANGED <<closed, lease, live>>
        /\ worker[w].pc = "finish"
    BY <1>7 DEF FinishTrial, controlVars
  <2>2. Holds(w) => state[u] # Absent
    BY <2>1, Holding
  <2>. QED BY <1>0, <2>1, <2>2 DEF LeaseOK, TypeOK
<1>8. ASSUME NEW w \in Worker, FailTrial(w) PROVE LeaseOK(t)'
  <2>. DEFINE u == worker[w].trial
              verdict == worker[w].verdict
  <2>1. /\ UNCHANGED <<arriving, attempts>>
        /\ \/ /\ Holds(w)
              /\ lease' = [lease EXCEPT ![u] = NoLease]
              /\ live' = live \ {u}
              /\ \/ /\ state' = [state EXCEPT ![u] = verdict]
                    /\ failure' = [failure EXCEPT ![u] = verdict]
                    /\ closed' = closed \cup {u}
                 \/ UNCHANGED <<state, failure, closed>>
           \/ UNCHANGED <<state, failure, closed, lease, live>>
        /\ worker[w].pc = "fail"
    BY <1>8 DEF FailTrial
  <2>2. verdict # Absent
    BY <2>1 DEF WorkerInv, WorkerOK, TerminalStates, Absent
  <2>3. Holds(w) => state[u] # Absent
    BY <2>1, Holding
  <2>. QED BY <1>0, <2>1, <2>2, <2>3 DEF LeaseOK, TypeOK
<1>. QED BY <1>1, <1>2, <1>3, <1>4, <1>5, <1>6, <1>7, <1>8, RowsStep

(* Every step leaves the completed actions of the stages behind a trial.   *)
LEMMA LedgerInvStep ==
  ASSUME TypeOK, WorkerInv, LeaseInv, LedgerBehindState, [Next]_vars
  PROVE  LedgerBehindState'
<1>. SUFFICES ASSUME NEW t \in Trial, state'[t] # Absent, failure'[t] = None,
                     NEW a \in Behind(Kind[t], state'[t])
              PROVE  ledger'[t][a].status = "COMPLETED"
  BY DEF LedgerBehindState
<1>0. Kind[t] \in Kinds /\ a \in Stage /\ a \in StagesOf(Kind[t])
  BY KindAssumption, StageFacts DEF Behind
<1>. SUFFICES ledger[t][a].status = "COMPLETED"
  BY <1>0, LedgerStep
<1>1. CASE state'[t] = state[t] /\ failure'[t] = failure[t]
  BY <1>1 DEF LedgerBehindState
<1>2. ASSUME NEW u \in Trial, InsertTrial(u)
      PROVE  ledger[t][a].status = "COMPLETED"
  <2>1. CASE u = t
    <3>1. state'[t] = "CREATED"
      BY <1>2, <2>1 DEF InsertTrial, TypeOK
    <3>. QED BY <1>0, <3>1, BehindCreated
  <2>2. CASE u # t
    BY <1>1, <1>2, <2>2 DEF InsertTrial, TypeOK
  <2>. QED BY <2>1, <2>2
<1>3. CASE EmergencyStop
  BY <1>1, <1>3, NoneAssumption DEF EmergencyStop, TerminalStates
<1>4. ASSUME NEW w \in Worker, Advance(w)
      PROVE  ledger[t][a].status = "COMPLETED"
  <2>. DEFINE s == worker[w].state
              n == Successor(Kind[t], s, Feasible(t))
  <2>1. CASE worker[w].trial # t \/ state' = state
    BY <1>1, <1>4, <2>1 DEF Advance, TypeOK
  <2>2. CASE worker[w].trial = t /\ state' # state
    <3>1. /\ worker[w].pc = "advance"
          /\ Holds(w)
          /\ state' = [state EXCEPT ![t] = n]
      BY <1>4, <2>2 DEF Advance, HoldsLive
    <3>2. /\ state[t] = s
          /\ state[t] # Absent
          /\ failure[t] = None
          /\ \/ s = "CREATED"
             \/ s \in StagesOf(Kind[t]) /\ ledger[t][s].status = "COMPLETED"
      BY <2>2, <3>1, Holding DEF WorkerInv, WorkerOK
    <3>3. a \in Behind(Kind[t], n)
      BY <3>1 DEF TypeOK
    <3>4. a \in Behind(Kind[t], s) \/ a = s
      BY <1>0, <3>2, <3>3, BehindSuccessor
    <3>5. "CREATED" \notin Stage
      BY <1>0, StageFacts
    <3>. QED BY <1>0, <3>2, <3>4, <3>5 DEF LedgerBehindState
  <2>. QED BY <2>1, <2>2
<1>5. ASSUME NEW w \in Worker, FailTrial(w)
      PROVE  ledger[t][a].status = "COMPLETED"
  <2>1. \/ UNCHANGED <<state, failure>>
        \/ /\ state' = [state EXCEPT ![worker[w].trial] = worker[w].verdict]
           /\ failure' = [failure EXCEPT ![worker[w].trial] = worker[w].verdict]
    BY <1>5 DEF FailTrial
  <2>2. worker[w].verdict # None
    BY <1>5, NoneAssumption DEF FailTrial, WorkerInv, WorkerOK
  <2>. QED BY <1>1, <2>1, <2>2 DEF TypeOK
<1>6. \/ UNCHANGED <<state, failure>>
      \/ \E u \in Trial : InsertTrial(u)
      \/ EmergencyStop
      \/ \E w \in Worker : Advance(w) \/ FailTrial(w)
  BY RowsStep DEF trialVars, AdmitTrial, Clock, LeaseExpires, BackoffEnds, Claim,
     FinishTrial
<1>. QED BY <1>1, <1>2, <1>3, <1>4, <1>5, <1>6

(* A worker that returns from run_once remembers nothing.                  *)
LEMMA IdleOK ==
  ASSUME NEW w \in Worker, worker'[w] = Idle
  PROVE  WorkerOK(w)'
BY DEF WorkerOK, Idle

(* A worker that stays between two transactions keeps what it remembers.   *)
LEMMA GotoOK ==
  ASSUME TypeOK, WorkerInv, NEW w \in Worker, NEW pc,
         worker[w].pc # "idle", Goto(w, pc),
         UNCHANGED <<state, attempts, lease>>,
         LET t == worker[w].trial
             s == worker[w].state
         IN  \/ pc = "handle"
             \/ /\ pc \in {"reapply", "start", "beat", "operate", "record"}
                /\ s \in StagesOf(Kind[t])
             \/ /\ pc = "advance"
                /\ s \in StagesOf(Kind[t])
                /\ ledger'[t][s].status = "COMPLETED"
  PROVE  WorkerOK(w)'
<1>1. worker[w] \in LocalState
  BY DEF TypeOK
<1>2. worker'[w] = [worker[w] EXCEPT !.pc = pc]
  BY DEF Goto, TypeOK
<1>3. /\ worker'[w].pc = pc
      /\ worker'[w].trial = worker[w].trial
      /\ worker'[w].token = worker[w].token
      /\ worker'[w].state = worker[w].state
  BY <1>1, <1>2 DEF LocalState
<1>4. WorkerOK(w)
  BY DEF WorkerInv
<1>5. Holds(w)' => Holds(w)
  BY <1>3 DEF Holds
<1>. QED BY <1>3, <1>4, <1>5 DEF WorkerOK

(* Only its own steps change what a worker remembers.                      *)
LEMMA Actor ==
  ASSUME TypeOK, [Next]_vars, NEW w \in Worker, worker'[w] # worker[w]
  PROVE  (\E t \in Trial : Claim(w, t)) \/ Step(w) \/ Crash(w)
<1>1. CASE UNCHANGED vars \/ Operator \/ Clock
  BY <1>1 DEF vars, Operator, Pause, Resume, Stop, Control, EmergencyStop,
     AdmitTrial, InsertTrial, Clock, LeaseExpires, BackoffEnds
<1>2. ASSUME NEW v \in Worker, v # w,
             (\E t \in Trial : Claim(v, t)) \/ Step(v) \/ Crash(v)
      PROVE  worker'[w] = worker[w]
  <2>1. \E local : worker' = [worker EXCEPT ![v] = local]
    <3>1. CASE Step(v)
      <4>1. CASE \E pc : Goto(v, pc)
        BY <4>1 DEF Goto
      <4>2. CASE Advance(v)
        BY <4>2 DEF Advance, Become, Goto
      <4>3. CASE FinishTrial(v) \/ FailTrial(v) \/ HandleError(v)
        BY <4>3 DEF FinishTrial, FailTrial, HandleError, Goto
      <4>4. CASE StartAction(v) \/ Beat(v) \/ Operate(v) \/ OperateRaises(v)
                   \/ Reapply(v) \/ RecordAction(v) \/ StepRaises(v)
        <5>1. \E pc : Goto(v, pc)
          BY <4>4 DEF StartAction, Beat, Operate, OperateRaises, Reapply,
             RecordAction, StepRaises
        <5>. QED BY <4>1, <5>1
      <4>. QED BY <3>1, <4>2, <4>3, <4>4 DEF Step
    <3>2. CASE Crash(v)
      BY <3>2 DEF Crash
    <3>3. CASE \E t \in Trial : Claim(v, t)
      BY <3>3 DEF Claim, Become
    <3>. QED BY <1>2, <3>1, <3>2, <3>3
  <2>. QED BY <1>2, <2>1 DEF TypeOK
<1>. QED BY <1>1, <1>2 DEF Next

(* Every step leaves every worker with a position that fits the rows.      *)
LEMMA WorkerInvStep ==
  ASSUME TypeOK, WorkerInv, LeaseInv, [Next]_vars
  PROVE  WorkerInv'
<1>. SUFFICES ASSUME NEW w \in Worker
              PROVE  WorkerOK(w)'
  BY DEF WorkerInv
<1>. DEFINE t == worker[w].trial
            s == worker[w].state
<1>0. WorkerOK(w) /\ worker[w] \in LocalState
  BY DEF WorkerInv, TypeOK
<1>1. CASE worker'[w] = worker[w]
  <2>1. CASE worker[w].pc = "idle"
    BY <1>1, <2>1 DEF WorkerOK
  <2>2. CASE worker[w].pc # "idle"
    <3>1. /\ t \in Trial
          /\ Kind[t] \in Kinds
          /\ worker[w].token \in 1 .. attempts[t]
          /\ attempts[t] \in Nat
      BY <2>2, Busy DEF TypeOK
    <3>2. worker[w].token \in 1 .. attempts'[t]
      BY <3>1, AttemptsStep
    <3>3. Holds(w)' => state'[t] = s
      BY <1>0, <1>1, <2>2, HeldStep DEF WorkerOK
    <3>4. /\ worker[w].pc = "advance"
          /\ s \in StagesOf(Kind[t])
          /\ ledger[t][s].status = "COMPLETED"
          => ledger'[t][s].status = "COMPLETED"
      BY <3>1, LedgerStep, StageFacts
    <3>. QED BY <1>0, <1>1, <2>2, <3>1, <3>2, <3>3, <3>4 DEF WorkerOK
  <2>. QED BY <2>1, <2>2
<1>2. ASSUME NEW u \in Trial, Claim(w, u)
      PROVE  WorkerOK(w)'
  <2>. DEFINE n == attempts[u] + 1
              pc == IF NeedsReapply(u, state[u], n) THEN "rebeat"
                                                    ELSE EntryPoint(u, state[u])
              local == [pc |-> pc, trial |-> u, token |-> n, state |-> state[u],
                        verdict |-> Absent]
  <2>1. /\ worker'[w] = IF pc = "idle" THEN Idle ELSE local
        /\ attempts'[u] = n /\ n \in Nat /\ n >= 1
        /\ state' = state
    BY <1>2 DEF Claim, Become, TypeOK
  <2>2. Kind[u] \in Kinds
    BY KindAssumption
  <2>3. /\ pc \in {"rebeat", "advance", "start", "finish", "idle"}
        /\ pc = "advance" => state[u] = "CREATED"
        /\ pc \in {"rebeat", "start"} => state[u] \in StagesOf(Kind[u])
        /\ pc = "finish" => state[u] \in ClosingStates
    BY <2>2, EntryPointFacts, StageFacts DEF NeedsReapply
  <2>4. CASE pc = "idle"
    BY <2>1, <2>4, IdleOK
  <2>5. CASE pc # "idle"
    <3>1. /\ worker'[w].pc = pc
          /\ worker'[w].trial = u
          /\ worker'[w].token = n
          /\ worker'[w].state = state[u]
      BY <2>1, <2>5
    <3>. QED BY <2>1, <2>3, <3>1 DEF WorkerOK
  <2>. QED BY <2>4, <2>5
<1>3. CASE Crash(w)
  BY <1>3, IdleOK DEF Crash, TypeOK
<1>4. CASE Step(w)
  <2>a. worker[w].pc # "idle"
    BY <1>4 DEF Step, StartAction, Beat, Operate, OperateRaises, Reapply,
       RecordAction, Advance, FinishTrial, StepRaises, HandleError, FailTrial
  <2>b. /\ t \in Trial
        /\ Kind[t] \in Kinds
        /\ worker[w].token \in 1 .. attempts[t]
    BY <2>a, Busy
  <2>c. worker[w].pc \in {"rebeat", "reapply", "start", "beat", "operate", "record"}
          => s \in StagesOf(Kind[t]) /\ s \in Stage
    BY <1>0, <2>b, StageFacts DEF WorkerOK
  <2>. USE DEF controlVars, trialVars
  <2>1. CASE StartAction(w)
    <3>1. /\ worker[w].pc = "start"
          /\ UNCHANGED <<state, attempts, lease>>
          /\ \/ AlreadyDone(w) /\ Goto(w, "advance") /\ UNCHANGED ledger
             \/ Goto(w, "operate")
             \/ Goto(w, "beat")
      BY <2>1 DEF StartAction
    <3>. QED BY <2>a, <2>c, <3>1, GotoOK DEF AlreadyDone, Entry
  <2>2. CASE Beat(w)
    <3>1. /\ worker[w].pc \in {"rebeat", "beat"}
          /\ UNCHANGED <<state, attempts, lease>>
          /\ Goto(w, "reapply") \/ Goto(w, "operate") \/ Goto(w, "handle")
      BY <2>2 DEF Beat
    <3>. QED BY <2>a, <2>c, <3>1, GotoOK
  <2>3. CASE Operate(w) \/ OperateRaises(w)
    <3>1. /\ worker[w].pc = "operate"
          /\ UNCHANGED <<state, attempts, lease>>
          /\ Goto(w, "record") \/ Goto(w, "handle")
      BY <2>3 DEF Operate, OperateRaises
    <3>. QED BY <2>a, <2>c, <3>1, GotoOK
  <2>4. CASE Reapply(w)
    <3>1. /\ worker[w].pc = "reapply"
          /\ UNCHANGED <<state, attempts, lease>>
          /\ Goto(w, EntryPoint(t, s)) \/ Goto(w, "handle")
      BY <2>4 DEF Reapply
    <3>2. EntryPoint(t, s) = "start"
      BY <2>b, <2>c, <3>1, EntryPointFacts
    <3>. QED BY <2>a, <2>c, <3>1, <3>2, GotoOK
  <2>5. CASE RecordAction(w)
    <3>1. /\ worker[w].pc = "record"
          /\ UNCHANGED <<state, attempts, lease>>
          /\ \/ /\ ledger' = [ledger EXCEPT ![t][s].status = "COMPLETED"]
                /\ Goto(w, "advance")
             \/ Goto(w, "handle")
      BY <2>5 DEF RecordAction
    <3>2. ledger' = [ledger EXCEPT ![t][s].status = "COMPLETED"]
            => ledger'[t][s].status = "COMPLETED"
      BY <2>b, <2>c, <3>1 DEF TypeOK, LedgerEntry
    <3>. QED BY <2>a, <2>c, <3>1, <3>2, GotoOK
  <2>6. CASE Advance(w)
    <3>. DEFINE n == Successor(Kind[t], s, Feasible(t))
                pc == IF n = "COMPLETED" THEN "finish" ELSE EntryPoint(t, n)
                local == [worker[w] EXCEPT !.state = n, !.pc = pc]
    <3>1. /\ UNCHANGED <<attempts, lease>>
          /\ \/ /\ state' = [state EXCEPT ![t] = n]
                /\ Become(w, local)
             \/ Goto(w, "handle") /\ UNCHANGED state
      BY <2>6 DEF Advance
    <3>2. CASE Goto(w, "handle") /\ UNCHANGED state
      BY <2>a, <3>1, <3>2, GotoOK
    <3>3. CASE state' = [state EXCEPT ![t] = n] /\ Become(w, local)
      <4>1. /\ pc \in {"start", "finish", "idle"}
            /\ pc = "start" => n \in StagesOf(Kind[t])
            /\ pc = "finish" => n \in ClosingStates
        BY <2>b, EntryPointFacts, SuccessorType DEF ClosingStates
      <4>2. /\ local.pc = pc
            /\ local.trial = t
            /\ local.token = worker[w].token
            /\ local.state = n
        BY <1>0 DEF LocalState
      <4>3. worker'[w] = IF pc = "idle" THEN Idle ELSE local
        BY <3>3, <4>2 DEF Become, TypeOK
      <4>4. CASE pc = "idle"
        BY <4>3, <4>4, IdleOK
      <4>5. CASE pc # "idle"
        <5>1. state'[t] = n
          BY <2>b, <3>3 DEF TypeOK
        <5>2. worker'[w] = local
          BY <4>3, <4>5
        <5>. QED BY ONLY <2>b, <3>1, <4>1, <4>2, <4>5, <5>1, <5>2 DEF WorkerOK
      <4>. QED BY <4>4, <4>5
    <3>. QED BY <3>1, <3>2, <3>3
  <2>7. CASE FinishTrial(w)
    <3>1. \/ worker' = [worker EXCEPT ![w] = Idle]
          \/ Goto(w, "handle") /\ UNCHANGED <<state, attempts, lease>>
      BY <2>7 DEF FinishTrial
    <3>. QED BY <2>a, <3>1, GotoOK, IdleOK DEF TypeOK
  <2>8. CASE StepRaises(w)
    BY <2>8, <2>a, GotoOK DEF StepRaises
  <2>9. CASE HandleError(w)
    <3>1. PICK v \in {"DATABASE_UNHEALTHY", FailureState(state[t]),
                      "RESOURCE_LIMIT_EXCEEDED"} :
                 worker' = [worker EXCEPT ![w].pc = "fail", ![w].verdict = v]
      BY <2>9 DEF HandleError
    <3>2. v \in TerminalStates
      BY <3>1, FailureStateType DEF TerminalStates
    <3>3. worker'[w] = [worker[w] EXCEPT !.pc = "fail", !.verdict = v]
      BY <3>1 DEF TypeOK
    <3>4. /\ worker'[w].pc = "fail"
          /\ worker'[w].verdict = v
          /\ worker'[w].trial = t
          /\ worker'[w].token = worker[w].token
          /\ worker'[w].state = s
      BY <1>0, <3>3 DEF LocalState
    <3>5. UNCHANGED <<state, attempts, lease>>
      BY <2>9 DEF HandleError
    <3>6. Holds(w)' => state'[t] = s
      BY <1>0, <2>a, <3>4, <3>5 DEF Holds, WorkerOK
    <3>. QED BY <2>b, <3>2, <3>4, <3>5, <3>6 DEF WorkerOK
  <2>10. CASE FailTrial(w)
    BY <2>10, IdleOK DEF FailTrial, TypeOK
  <2>. QED BY <1>4, <2>1, <2>2, <2>3, <2>4, <2>5, <2>6, <2>7, <2>8, <2>9, <2>10
           DEF Step
<1>. QED BY <1>1, <1>2, <1>3, <1>4, Actor

(* A trial that has ended stays as it ended, whatever the step.            *)
LEMMA EndedStep ==
  ASSUME IInv, [Next]_vars, NEW t \in closed
  PROVE  /\ t \in closed'
         /\ state'[t] = state[t] /\ failure'[t] = failure[t]
         /\ attempts'[t] = attempts[t] /\ lease'[t] = NoLease
<1>. USE DEF IInv
<1>0. t \in Trial /\ lease[t] = NoLease /\ state[t] # Absent
  BY DEF TypeOK, LeaseInv, LeaseOK
<1>1. CASE UNCHANGED <<arriving, trialVars>> \/ Clock
  BY <1>0, <1>1 DEF trialVars, Clock, LeaseExpires, BackoffEnds
<1>2. ASSUME NEW u \in Trial, AdmitTrial(u) \/ InsertTrial(u)
      PROVE  /\ UNCHANGED <<closed, failure, attempts, lease>>
             /\ state'[t] = state[t]
  <2>1. InsertTrial(u) => u # t
    BY <1>0 DEF InsertTrial, LeaseInv, LeaseOK
  <2>. QED BY <1>0, <1>2, <2>1 DEF AdmitTrial, InsertTrial, trialVars, TypeOK
<1>3. CASE EmergencyStop
  BY <1>0, <1>3 DEF EmergencyStop, OpenTrials
<1>4. ASSUME NEW w \in Worker, NEW u \in Trial, Claim(w, u)
      PROVE  /\ UNCHANGED <<closed, failure, state>>
             /\ attempts'[t] = attempts[t] /\ lease'[t] = lease[t]
  <2>1. u # t
    BY <1>4 DEF Claim, NextInQueue, Claimable
  <2>. QED BY <1>0, <1>4, <2>1 DEF Claim, TypeOK
<1>5. ASSUME NEW w \in Worker, Advance(w) \/ FinishTrial(w) \/ FailTrial(w)
      PROVE  /\ closed \subseteq closed'
             /\ UNCHANGED attempts
             /\ state'[t] = state[t] /\ failure'[t] = failure[t]
             /\ lease'[t] = lease[t]
  <2>1. worker[w].pc # "idle"
    BY <1>5 DEF Advance, FinishTrial, FailTrial
  <2>2. Holds(w) => worker[w].trial # t
    BY <2>1, Holding
  <2>. QED BY <1>0, <1>5, <2>2 DEF Advance, FinishTrial, FailTrial, HoldsLive, TypeOK
<1>. QED BY <1>0, <1>1, <1>2, <1>3, <1>4, <1>5, RowsStep

-----------------------------------------------------------------------------
(* The theorems.                                                           *)

(* The inductive invariant holds in every reachable state.                 *)
THEOREM IInvIsInvariant == Spec => []IInv
<1>1. Init => IInv
  BY InitIInv
<1>2. IInv /\ [Next]_vars => IInv'
  BY TypeStep, WorkerInvStep, LeaseInvStep, LedgerInvStep DEF IInv
<1>. QED BY <1>1, <1>2, PTL DEF Spec

(* Type correctness: in particular a failure is only ever filed under one  *)
(* of TERMINAL_STATES.                                                     *)
THEOREM TypeCorrectness == Spec => []TypeOK
BY IInvIsInvariant, PTL DEF IInv

(* Every stage behind a trial that has not failed has its result in the    *)
(* ledger, however many workers crashed, lost their lease or raced.        *)
THEOREM ResultsArePersisted == Spec => []LedgerBehindState
BY IInvIsInvariant, PTL DEF IInv

(* A completed action is never redone or overwritten: what                 *)
(* _record_action_start and _record_action_complete promise together.      *)
THEOREM CompletedActionsStay == Spec => StoredResultsAreFinal
<1>. DEFINE A == \A t \in Trial, s \in Stage :
                   ledger[t][s].status = "COMPLETED" => ledger'[t][s] = ledger[t][s]
<1>1. IInv /\ [Next]_vars => [A]_vars
  BY LedgerStep DEF IInv
<1>2. StoredResultsAreFinal <=> [][A]_vars
  BY DEF StoredResultsAreFinal
<1>. QED BY <1>1, <1>2, IInvIsInvariant, PTL DEF Spec

(* A worker whose lease was taken over never moves its trial.              *)
THEOREM StaleWorkersAreFenced == Spec => FencedTransitions
<1>. DEFINE A == \A t \in Trial :
                   state'[t] \notin {state[t], "CREATED", "CANCELLED"} =>
                     \E w \in Worker : /\ worker[w].trial = t
                                       /\ worker[w].token = attempts[t]
                                       /\ worker[w].pc \in {"advance", "fail"}
<1>1. IInv /\ [Next]_vars => [A]_vars
  <2>. SUFFICES ASSUME IInv, [Next]_vars, NEW t \in Trial,
                       state'[t] \notin {state[t], "CREATED", "CANCELLED"}
                PROVE  \E w \in Worker : /\ worker[w].trial = t
                                         /\ worker[w].token = attempts[t]
                                         /\ worker[w].pc \in {"advance", "fail"}
    OBVIOUS
  <2>. USE DEF IInv
  <2>1. PICK w \in Worker : Advance(w) \/ FailTrial(w)
    BY RowsStep DEF trialVars, AdmitTrial, InsertTrial, EmergencyStop, Clock,
       LeaseExpires, BackoffEnds, Claim, FinishTrial, TypeOK
  <2>2. /\ Holds(w)
        /\ worker[w].pc \in {"advance", "fail"}
        /\ \E n : state' = [state EXCEPT ![worker[w].trial] = n]
    BY <2>1 DEF Advance, FailTrial, HoldsLive
  <2>3. worker[w].trial = t
    BY <2>2 DEF TypeOK
  <2>4. worker[w].token = attempts[t]
    BY <2>2, <2>3, Holding
  <2>. QED BY <2>2, <2>3, <2>4
<1>2. FencedTransitions <=> [][A]_vars
  BY DEF FencedTransitions
<1>. QED BY <1>1, <1>2, IInvIsInvariant, PTL DEF Spec

(* A trial that has ended stays as it ended.                               *)
THEOREM EndedTrialsStay == Spec => ClosedIsFinal
<1>. DEFINE A == \A t \in closed :
                   /\ t \in closed'
                   /\ state'[t] = state[t] /\ failure'[t] = failure[t]
                   /\ attempts'[t] = attempts[t] /\ lease'[t] = NoLease
<1>1. IInv /\ [Next]_vars => [A]_vars
  BY EndedStep
<1>2. ClosedIsFinal <=> [][A]_vars
  BY DEF ClosedIsFinal
<1>. QED BY <1>1, <1>2, IInvIsInvariant, PTL DEF Spec
-----------------------------------------------------------------------------
(***************************************************************************)
(* Two more results: the campaign's failure count counts exactly the       *)
(* trials given up, and the workers implement the abstract lifecycle of    *)
(* DurableTrial.                                                           *)
(***************************************************************************)

(* Who writes the rows the two results are about.                          *)

(* The campaign's row is written by the operator and by _fail_trial.       *)
LEMMA CampaignWrites ==
  ASSUME [Next]_vars
  PROVE  \/ UNCHANGED campaign
         \/ Pause \/ Resume \/ Stop \/ EmergencyStop
         \/ \E w \in Worker : FailTrial(w)
<1>. USE DEF controlVars
<1>1. CASE UNCHANGED vars
  BY <1>1 DEF vars
<1>2. CASE Operator \/ Clock
  BY <1>2 DEF Operator, Clock, AdmitTrial, InsertTrial, LeaseExpires, BackoffEnds
<1>3. ASSUME NEW w \in Worker, (\E t \in Trial : Claim(w, t)) \/ Crash(w)
      PROVE  UNCHANGED campaign
  BY <1>3 DEF Claim, Crash
<1>4. ASSUME NEW w \in Worker, Step(w)
      PROVE  UNCHANGED campaign \/ FailTrial(w)
  BY <1>4 DEF Step, StartAction, Beat, Operate, OperateRaises, Reapply,
     RecordAction, Advance, FinishTrial, StepRaises, HandleError
<1>. QED BY <1>1, <1>2, <1>3, <1>4 DEF Next

(* How a trial failed is written by the emergency stop and by _fail_trial. *)
LEMMA FailureWrites ==
  ASSUME [Next]_vars
  PROVE  \/ UNCHANGED failure
         \/ EmergencyStop
         \/ \E w \in Worker : FailTrial(w) /\ Holds(w) /\ LastAttempt(w)
BY RowsStep DEF trialVars, AdmitTrial, InsertTrial, Clock, LeaseExpires,
   BackoffEnds, Claim, Advance, FinishTrial, FailTrial

(* The verdict a worker is about to file is named by its error handler.    *)
LEMMA VerdictWrites ==
  ASSUME TypeOK, WorkerInv, [Next]_vars, NEW w \in Worker, worker'[w].pc = "fail"
  PROVE  worker'[w] = worker[w] \/ HandleError(w)
<1>. SUFFICES ASSUME worker'[w] # worker[w] PROVE HandleError(w)
  OBVIOUS
<1>0. worker \in [Worker -> LocalState]
  BY DEF TypeOK
<1>1. \A pc : Goto(w, pc) => worker'[w].pc = pc
  BY <1>0 DEF Goto, LocalState
<1>2. (\E t \in Trial : Claim(w, t)) => worker'[w].pc # "fail"
  BY <1>0, EntryPointFacts DEF Claim, Become, Idle
<1>3. Crash(w) \/ FailTrial(w) => worker'[w].pc # "fail"
  BY <1>0 DEF Crash, FailTrial, Idle
<1>4. StartAction(w) \/ Beat(w) \/ Operate(w) \/ OperateRaises(w)
        \/ RecordAction(w) \/ StepRaises(w) => worker'[w].pc # "fail"
  BY <1>1 DEF StartAction, Beat, Operate, OperateRaises, RecordAction, StepRaises
<1>5. Reapply(w) => worker'[w].pc # "fail"
  <2>. SUFFICES ASSUME Reapply(w) PROVE worker'[w].pc # "fail"
    OBVIOUS
  <2>1. worker[w].trial \in Trial
    BY Busy DEF Reapply
  <2>. QED BY <1>1, <2>1, EntryPointFacts DEF Reapply
<1>6. FinishTrial(w) => worker'[w].pc # "fail"
  BY <1>0, <1>1 DEF FinishTrial, Idle
<1>7. Advance(w) => worker'[w].pc # "fail"
  <2>. SUFFICES ASSUME Advance(w) PROVE worker'[w].pc # "fail"
    OBVIOUS
  <2>. DEFINE t == worker[w].trial
              n == Successor(Kind[t], worker[w].state, Feasible(t))
              pc == IF n = "COMPLETED" THEN "finish" ELSE EntryPoint(t, n)
              local == [worker[w] EXCEPT !.state = n, !.pc = pc]
  <2>1. t \in Trial
    BY Busy DEF Advance
  <2>2. pc \in {"advance", "start", "finish", "idle"}
    BY <2>1, EntryPointFacts
  <2>3. local.pc = pc
    BY <1>0 DEF LocalState
  <2>4. Become(w, local) \/ Goto(w, "handle")
    BY DEF Advance
  <2>5. CASE Goto(w, "handle")
    BY <1>1, <2>5
  <2>6. CASE Become(w, local)
    <3>1. worker'[w] = IF pc = "idle" THEN Idle ELSE local
      BY <1>0, <2>3, <2>6 DEF Become
    <3>. QED BY <2>2, <2>3, <3>1 DEF Idle
  <2>. QED BY <2>4, <2>5, <2>6
<1>. QED BY <1>2, <1>3, <1>4, <1>5, <1>6, <1>7, Actor DEF Step

-----------------------------------------------------------------------------
(***************************************************************************)
(* Failure accounting.  FailureAccounting is not inductive by itself: the  *)
(* count stays right because the trials given up are finitely many and     *)
(* because no worker files a failure as CANCELLED, the one failure type    *)
(* that is not counted.                                                    *)
(***************************************************************************)
Failed == {t \in Trial : failure[t] \notin {None, "CANCELLED"}}

NoWorkerCancels ==
  \A w \in Worker : worker[w].pc = "fail" => worker[w].verdict # "CANCELLED"

AccountInv == FailureAccounting /\ IsFiniteSet(Failed) /\ NoWorkerCancels

(* AccountInv with the set of failed trials under its name.                *)
LEMMA AccountForm ==
  AccountInv <=> /\ campaign.failures = Cardinality(Failed)
                 /\ campaign.status = "FAILED" <=> campaign.failures >= FailureLimit
                 /\ \A t \in Failed : t \in closed /\ attempts[t] = MaxAttempts[t]
                 /\ IsFiniteSet(Failed)
                 /\ NoWorkerCancels
BY DEF AccountInv, FailureAccounting, Failed

(* The initial state: no trial has ended and no failure is counted.        *)
LEMMA InitAccount == Init => AccountInv
<1>. SUFFICES ASSUME Init PROVE AccountInv
  OBVIOUS
<1>1. Failed = {}
  BY DEF Init, Failed
<1>2. campaign.failures = 0 /\ campaign.status = "CREATED"
  BY DEF Init
<1>3. NoWorkerCancels
  BY DEF Init, NoWorkerCancels, Idle
<1>. QED BY <1>1, <1>2, <1>3, FS_EmptySet, LimitAssumption, AccountForm

(* The names HandleError gives a failure.                                  *)
LEMMA NoWorkerCancelsStep ==
  ASSUME TypeOK, WorkerInv, NoWorkerCancels, [Next]_vars
  PROVE  NoWorkerCancels'
<1>. SUFFICES ASSUME NEW w \in Worker, worker'[w].pc = "fail"
              PROVE  worker'[w].verdict # "CANCELLED"
  BY DEF NoWorkerCancels
<1>1. CASE worker'[w] = worker[w]
  BY <1>1 DEF NoWorkerCancels
<1>2. CASE HandleError(w)
  <2>1. PICK v \in {"DATABASE_UNHEALTHY", FailureState(state[worker[w].trial]),
                    "RESOURCE_LIMIT_EXCEEDED"} :
               worker' = [worker EXCEPT ![w].pc = "fail", ![w].verdict = v]
    BY <1>2 DEF HandleError
  <2>2. v # "CANCELLED"
    BY <2>1 DEF FailureState
  <2>3. worker'[w].verdict = v
    BY <2>1 DEF TypeOK, LocalState
  <2>. QED BY <2>2, <2>3
<1>. QED BY <1>1, <1>2, VerdictWrites

(* A trial that failed is left alone; one that has not failed fails only   *)
(* by _fail_trial.                                                         *)
LEMMA FailedStep ==
  ASSUME IInv, AccountInv, [Next]_vars
  PROVE  \/ /\ Failed' = Failed
            /\ campaign'.failures = campaign.failures
            /\ campaign'.status = "FAILED" <=> campaign.status = "FAILED"
         \/ \E t \in Trial \ Failed :
              /\ Failed' = Failed \cup {t}
              /\ t \in closed' /\ attempts'[t] = MaxAttempts[t]
              /\ campaign'.failures = campaign.failures + 1
              /\ campaign'.status =
                   IF campaign.failures + 1 >= FailureLimit THEN "FAILED"
                                                            ELSE campaign.status
<1>. USE DEF IInv
<1>0. /\ campaign \in [status : CampaignStatus, emergency : BOOLEAN, failures : Nat]
      /\ failure \in [Trial -> TerminalStates \cup {None}]
      /\ worker \in [Worker -> LocalState]
  BY DEF TypeOK
<1>1. ASSUME NEW w \in Worker, FailTrial(w), Holds(w), LastAttempt(w)
      PROVE  \E t \in Trial \ Failed :
              /\ Failed' = Failed \cup {t}
              /\ t \in closed' /\ attempts'[t] = MaxAttempts[t]
              /\ campaign'.failures = campaign.failures + 1
              /\ campaign'.status =
                   IF campaign.failures + 1 >= FailureLimit THEN "FAILED"
                                                            ELSE campaign.status
  <2>. DEFINE t == worker[w].trial
              v == worker[w].verdict
  <2>1. /\ worker[w].pc = "fail"
        /\ failure' = [failure EXCEPT ![t] = v]
        /\ closed' = closed \cup {t}
        /\ UNCHANGED attempts
        /\ campaign' = [campaign EXCEPT !.failures = campaign.failures + 1,
             !.status = IF campaign.failures + 1 >= FailureLimit THEN "FAILED" ELSE @]
    BY <1>1 DEF FailTrial
  <2>2. /\ t \in Trial
        /\ v \in TerminalStates /\ v # "CANCELLED"
    BY <2>1, Busy DEF AccountInv, NoWorkerCancels, WorkerInv, WorkerOK
  <2>3. failure[t] = None /\ worker[w].token = attempts[t]
    BY <1>1, <2>1, Holding
  <2>4. t \notin Failed /\ Failed' = Failed \cup {t}
    BY <1>0, <2>1, <2>2, <2>3, NoneAssumption DEF Failed
  <2>5. attempts[t] = MaxAttempts[t]
    BY <1>1, <2>2, <2>3, AttemptsAssumption
       DEF LastAttempt, LeaseInv, LeaseOK, TypeOK
  <2>6. /\ campaign'.failures = campaign.failures + 1
        /\ campaign'.status =
             IF campaign.failures + 1 >= FailureLimit THEN "FAILED" ELSE campaign.status
    BY <1>0, <2>1
  <2>. QED BY <2>1, <2>2, <2>4, <2>5, <2>6
<1>2. CASE ~ \E w \in Worker : FailTrial(w) /\ Holds(w) /\ LastAttempt(w)
  <2>1. Failed' = Failed
    <3>1. CASE EmergencyStop
      BY <1>0, <3>1 DEF EmergencyStop, OpenTrials, Failed, LeaseInv, LeaseOK
    <3>. QED BY <1>2, <3>1, FailureWrites DEF Failed
  <2>2. /\ campaign'.failures = campaign.failures
        /\ campaign'.status = "FAILED" <=> campaign.status = "FAILED"
    <3>1. CASE Pause \/ Resume \/ Stop \/ EmergencyStop
      BY <1>0, <3>1 DEF Pause, Resume, Stop, Control, EmergencyStop
    <3>2. ASSUME NEW w \in Worker, FailTrial(w)
          PROVE  UNCHANGED campaign
      BY <1>2, <3>2 DEF FailTrial
    <3>. QED BY <3>1, <3>2, CampaignWrites
  <2>. QED BY <2>1, <2>2
<1>. QED BY <1>1, <1>2

(* Every step keeps the account.                                           *)
LEMMA AccountStep ==
  ASSUME IInv, AccountInv, [Next]_vars
  PROVE  AccountInv'
<1>1. NoWorkerCancels'
  BY NoWorkerCancelsStep DEF IInv, AccountInv
<1>2. /\ campaign.failures = Cardinality(Failed)
      /\ campaign.status = "FAILED" <=> campaign.failures >= FailureLimit
      /\ \A t \in Failed : t \in closed /\ attempts[t] = MaxAttempts[t]
      /\ IsFiniteSet(Failed)
      /\ campaign.failures \in Nat
  BY AccountForm DEF IInv, TypeOK
<1>3. \A t \in Failed : t \in closed' /\ attempts'[t] = MaxAttempts[t]
  BY <1>2, EndedStep
<1>4. CASE /\ Failed' = Failed
           /\ campaign'.failures = campaign.failures
           /\ campaign'.status = "FAILED" <=> campaign.status = "FAILED"
  BY <1>1, <1>2, <1>3, <1>4 DEF AccountInv, FailureAccounting, Failed
<1>5. ASSUME NEW t \in Trial \ Failed,
             Failed' = Failed \cup {t},
             t \in closed' /\ attempts'[t] = MaxAttempts[t],
             campaign'.failures = campaign.failures + 1,
             campaign'.status =
               IF campaign.failures + 1 >= FailureLimit THEN "FAILED"
                                                        ELSE campaign.status
      PROVE  AccountInv'
  <2>1. IsFiniteSet(Failed') /\ Cardinality(Failed') = Cardinality(Failed) + 1
    BY <1>2, <1>5, FS_AddElement
  <2>2. campaign'.status = "FAILED" <=> campaign'.failures >= FailureLimit
    BY <1>2, <1>5, LimitAssumption
  <2>3. \A u \in Failed' : u \in closed' /\ attempts'[u] = MaxAttempts[u]
    BY <1>3, <1>5
  <2>4. campaign'.failures = Cardinality(Failed')
    BY <1>2, <1>5, <2>1
  <2>. QED BY <1>1, <2>1, <2>2, <2>3, <2>4 DEF AccountInv, FailureAccounting, Failed
<1>. QED BY <1>4, <1>5, FailedStep

(* failure_count counts every trial that used up its attempts once, though *)
(* a stale worker and its successor may both fail it, and the campaign is  *)
(* FAILED exactly when the count has reached the limit.                    *)
THEOREM FailuresAreCountedOnce == Spec => []FailureAccounting
<1>1. Init => AccountInv
  BY InitAccount
<1>2. IInv /\ AccountInv /\ [Next]_vars => AccountInv'
  BY AccountStep
<1>3. AccountInv => FailureAccounting
  BY DEF AccountInv
<1>. QED BY <1>1, <1>2, <1>3, IInvIsInvariant, PTL DEF Spec

-----------------------------------------------------------------------------
(***************************************************************************)
(* Refinement.  Seen through the rows of the trials and the completed      *)
(* stages of the ledger, every step of a worker, the operator or the clock *)
(* is a step of DurableTrial or leaves those rows alone.                   *)
(***************************************************************************)

(* The stages of each trial whose action is complete.                      *)
Done == [t \in Trial |-> {s \in Stage : ledger[t][s].status = "COMPLETED"}]

(* What DurableTrial sees.                                                 *)
rows == <<campaign, state, closed, failure, attempts, Done>>

(* The lifecycle's tables are the same in both modules.                    *)
LEMMA SameTables ==
  /\ Promise!Absent = Absent
  /\ Promise!TerminalStates = TerminalStates
  /\ Promise!ClosingStates = ClosingStates
  /\ \A kind \in Kinds : Promise!StagesOf(kind) = StagesOf(kind)
  /\ \A kind \in Kinds : \A s, feasible :
       Promise!Successor(kind, s, feasible) = Successor(kind, s, feasible)
<1>1. Promise!Absent = Absent /\ Promise!ClosingStates = ClosingStates
  BY DEF Promise!Absent, Absent, Promise!ClosingStates, ClosingStates
<1>2. Promise!TerminalStates = TerminalStates
  BY DEF Promise!TerminalStates, TerminalStates
<1>3. \A kind \in Kinds : Promise!StagesOf(kind) = StagesOf(kind)
  BY DEF Promise!StagesOf, StagesOf, Promise!Stage, Stage, Promise!Health, Health,
     Promise!Tuned, Tuned, Promise!Baseline, Baseline, Promise!Saturation, Saturation
<1>4. \A s : Promise!HealthSuccessor(s) = HealthSuccessor(s)
  BY DEF Promise!HealthSuccessor, HealthSuccessor
<1>5. \A kind, feasible :
        Promise!AfterObservation(kind, feasible) = AfterObservation(kind, feasible)
  BY DEF Promise!AfterObservation, AfterObservation, Promise!Tuned, Tuned,
     Promise!Saturation, Saturation
<1>6. \A kind, s, feasible :
        Promise!BenchmarkSuccessor(kind, s, feasible) =
          BenchmarkSuccessor(kind, s, feasible)
  BY <1>5 DEF Promise!BenchmarkSuccessor, BenchmarkSuccessor,
     Promise!V2Benchmark, V2Benchmark, Promise!Tuned, Tuned, Promise!Baseline, Baseline
<1>7. \A kind \in Kinds : \A s, feasible :
        Promise!Successor(kind, s, feasible) = Successor(kind, s, feasible)
  BY <1>4, <1>6 DEF Promise!Successor, Successor, Promise!Health, Health
<1>. QED BY <1>1, <1>2, <1>3, <1>7

(* The initial state is one of the abstract lifecycle's.                   *)
LEMMA InitPromise == Init => Promise!Init
<1>. SUFFICES ASSUME Init PROVE Promise!Init
  OBVIOUS
<1>1. \A t \in Trial, s \in Stage : ledger[t][s].status # "COMPLETED"
  BY DEF Init, NoEntry
<1>2. [t \in Trial |-> {s \in Stage : ledger[t][s].status = "COMPLETED"}]
        = [t \in Trial |-> {}]
  BY <1>1
<1>. QED BY <1>2, SameTables DEF Promise!Init, Init

(* A step that leaves the rows alone is a stutter of DurableTrial.         *)
LEMMA Stutter ==
  ASSUME UNCHANGED rows
  PROVE  UNCHANGED Promise!vars
BY DEF rows, Done, Promise!vars

(* Pause, resume and stop.                                                 *)
LEMMA SteerStep ==
  ASSUME Pause \/ Resume \/ Stop
  PROVE  Promise!Steer
<1>. USE DEF trialVars
<1>1. UNCHANGED <<state, closed, failure, attempts, ledger>>
  BY DEF Pause, Resume, Stop, Control
<1>2. /\ \E to \in {"RUNNING", "PAUSED", "STOPPED"} :
           campaign' = [campaign EXCEPT !.status = to]
      /\ campaign.status \notin {"STOPPED", "FAILED"}
  BY DEF Pause, Resume, Stop, Control
<1>. QED BY <1>1, <1>2 DEF Promise!Steer

(* A cancellation is a step of the abstract lifecycle.                     *)
LEMMA CancelStep ==
  ASSUME EmergencyStop
  PROVE  Promise!CancelAll
BY SameTables DEF EmergencyStop, OpenTrials, Promise!CancelAll

(* So is the creation of a trial.                                          *)
LEMMA CreateStep ==
  ASSUME LeaseInv, NEW t \in Trial, InsertTrial(t)
  PROVE  Promise!Create(t)
BY SameTables DEF InsertTrial, LeaseInv, LeaseOK, Promise!Create

(* So is a claim.                                                          *)
LEMMA AttemptStep ==
  ASSUME NEW w \in Worker, NEW t \in Trial, Claim(w, t)
  PROVE  Promise!Attempt(t)
<1>1. Claimable(t)
  BY DEF Claim, NextInQueue
<1>2. /\ attempts' = [attempts EXCEPT ![t] = @ + 1]
      /\ UNCHANGED <<campaign, state, closed, failure, ledger>>
  BY DEF Claim, controlVars
<1>. QED BY <1>1, <1>2, SameTables DEF Claimable, Promise!Attempt

(* _record_action_start never touches a completed entry.                   *)
LEMMA StartStutters ==
  ASSUME TypeOK, WorkerInv, NEW w \in Worker, StartAction(w)
  PROVE  UNCHANGED Promise!vars
<1>. DEFINE t == worker[w].trial
            s == worker[w].state
<1>1. t \in Trial /\ s \in Stage
  BY Busy, StageFacts DEF StartAction, WorkerInv, WorkerOK
<1>2. UNCHANGED <<campaign, state, closed, failure, attempts>>
  BY DEF StartAction, controlVars, trialVars
<1>3. \A u \in Trial, r \in Stage :
        ledger'[u][r].status = "COMPLETED" <=> ledger[u][r].status = "COMPLETED"
  <2>1. \/ UNCHANGED ledger
        \/ /\ ledger[t][s].status # "COMPLETED"
           /\ ledger' = [ledger EXCEPT ![t][s] =
                           [status |-> "STARTED", token |-> worker[w].token]]
    BY DEF StartAction, AlreadyDone, Entry
  <2>2. ledger \in [Trial -> [Stage -> LedgerEntry]]
    BY DEF TypeOK
  <2>. QED BY <1>1, <2>1, <2>2
<1>4. UNCHANGED Done
  BY <1>3 DEF Done
<1>. QED BY <1>2, <1>4, Stutter DEF rows

(* _record_action_complete completes one action, also late, after its      *)
(* trial has ended or gone on.                                             *)
LEMMA CompleteStep ==
  ASSUME TypeOK, WorkerInv, NEW w \in Worker, RecordAction(w),
         NEW t \in Trial, t = worker[w].trial
  PROVE  Promise!CompleteAction(t) \/ UNCHANGED Promise!vars
<1>. DEFINE s == worker[w].state
<1>1. /\ Kind[t] \in Kinds
      /\ s \in StagesOf(Kind[t]) /\ s \in Stage
      /\ attempts[t] > 0
  BY Busy, StageFacts DEF RecordAction, WorkerInv, WorkerOK, TypeOK
<1>2. UNCHANGED <<campaign, state, closed, failure, attempts>>
  BY DEF RecordAction, controlVars, trialVars
<1>3. CASE UNCHANGED ledger
  BY <1>2, <1>3, Stutter DEF rows, Done
<1>4. CASE ledger' = [ledger EXCEPT ![t][s].status = "COMPLETED"]
  <2>1. \A u \in Trial, r \in Stage :
          ledger'[u][r].status = "COMPLETED"
            <=> ledger[u][r].status = "COMPLETED" \/ (u = t /\ r = s)
    BY <1>1, <1>4 DEF TypeOK, LedgerEntry
  <2>2. Done' = [Done EXCEPT ![t] = @ \cup {s}]
    <3>1. \A u \in Trial : Done'[u] = IF u = t THEN Done[u] \cup {s} ELSE Done[u]
      BY <1>1, <2>1 DEF Done
    <3>2. Done' = [u \in Trial |-> Done'[u]]
      BY DEF Done
    <3>3. [Done EXCEPT ![t] = @ \cup {s}]
            = [u \in Trial |-> IF u = t THEN Done[u] \cup {s} ELSE Done[u]]
      BY DEF Done
    <3>. QED BY <3>1, <3>2, <3>3
  <2>3. CASE s \in Done[t]
    <3>1. UNCHANGED Done
      BY <2>2, <2>3 DEF Done
    <3>. QED BY <1>2, <3>1, Stutter DEF rows
  <2>4. CASE s \notin Done[t]
    <3>1. s \in Promise!StagesOf(Kind[t]) \ Done[t]
      BY <1>1, <2>4, SameTables
    <3>. QED BY <1>1, <1>2, <2>2, <3>1 DEF Promise!CompleteAction, Done
  <2>. QED BY <2>3, <2>4
<1>. QED BY <1>3, <1>4 DEF RecordAction

(* _advance moves the holder's trial one stage on.                         *)
LEMMA MoveStep ==
  ASSUME IInv, NEW w \in Worker, Advance(w)
  PROVE  \/ \E feasible \in BOOLEAN : Promise!Move(worker[w].trial, feasible)
         \/ UNCHANGED Promise!vars
<1>. DEFINE t == worker[w].trial
            s == worker[w].state
            n == Successor(Kind[t], s, Feasible(t))
<1>. USE DEF IInv
<1>1. UNCHANGED <<campaign, closed, failure, attempts, ledger>>
  BY DEF Advance, controlVars
<1>2. CASE UNCHANGED state
  BY <1>1, <1>2, Stutter DEF rows, Done
<1>3. CASE state' = [state EXCEPT ![t] = n] /\ HoldsLive(w) /\ state[t] = s
  <2>1. /\ t \in Trial /\ Kind[t] \in Kinds
        /\ worker[w].token \in 1 .. attempts[t]
    BY Busy DEF Advance
  <2>a. attempts[t] > 0
    BY <2>1 DEF TypeOK
  <2>b. Feasible(t) \in BOOLEAN
    BY <2>1 DEF Feasible, TypeOK
  <2>2. t \notin closed
    BY <1>3, Holding DEF Advance, HoldsLive
  <2>3. state[t] = "CREATED" \/ (s \in Stage /\ ledger[t][s].status = "COMPLETED")
    BY <1>3, <2>1, StageFacts DEF Advance, WorkerInv, WorkerOK
  <2>4. state[t] = "CREATED" \/ state[t] \in Done[t]
    BY <1>3, <2>1, <2>3 DEF Done
  <2>5. n = Promise!Successor(Kind[t], state[t], Feasible(t))
    BY <1>3, <2>1, SameTables
  <2>6. Promise!Move(t, Feasible(t))
    BY <1>1, <1>3, <2>1, <2>a, <2>2, <2>4, <2>5 DEF Promise!Move, Done
  <2>. QED BY <2>b, <2>6
<1>. QED BY <1>2, <1>3 DEF Advance

(* _complete_trial.                                                        *)
LEMMA FinishStep ==
  ASSUME IInv, NEW w \in Worker, FinishTrial(w)
  PROVE  Promise!Finish(worker[w].trial) \/ UNCHANGED Promise!vars
<1>. DEFINE t == worker[w].trial
<1>. USE DEF IInv
<1>1. UNCHANGED <<campaign, state, failure, attempts, ledger>>
  BY DEF FinishTrial, controlVars
<1>2. CASE UNCHANGED closed
  BY <1>1, <1>2, Stutter DEF rows, Done
<1>3. CASE Holds(w) /\ closed' = closed \cup {t}
  <2>1. t \notin closed /\ state[t] = worker[w].state
    BY <1>3, Holding DEF FinishTrial
  <2>2. worker[w].state \in ClosingStates
    BY DEF FinishTrial, WorkerInv, WorkerOK
  <2>. QED BY <1>1, <1>3, <2>1, <2>2, SameTables DEF Promise!Finish
<1>. QED BY <1>2, <1>3 DEF FinishTrial

(* _fail_trial gives a trial up after its last attempt, and otherwise      *)
(* changes no row DurableTrial knows.                                      *)
LEMMA GiveUpStep ==
  ASSUME IInv, NEW w \in Worker, FailTrial(w)
  PROVE  \/ \E verdict \in TerminalStates :
              Promise!GiveUp(worker[w].trial, verdict)
         \/ UNCHANGED Promise!vars
<1>. DEFINE t == worker[w].trial
            v == worker[w].verdict
<1>. USE DEF IInv
<1>1. UNCHANGED <<attempts, ledger>>
  BY DEF FailTrial
<1>2. CASE UNCHANGED <<campaign, state, closed, failure>>
  BY <1>1, <1>2, Stutter DEF rows, Done
<1>3. CASE /\ Holds(w) /\ LastAttempt(w)
           /\ state' = [state EXCEPT ![t] = v]
           /\ failure' = [failure EXCEPT ![t] = v]
           /\ closed' = closed \cup {t}
           /\ campaign' = [campaign EXCEPT !.failures = campaign.failures + 1,
                !.status = IF campaign.failures + 1 >= FailureLimit
                             THEN "FAILED" ELSE @]
  <2>1. /\ t \in Trial
        /\ v \in TerminalStates
    BY Busy DEF FailTrial, WorkerInv, WorkerOK
  <2>2. t \notin closed /\ state[t] # Absent /\ worker[w].token = attempts[t]
    BY <1>3, Holding DEF FailTrial
  <2>3. attempts[t] = MaxAttempts[t]
    <3>1. attempts[t] >= MaxAttempts[t]
      BY <1>3, <2>2 DEF LastAttempt
    <3>2. attempts[t] <= MaxAttempts[t]
      BY <2>1 DEF LeaseInv, LeaseOK
    <3>. QED BY <2>1, <3>1, <3>2, AttemptsAssumption DEF TypeOK
  <2>4. Promise!GiveUp(t, v)
    BY <1>1, <1>3, <2>2, <2>3, SameTables DEF Promise!GiveUp
  <2>. QED BY <2>1, <2>4
<1>. QED BY <1>2, <1>3 DEF FailTrial

(* Everything else leaves the rows alone.                                  *)
LEMMA PromiseStep ==
  ASSUME IInv, [Next]_vars
  PROVE  [Promise!Next]_(Promise!vars)
<1>. USE DEF IInv
<1>1. CASE UNCHANGED vars
  BY <1>1, Stutter DEF vars, controlVars, trialVars, rows, Done
<1>2. CASE Operator
  <2>1. CASE Pause \/ Resume \/ Stop
    BY <2>1, SteerStep DEF Promise!Next
  <2>2. CASE EmergencyStop
    BY <2>2, CancelStep DEF Promise!Next
  <2>3. ASSUME NEW t \in Trial, AdmitTrial(t)
        PROVE  UNCHANGED Promise!vars
    BY <2>3, Stutter DEF AdmitTrial, trialVars, rows, Done
  <2>4. ASSUME NEW t \in Trial, InsertTrial(t)
        PROVE  Promise!Next
    BY <2>4, CreateStep DEF Promise!Next
  <2>. QED BY <1>2, <2>1, <2>2, <2>3, <2>4 DEF Operator
<1>3. CASE Clock
  BY <1>3, Stutter DEF Clock, LeaseExpires, BackoffEnds, controlVars, rows, Done
<1>4. ASSUME NEW w \in Worker, NEW t \in Trial, Claim(w, t)
      PROVE  Promise!Next
  BY <1>4, AttemptStep DEF Promise!Next
<1>5. ASSUME NEW w \in Worker, Step(w)
      PROVE  [Promise!Next]_(Promise!vars)
  <2>0. worker[w].pc # "idle" => worker[w].trial \in Trial
    BY Busy
  <2>1. CASE StartAction(w)
    BY <2>1, StartStutters
  <2>2. CASE \/ Beat(w) \/ Operate(w) \/ OperateRaises(w) \/ Reapply(w)
             \/ StepRaises(w) \/ HandleError(w)
    <3>1. UNCHANGED <<campaign, state, closed, failure, attempts, ledger>>
      BY <2>2 DEF Beat, Operate, OperateRaises, Reapply, StepRaises, HandleError,
         controlVars, trialVars
    <3>. QED BY <3>1, Stutter DEF rows, Done
  <2>3. CASE RecordAction(w)
    <3>1. PICK t \in Trial : t = worker[w].trial
      BY <2>0, <2>3 DEF RecordAction
    <3>2. Promise!CompleteAction(t) \/ UNCHANGED Promise!vars
      BY <2>3, <3>1, CompleteStep
    <3>3. Promise!CompleteAction(t) => Promise!Next
      BY DEF Promise!Next
    <3>. QED BY <3>2, <3>3
  <2>4. CASE Advance(w)
    BY <2>0, <2>4, MoveStep DEF Advance, Promise!Next
  <2>5. CASE FinishTrial(w)
    BY <2>0, <2>5, FinishStep DEF FinishTrial, Promise!Next
  <2>6. CASE FailTrial(w)
    BY <2>0, <2>6, GiveUpStep, SameTables DEF FailTrial, Promise!Next
  <2>. QED BY <1>5, <2>1, <2>2, <2>3, <2>4, <2>5, <2>6 DEF Step
<1>6. ASSUME NEW w \in Worker, Crash(w)
      PROVE  UNCHANGED Promise!vars
  BY <1>6, Stutter DEF Crash, controlVars, trialVars, rows, Done
<1>. QED BY <1>1, <1>2, <1>3, <1>4, <1>5, <1>6 DEF Next

(* The durable worker keeps the promise of DurableTrial: with any number   *)
(* of workers that crash, lose their leases and finish late, a trial walks *)
(* its workflow one completed stage at a time and ends once.               *)
THEOREM WorkersKeepThePromise == Spec => ImplementsDurableTrial
<1>1. Init => Promise!Init
  BY InitPromise
<1>2. IInv /\ [Next]_vars => [Promise!Next]_(Promise!vars)
  BY PromiseStep
<1>. QED BY <1>1, <1>2, IInvIsInvariant, PTL
     DEF Spec, ImplementsDurableTrial, Promise!Spec
-----------------------------------------------------------------------------
(* The target, for one worker and trials that are tried once.              *)

(* One worker process, and max_attempts = 1, as the campaigns create their *)
(* trials.                                                                 *)
OneWorker == \A v, w \in Worker : v = w
OneAttempt == \A t \in Trial : MaxAttempts[t] = 1

Chain == {"start", "beat", "operate", "record", "advance"}

Restoring == "RESTORING_CANDIDATE_DATASET"
Applying  == "APPLYING_KNOBS"
Verifying == "VERIFYING_ACTIVE_CONFIGURATION"
Measuring == "RUNNING_FULL_EVALUATION"
Selecting == "SELECTING_NEXT_ACTION"

(* The operation of stage r has returned to a worker with local state l.   *)
Returned(l, r) == \/ Rank(r) < Rank(l.state)
                  \/ r = l.state /\ l.pc \in {"record", "advance"}

(* What returned operations say about the settings of the target: a tuned  *)
(* trial that is restored and not yet applied has found the default; one   *)
(* that is verified has its own, until it has put them back.               *)
SettingsOK(t, l) ==
  /\ Kind[t] = Tuned /\ Returned(l, Restoring) /\ ~Returned(l, Applying) =>
       active = Default
  /\ Kind[t] # Health /\ Returned(l, Verifying) /\ ~Returned(l, Selecting) =>
       active = Requested(t)
  /\ Returned(l, Selecting) => active = Default

(* A worker in the chain goes through its trial for the first time: what   *)
(* is done was done by it.                                                 *)
ProgressOK(t, l) ==
  /\ state[t] = l.state \/ (t \in closed /\ state[t] = "CANCELLED")
  /\ \A r \in Stage : ledger[t][r].status = "COMPLETED" => Returned(l, r)
  /\ ~Returned(l, Restoring) => t \notin restored

OnTarget(t, l) ==
  /\ l.pc \notin {"rebeat", "reapply"}
  /\ l.pc \in Chain => ProgressOK(t, l) /\ SettingsOK(t, l)
  /\ l.pc = "finish" => active # t
  /\ l.pc = "fail" => l.verdict \notin ClosingStates

(* A trial nobody has claimed.                                             *)
Untouched(t) ==
  attempts[t] = 0 =>
    /\ t \notin closed => state[t] \in {Absent, "CREATED"}
    /\ t \notin restored
    /\ \A r \in Stage : ledger[t][r].status # "COMPLETED"

(* The target has been left to the default by every trial but one that is  *)
(* at work or was given up, so every snapshot holds the default.           *)
Settings ==
  /\ MeasuredAsRequested /\ FinishedLeavesDefault
  /\ \A t \in Trial : saved[t] = Default
  /\ active # Default => Kind[active] = Tuned

TargetInv ==
  /\ IInv /\ Settings
  /\ \A t \in Trial : Untouched(t)
  /\ \A w \in Worker : OnTarget(worker[w].trial, worker[w])

(* A stage's successor, if it is a stage, comes later.                     *)
LEMMA SuccessorRank ==
  ASSUME NEW kind \in Kinds, NEW s \in {"CREATED"} \cup StagesOf(kind),
         NEW feasible, Successor(kind, s, feasible) \in Stage
  PROVE  Rank(s) < Rank(Successor(kind, s, feasible))
<1>1. CASE kind = Health
  <2>1. s \in {"CREATED", "VERIFYING_DATABASE_HEALTH", "PERSISTING_OBSERVATION"}
    BY <1>1 DEF StagesOf, Health, Baseline, Tuned, Saturation
  <2>2. Successor(kind, s, feasible) = HealthSuccessor(s)
    BY <1>1 DEF Successor
  <2>. QED BY <2>1, <2>2, RankTable DEF HealthSuccessor, Stage
<1>2. CASE kind # Health
  <2>1. Successor(kind, s, feasible) = BenchmarkSuccessor(kind, s, feasible)
    BY <1>2 DEF Successor
  <2>. USE DEF BenchmarkSuccessor, AfterObservation, Kinds, Health, Baseline, Tuned,
               Saturation, V2Benchmark, StagesOf, Stage
  <2>2. CASE s \in {"CREATED", "RESTORING_CANDIDATE_DATASET",
                   "VERIFYING_CANDIDATE_BASELINE", "CAPTURING_WORKLOAD_CONTEXT",
                   "VALIDATING_ACTIONS"}
    BY <2>1, <2>2, RankTable
  <2>3. CASE s \in {"ESTIMATING_STATIC_RISK", "APPLYING_KNOBS",
                   "RELOADING_OR_RESTARTING", "VERIFYING_DATABASE_HEALTH"}
    BY <2>1, <2>3, RankTable
  <2>4. CASE s \in {"VERIFYING_ACTIVE_CONFIGURATION", "WARMING_UP",
                   "RESETTING_OR_SNAPSHOTTING_COUNTERS", "RUNNING_FULL_EVALUATION"}
    BY <2>1, <2>4, RankTable
  <2>5. CASE s \in {"COLLECTING_METRICS", "VALIDATING_MEASUREMENT",
                   "CALCULATING_OBJECTIVES", "CALCULATING_CONSTRAINTS"}
    BY <2>1, <2>5, RankTable
  <2>6. CASE s \in {"PERSISTING_OBSERVATION", "SELECTING_NEXT_ACTION"}
    BY <2>1, <2>6, RankTable
  <2>. QED BY <1>2, <2>2, <2>3, <2>4, <2>5, <2>6
<1>. QED BY <1>1, <1>2

(* A tuned trial ends only after it has put the settings back.             *)
LEMMA TunedEnds ==
  ASSUME NEW s \in {"CREATED"} \cup StagesOf(Tuned), NEW feasible,
         Successor(Tuned, s, feasible) \in ClosingStates
  PROVE  s = Selecting
BY DEF Successor, BenchmarkSuccessor, AfterObservation, Health, Baseline, Tuned,
   Saturation, V2Benchmark, StagesOf, Stage, ClosingStates, Selecting

(* Which kinds have which stages.                                          *)
LEMMA StagesOfKinds ==
  ASSUME NEW kind \in Kinds
  PROVE  /\ Applying \in StagesOf(kind) => kind = Tuned
         /\ Selecting \in StagesOf(kind) => kind = Tuned
         /\ Measuring \in StagesOf(kind) => kind # Health
         /\ Restoring \in StagesOf(Tuned) /\ Applying \in StagesOf(Tuned)
         /\ kind # Health => Verifying \in StagesOf(kind)
BY DEF StagesOf, Stage, Kinds, Health, Baseline, Tuned, Saturation, Applying,
   Selecting, Measuring, Restoring, Verifying

(* The stages of the target are stages, in this order.                     *)
LEMMA TargetStages ==
  /\ {Restoring, Applying, Verifying, Measuring, Selecting} \subseteq Stage
  /\ Rank(Restoring) = 1 /\ Rank(Applying) = 6 /\ Rank(Verifying) = 9
  /\ Rank(Measuring) = 12 /\ Rank(Selecting) = 18
BY RankTable DEF Stage, Restoring, Applying, Verifying, Measuring, Selecting

(* A worker moves to another position and remembers the rest.              *)
LEMMA GotoMoves ==
  ASSUME TypeOK, NEW w \in Worker, NEW pc, Goto(w, pc)
  PROVE  /\ worker'[w].pc = pc
         /\ worker'[w].trial = worker[w].trial
         /\ worker'[w].state = worker[w].state
BY DEF TypeOK, LocalState, Goto

(* What is known of a worker in the chain.                                 *)
LEMMA InChain ==
  ASSUME TargetInv, NEW w \in Worker, worker[w].pc \in Chain
  PROVE  LET t == worker[w].trial
             s == worker[w].state
         IN
         /\ t \in Trial /\ t # Default /\ Kind[t] \in Kinds
         /\ attempts[t] # 0
         /\ s \in {"CREATED"} \cup StagesOf(Kind[t])
         /\ worker[w].pc # "advance" => s \in StagesOf(Kind[t])
         /\ StagesOf(Kind[t]) \subseteq Stage
         /\ s \notin ClosingStates /\ s # Absent
         /\ ProgressOK(t, worker[w]) /\ SettingsOK(t, worker[w])
<1>. DEFINE t == worker[w].trial
            s == worker[w].state
<1>1. worker[w].pc # "idle"
  BY DEF Chain
<1>2. t \in Trial /\ worker[w].token \in 1 .. attempts[t] /\ Kind[t] \in Kinds
  BY <1>1, Busy DEF TargetInv, IInv
<1>3. attempts[t] \in Nat /\ attempts[t] # 0
  BY <1>2 DEF TargetInv, IInv, TypeOK
<1>4. /\ s \in {"CREATED"} \cup StagesOf(Kind[t])
      /\ worker[w].pc # "advance" => s \in StagesOf(Kind[t])
  BY <1>1 DEF TargetInv, IInv, WorkerInv, WorkerOK, Chain
<1>5. OnTarget(t, worker[w])
  BY DEF TargetInv
<1>6. StagesOf(Kind[t]) \subseteq Stage /\ s \notin ClosingStates /\ s # Absent
  BY <1>2, <1>4, StageFacts DEF ClosingStates, Absent
<1>. QED BY <1>2, <1>3, <1>4, <1>5, <1>6, NoneAssumption DEF OnTarget, Default

(* With one worker, the invariant is about what the rows and that worker   *)
(* come to.                                                                *)
LEMMA OneMoves ==
  ASSUME OneWorker, NEW w \in Worker, IInv', Settings',
         \A t \in Trial : Untouched(t)',
         OnTarget(worker[w].trial, worker[w])'
  PROVE  TargetInv'
BY DEF OneWorker, TargetInv

(* The initial state: the default is active.                               *)
LEMMA InitTarget == Init => TargetInv
<1>. SUFFICES ASSUME Init PROVE TargetInv
  OBVIOUS
<1>1. IInv
  BY InitIInv
<1>2. Settings
  BY DEF Init, Settings, MeasuredAsRequested, FinishedLeavesDefault, NoMarker
<1>3. \A t \in Trial : Untouched(t)
  BY DEF Init, Untouched, NoEntry, Absent
<1>4. \A w \in Worker : OnTarget(worker[w].trial, worker[w])
  BY DEF Init, OnTarget, Idle, Chain
<1>. QED BY <1>1, <1>2, <1>3, <1>4 DEF TargetInv

(* The operator and the clock leave worker, ledger and target alone; what  *)
(* an emergency stop ends was open, and ends as CANCELLED.                 *)
LEMMA OutsideKeepsTarget ==
  ASSUME TargetInv, IInv', Operator \/ Clock \/ UNCHANGED vars
  PROVE  TargetInv'
<1>1. UNCHANGED <<attempts, ledger, targetVars, worker>>
  BY DEF Operator, Clock, Pause, Resume, Stop, Control, EmergencyStop, AdmitTrial,
     InsertTrial, LeaseExpires, BackoffEnds, vars, trialVars
<1>2. ASSUME NEW t \in Trial
      PROVE  \/ state'[t] = state[t] /\ (t \in closed' <=> t \in closed)
             \/ state[t] = Absent /\ state'[t] = "CREATED" /\ t \notin closed'
             \/ /\ state[t] # Absent /\ t \notin closed
                /\ state'[t] = "CANCELLED" /\ t \in closed'
  <2>0. t \in arriving => state[t] = Absent /\ t \notin closed
    BY DEF TargetInv, IInv, LeaseInv, LeaseOK
  <2>1. CASE UNCHANGED <<state, closed>>
    BY <2>1
  <2>2. ASSUME NEW u \in Trial, InsertTrial(u)
        PROVE  UNCHANGED closed /\ state'[u] = "CREATED" /\ u \in arriving
               /\ (t # u => state'[t] = state[t])
    BY <2>2 DEF InsertTrial, TargetInv, IInv, TypeOK
  <2>3. CASE EmergencyStop
    BY <2>3 DEF EmergencyStop, OpenTrials
  <2>4. \/ UNCHANGED <<state, closed>>
        \/ EmergencyStop
        \/ \E u \in Trial : InsertTrial(u)
    BY DEF Operator, Clock, Pause, Resume, Stop, Control, AdmitTrial, LeaseExpires,
       BackoffEnds, vars, trialVars
  <2>. QED BY <2>0, <2>1, <2>2, <2>3, <2>4
<1>3. Settings'
  BY <1>1, <1>2 DEF TargetInv, IInv, TypeOK, Settings, MeasuredAsRequested, FinishedLeavesDefault,
     targetVars, ClosingStates
<1>4. ASSUME NEW t \in Trial PROVE Untouched(t)'
  BY <1>1, <1>2 DEF TargetInv, Untouched, targetVars
<1>5. ASSUME NEW w \in Worker PROVE OnTarget(worker[w].trial, worker[w])'
  <2>1. OnTarget(worker[w].trial, worker[w])
    BY DEF TargetInv
  <2>2. CASE worker[w].pc \notin Chain
    BY <1>1, <2>1, <2>2 DEF OnTarget, targetVars
  <2>3. CASE worker[w].pc \in Chain
    <3>1. PICK t \in Trial : t = worker[w].trial
      BY <2>3, InChain
    <3>2. worker[w].state # Absent /\ ProgressOK(t, worker[w]) /\ SettingsOK(t, worker[w])
      BY <2>3, <3>1, InChain
    <3>3. ProgressOK(t, worker[w])'
      BY <1>1, <1>2, <3>2 DEF ProgressOK, Returned, targetVars, Absent
    <3>4. SettingsOK(t, worker[w])'
      BY <1>1, <3>2 DEF SettingsOK, Returned, targetVars
    <3>. QED BY <1>1, <2>1, <3>1, <3>3, <3>4 DEF OnTarget, targetVars
  <2>. QED BY <2>2, <2>3
<1>. QED BY <1>3, <1>4, <1>5 DEF TargetInv

(* A worker without a trial promises nothing.                              *)
LEMMA IdleOnTarget ==
  ASSUME NEW w \in Worker, worker'[w] = Idle
  PROVE  OnTarget(worker[w].trial, worker[w])'
BY DEF OnTarget, Idle, Chain

(* Nor does one in the exception handler.                                  *)
LEMMA HandleOnTarget ==
  ASSUME TypeOK, NEW w \in Worker, Goto(w, "handle")
  PROVE  OnTarget(worker[w].trial, worker[w])'
BY GotoMoves DEF OnTarget, Chain

(* A trial is claimed once, when it has just been created.                 *)
LEMMA ClaimKeepsTarget ==
  ASSUME TargetInv, IInv', OneWorker, OneAttempt,
         NEW w \in Worker, NEW t \in Trial, Claim(w, t)
  PROVE  TargetInv'
<1>0. TypeOK
  BY DEF TargetInv, IInv
<1>1. attempts[t] = 0 /\ t \notin closed /\ state[t] # Absent
  BY <1>0 DEF Claim, NextInQueue, Claimable, OneAttempt, TypeOK
<1>2. state[t] = "CREATED" /\ Untouched(t)
  BY <1>1 DEF TargetInv, Untouched
<1>3. EntryPoint(t, state[t]) = "advance" /\ ~NeedsReapply(t, state[t], 1)
  <2>1. "CREATED" \notin StagesOf(Kind[t]) /\ "CREATED" \notin ClosingStates
    BY KindAssumption, StageFacts DEF ClosingStates
  <2>. QED BY <1>2, <2>1 DEF EntryPoint, NeedsReapply, ReapplyStates
<1>4. UNCHANGED <<state, closed, ledger, targetVars>> /\ attempts' = [attempts EXCEPT ![t] = 1]
  BY <1>1 DEF Claim
<1>5. PICK l : /\ l = [pc |-> "advance", trial |-> t, token |-> 1, state |-> "CREATED",
                       verdict |-> Absent]
               /\ worker'[w] = l
  BY <1>0, <1>1, <1>2, <1>3 DEF Claim, Become, TypeOK
<1>6. \A r \in Stage : Rank(r) \in 1 .. 18 /\ r # "CREATED"
  BY RankOfStage DEF Stage
<1>7. \A r \in Stage : ~Returned(l, r)
  BY <1>5, <1>6, RankTable DEF Returned
<1>8. ProgressOK(t, l)'
  BY <1>1, <1>2, <1>4, <1>5 DEF ProgressOK, Untouched, targetVars
<1>9. SettingsOK(t, l)
  BY <1>7, TargetStages DEF SettingsOK
<1>10. SettingsOK(t, l)'
  BY <1>4, <1>9 DEF SettingsOK, Returned, targetVars
<1>11. OnTarget(worker[w].trial, worker[w])'
  BY <1>5, <1>8, <1>10 DEF OnTarget
<1>12. Settings'
  BY <1>4 DEF TargetInv, Settings, MeasuredAsRequested, FinishedLeavesDefault, targetVars
<1>13. \A u \in Trial : Untouched(u)'
  BY <1>0, <1>4 DEF TargetInv, Untouched, targetVars, TypeOK
<1>. QED BY <1>11, <1>12, <1>13, OneMoves

(* A worker that fails or dies leaves it, ...                              *)
LEMMA QuietKeepsTarget ==
  ASSUME TargetInv, IInv', OneWorker, NEW w \in Worker,
         UNCHANGED <<state, closed, attempts, ledger, targetVars>>,
         OnTarget(worker[w].trial, worker[w])'
  PROVE  TargetInv'
<1>1. Settings'
  BY DEF TargetInv, Settings, MeasuredAsRequested, FinishedLeavesDefault, targetVars
<1>2. \A u \in Trial : Untouched(u)'
  BY DEF TargetInv, Untouched, targetVars
<1>. QED BY <1>1, <1>2, OneMoves

(* The ledger entry of a stage is taken over, never that of a stage the    *)
(* worker has behind it: in its first attempt nothing was done before.     *)
LEMMA StartKeepsTarget ==
  ASSUME TargetInv, IInv', OneWorker, NEW w \in Worker, StartAction(w)
  PROVE  TargetInv'
<1>t. PICK t : t = worker[w].trial
  OBVIOUS
<1>s. PICK s : s = worker[w].state
  OBVIOUS
<1>l. PICK l : l = worker'[w]
  OBVIOUS
<1>0. TypeOK /\ LedgerType /\ worker[w].pc = "start"
  BY DEF TargetInv, IInv, TypeOK, LedgerType, StartAction
<1>1. /\ t \in Trial /\ attempts[t] # 0 /\ s \in Stage
      /\ ProgressOK(t, worker[w]) /\ SettingsOK(t, worker[w])
  BY <1>0, <1>t, <1>s, InChain DEF Chain
<1>2. Rank(s) \in 1 .. 18
  BY <1>1, RankOfStage
<1>3. ~AlreadyDone(w)
  BY <1>0, <1>t, <1>s, <1>1, <1>2 DEF ProgressOK, Returned, AlreadyDone, Entry
<1>4. PICK pc \in {"operate", "beat"} : Goto(w, pc)
  BY <1>3 DEF StartAction
<1>5. PICK e : /\ e.status = "STARTED"
               /\ ledger' = [ledger EXCEPT ![t][s] = e]
  BY <1>t, <1>s, <1>3 DEF StartAction
<1>6. ASSUME NEW u \in Trial, NEW r \in Stage, ledger'[u][r].status = "COMPLETED"
      PROVE  ledger[u][r].status = "COMPLETED"
  BY <1>0, <1>1, <1>5, <1>6 DEF LedgerType
<1>7. UNCHANGED <<state, closed, attempts, targetVars>>
  BY DEF StartAction, trialVars
<1>8. /\ l.pc = pc /\ l.trial = t /\ l.state = s
  BY <1>0, <1>t, <1>s, <1>l, <1>4, GotoMoves
<1>9. \A r \in Stage : Returned(l, r) <=> Returned(worker[w], r)
  BY <1>0, <1>s, <1>4, <1>8 DEF Returned
<1>10. ProgressOK(t, l)'
  BY <1>1, <1>6, <1>7, <1>s, <1>8, <1>9, TargetStages DEF ProgressOK, Returned, targetVars
<1>11. SettingsOK(t, l)'
  BY <1>1, <1>7, <1>9, TargetStages DEF SettingsOK, Returned, targetVars
<1>12. OnTarget(worker[w].trial, worker[w])'
  BY <1>l, <1>4, <1>8, <1>10, <1>11 DEF OnTarget
<1>13. Settings'
  BY <1>7 DEF TargetInv, Settings, MeasuredAsRequested, FinishedLeavesDefault, targetVars
<1>14. \A u \in Trial : Untouched(u)'
  BY <1>6, <1>7 DEF TargetInv, Untouched, targetVars
<1>. QED BY <1>12, <1>13, <1>14, OneMoves

(* A worker on the same stage, as far as before, and nothing changes.      *)
LEMMA SameStage ==
  ASSUME TargetInv, NEW w \in Worker, worker[w].pc \in Chain, NEW pc \in Chain, Goto(w, pc),
         (pc \in {"record", "advance"}) <=> (worker[w].pc \in {"record", "advance"}),
         UNCHANGED <<state, closed, ledger, targetVars>>
  PROVE  OnTarget(worker[w].trial, worker[w])'
<1>t. PICK t : t = worker[w].trial
  OBVIOUS
<1>l. PICK l : l = worker'[w]
  OBVIOUS
<1>1. ProgressOK(t, worker[w]) /\ SettingsOK(t, worker[w])
  BY <1>t, InChain
<1>2. TypeOK
  BY DEF TargetInv, IInv
<1>3. /\ l.pc = pc /\ l.trial = t
      /\ l.state = worker[w].state
  BY <1>t, <1>l, <1>2, GotoMoves
<1>4. \A r \in Stage : Returned(l, r) <=> Returned(worker[w], r)
  BY <1>3 DEF Returned
<1>5. ProgressOK(t, l)'
  BY <1>1, <1>3, <1>4, TargetStages DEF ProgressOK, Returned, targetVars
<1>6. SettingsOK(t, l)'
  BY <1>1, <1>4, TargetStages DEF SettingsOK, Returned, targetVars
<1>. QED BY <1>l, <1>3, <1>5, <1>6 DEF OnTarget, Chain

(* The heartbeat.                                                          *)
LEMMA BeatKeepsTarget ==
  ASSUME TargetInv, IInv', OneWorker, NEW w \in Worker, Beat(w)
  PROVE  TargetInv'
<1>1. UNCHANGED <<state, closed, attempts, ledger, targetVars>>
  BY DEF Beat, trialVars
<1>2. TypeOK /\ worker[w].pc = "beat"
  BY DEF TargetInv, IInv, OnTarget, Beat
<1>3. CASE Goto(w, "handle")
  BY <1>1, <1>2, <1>3, HandleOnTarget, QuietKeepsTarget
<1>4. CASE Goto(w, "operate")
  <2>1. OnTarget(worker[w].trial, worker[w])'
    BY <1>1, <1>2, <1>4, SameStage DEF Chain
  <2>. QED BY <1>1, <2>1, QuietKeepsTarget
<1>. QED BY <1>2, <1>3, <1>4 DEF Beat

(* The result of a stage is recorded after its operation has returned.     *)
LEMMA RecordKeepsTarget ==
  ASSUME TargetInv, IInv', OneWorker, NEW w \in Worker, RecordAction(w)
  PROVE  TargetInv'
<1>t. PICK t : t = worker[w].trial
  OBVIOUS
<1>s. PICK s : s = worker[w].state
  OBVIOUS
<1>l. PICK l : l = worker'[w]
  OBVIOUS
<1>0. TypeOK /\ LedgerType /\ worker[w].pc = "record"
  BY DEF TargetInv, IInv, TypeOK, LedgerType, RecordAction
<1>1. UNCHANGED <<state, closed, attempts, targetVars>>
  BY DEF RecordAction, trialVars
<1>2. CASE Goto(w, "handle") /\ UNCHANGED ledger
  BY <1>0, <1>1, <1>2, HandleOnTarget, QuietKeepsTarget
<1>3. CASE Goto(w, "advance") /\ ledger' = [ledger EXCEPT ![t][s].status = "COMPLETED"]
  <2>1. /\ t \in Trial /\ attempts[t] # 0 /\ s \in Stage
        /\ ProgressOK(t, worker[w]) /\ SettingsOK(t, worker[w])
    BY <1>0, <1>t, <1>s, InChain DEF Chain
  <2>2. ASSUME NEW u \in Trial, NEW r \in Stage, u # t \/ r # s
        PROVE  ledger'[u][r] = ledger[u][r]
    BY <1>0, <1>3, <2>1, <2>2 DEF LedgerType
  <2>3. /\ l.pc = "advance" /\ l.trial = t /\ l.state = s
    BY <1>0, <1>t, <1>s, <1>l, <1>3, GotoMoves
  <2>4. \A r \in Stage : Returned(l, r) <=> Returned(worker[w], r)
    BY <1>0, <1>s, <2>3 DEF Returned
  <2>5. Returned(worker[w], s)
    BY <1>0, <1>s DEF Returned
  <2>6. ProgressOK(t, l)'
    BY <1>1, <1>s, <2>1, <2>2, <2>3, <2>4, <2>5, TargetStages DEF ProgressOK, Returned, targetVars
  <2>7. SettingsOK(t, l)'
    BY <1>1, <2>1, <2>4, TargetStages DEF SettingsOK, Returned, targetVars
  <2>8. OnTarget(worker[w].trial, worker[w])'
    BY <1>l, <2>3, <2>6, <2>7 DEF OnTarget
  <2>9. Settings'
    BY <1>1 DEF TargetInv, Settings, MeasuredAsRequested, FinishedLeavesDefault, targetVars
  <2>10. \A u \in Trial : Untouched(u)'
    BY <1>1, <2>1, <2>2 DEF TargetInv, Untouched, targetVars
  <2>. QED BY <2>8, <2>9, <2>10, OneMoves
<1>. QED BY <1>t, <1>s, <1>2, <1>3 DEF RecordAction

(* A snapshot taken while the default is active is one of the default.     *)
LEMMA SnapshotDefault ==
  ASSUME TypeOK, NEW t \in Trial, active = Default \/ UNCHANGED saved, Snapshot(t),
         \A u \in Trial : saved[u] = Default
  PROVE  \A u \in Trial : saved'[u] = Default
BY DEF Snapshot, TypeOK

(* What is so when a worker is about to run the operation of a stage.      *)
LEMMA Operating ==
  ASSUME TargetInv, NEW w \in Worker, worker[w].pc = "operate",
         NEW t, t = worker[w].trial, NEW s, s = worker[w].state
  PROVE  /\ t \in Trial /\ t # Default /\ attempts[t] # 0
         /\ s \in Stage /\ s \in StagesOf(Kind[t]) /\ Kind[t] \in Kinds
         /\ ~(t \in closed /\ state[t] \in ClosingStates)
         /\ s = Applying => Kind[t] = Tuned /\ active = Default
         /\ s = Restoring => t \notin restored
         /\ s = Measuring => active = Requested(t)
         /\ s = Selecting => Kind[t] # Health
         /\ s = Verifying /\ Kind[t] = Health => FALSE
<1>1. /\ t \in Trial /\ t # Default /\ attempts[t] # 0 /\ Kind[t] \in Kinds
      /\ s \in StagesOf(Kind[t]) /\ s \in Stage /\ s \notin ClosingStates
      /\ ProgressOK(t, worker[w]) /\ SettingsOK(t, worker[w])
  BY InChain DEF Chain
<1>2. \A r \in Stage : Returned(worker[w], r) <=> Rank(r) < Rank(s)
  BY DEF Returned
<1>3. ~(t \in closed /\ state[t] \in ClosingStates)
  BY <1>1 DEF ProgressOK, ClosingStates
<1>4. s = Applying => Kind[t] = Tuned /\ active = Default
  BY <1>1, <1>2, StagesOfKinds, TargetStages DEF SettingsOK
<1>5. s = Restoring => t \notin restored
  BY <1>1, <1>2, TargetStages DEF ProgressOK
<1>6. s = Measuring => active = Requested(t)
  BY <1>1, <1>2, StagesOfKinds, TargetStages DEF SettingsOK
<1>7. s = Selecting => Kind[t] # Health
  BY <1>1, StagesOfKinds DEF Tuned, Health
<1>8. s = Verifying /\ Kind[t] = Health => FALSE
  BY <1>1 DEF StagesOf, Health, Baseline, Tuned, Saturation, Verifying
<1>. QED BY <1>1, <1>3, <1>4, <1>5, <1>6, <1>7, <1>8

(* The settings after an operation: those of the trial only if it applied  *)
(* them just now, the default if it put them back.                         *)
LEMMA OperationActive ==
  ASSUME TargetInv, NEW w \in Worker, worker[w].pc = "operate",
         NEW t, t = worker[w].trial, NEW s, s = worker[w].state,
         Kind[t] # Health => CanReturn(t, s), ConfigurationEffect(t, s)
  PROVE  /\ \A u \in Trial : saved'[u] = Default
         /\ s = Applying => active' = t
         /\ s = Selecting => active' = Default
         /\ s \notin {Applying, Selecting} => active' = active
<1>1. TypeOK /\ t \in Trial /\ \A u \in Trial : saved[u] = Default
  BY Operating DEF TargetInv, IInv, Settings
<1>2. CASE s = Applying
  <2>1. Apply(t)
    BY <1>2 DEF ConfigurationEffect, Applying
  <2>. QED BY <1>1, <1>2, <2>1, Operating, SnapshotDefault DEF Apply, Applying, Selecting
<1>3. CASE s = Selecting
  <2>1. Rollback(t) /\ applied[t] # "ABSENT"
    BY <1>3, Operating DEF ConfigurationEffect, CanReturn, Selecting
  <2>. QED BY <1>1, <1>3, <2>1 DEF Rollback, Applying, Selecting
<1>4. CASE s \notin {Applying, Selecting}
  BY <1>1, <1>4 DEF ConfigurationEffect, Applying, Selecting
<1>. QED BY <1>2, <1>3, <1>4

(* New settings are the default or those of a tuned trial that has not     *)
(* ended.                                                                  *)
LEMMA SettingsChange ==
  ASSUME TargetInv, UNCHANGED <<state, closed>>, NEW t \in Trial,
         ~(t \in closed /\ state[t] \in ClosingStates),
         active' \in {active, Default} \/ (active' = t /\ Kind[t] = Tuned),
         \A u \in Trial : saved'[u] = Default,
         MeasuredAsRequested'
  PROVE  Settings'
<1>1. Settings /\ closed \subseteq Trial
  BY DEF TargetInv, IInv, TypeOK
<1>2. ASSUME NEW u \in closed', state'[u] \in ClosingStates PROVE active' # u
  <2>1. u \in Trial /\ u # Default /\ active # u
    BY <1>1, <1>2, NoneAssumption DEF Settings, FinishedLeavesDefault, Default
  <2>. QED BY <1>2, <2>1
<1>3. active' # Default => Kind[active'] = Tuned
  BY <1>1 DEF Settings
<1>. QED BY <1>2, <1>3 DEF Settings, FinishedLeavesDefault

(* A measurement is taken under what is active.                            *)
LEMMA MeasureKeeps ==
  ASSUME TargetInv, NEW t \in Trial, NEW s, MeasureEffect(t, s),
         s = Measuring => active = Requested(t)
  PROVE  MeasuredAsRequested'
<1>1. MarkerType /\ MeasuredAsRequested
  BY DEF TargetInv, IInv, TypeOK, MarkerType, Settings
<1>2. CASE UNCHANGED marker
  BY <1>1, <1>2 DEF MeasuredAsRequested
<1>3. ASSUME s = Measuring, NEW feasible \in BOOLEAN,
             marker' = [marker EXCEPT ![t] =
               [settings |-> active, feasible |-> feasible, taken |-> TRUE]]
      PROVE  MeasuredAsRequested'
  BY <1>1, <1>3 DEF MeasuredAsRequested, MarkerType
<1>. QED BY <1>2, <1>3 DEF MeasureEffect, Measuring

(* An operation that returned: what the worker and the target now agree    *)
(* on.                                                                     *)
LEMMA OperateKeepsTarget ==
  ASSUME TargetInv, IInv', OneWorker, NEW w \in Worker, Operate(w)
  PROVE  TargetInv'
<1>t. PICK t : t = worker[w].trial
  OBVIOUS
<1>s. PICK s : s = worker[w].state
  OBVIOUS
<1>l. PICK l : l = worker'[w]
  OBVIOUS
<1>0. TypeOK /\ worker[w].pc = "operate" /\ Goto(w, "record")
  BY DEF TargetInv, IInv, Operate
<1>1. /\ Kind[t] # Health => CanReturn(t, s)
      /\ RestoreEffect(t, s) /\ MeasureEffect(t, s) /\ ConfigurationEffect(t, s)
      /\ UNCHANGED <<state, closed, attempts, ledger>>
  BY <1>t, <1>s DEF Operate, trialVars
<1>2. /\ t \in Trial /\ t # Default /\ attempts[t] # 0
      /\ s \in Stage /\ s \in StagesOf(Kind[t]) /\ Kind[t] \in Kinds
      /\ ~(t \in closed /\ state[t] \in ClosingStates)
      /\ s = Applying => Kind[t] = Tuned /\ active = Default
      /\ s = Restoring => t \notin restored
      /\ s = Measuring => active = Requested(t)
      /\ s = Verifying => Kind[t] # Health
  BY <1>0, <1>t, <1>s, Operating
<1>3. /\ \A u \in Trial : saved'[u] = Default
      /\ s = Applying => active' = t
      /\ s = Selecting => active' = Default
      /\ s \notin {Applying, Selecting} => active' = active
  BY <1>0, <1>t, <1>s, <1>1, OperationActive
<1>4. Settings'
  BY <1>1, <1>2, <1>3, MeasureKeeps, SettingsChange
<1>5. \A u \in Trial : Untouched(u)'
  BY <1>1, <1>2 DEF TargetInv, Untouched, RestoreEffect
<1>6. ProgressOK(t, worker[w]) /\ SettingsOK(t, worker[w])
  BY <1>0, <1>t, InChain DEF Chain
<1>7. l.pc = "record" /\ l.trial = t /\ l.state = s
  BY <1>0, <1>t, <1>s, <1>l, GotoMoves
<1>8. /\ \A r \in Stage : Returned(worker[w], r) <=> Rank(r) < Rank(s)
      /\ \A r \in Stage : Returned(l, r) <=> Rank(r) < Rank(s) \/ r = s
  BY <1>0, <1>s, <1>7 DEF Returned
<1>9. ProgressOK(t, l)'
  <2>1. ~Returned(l, Restoring) => t \notin restored'
    BY <1>1, <1>6, <1>8, TargetStages DEF ProgressOK, RestoreEffect, Restoring
  <2>2. \A r \in Stage : ledger'[t][r].status = "COMPLETED" => Returned(l, r)
    BY <1>1, <1>6, <1>8 DEF ProgressOK
  <2>. QED BY <1>1, <1>s, <1>6, <1>7, <2>1, <2>2 DEF ProgressOK, Returned
<1>10. SettingsOK(t, l)'
  <2>1. Kind[t] = Tuned /\ Returned(l, Restoring) /\ ~Returned(l, Applying) => active' = Default
    <3>1. CASE s = Restoring
      <4>1. Kind[t] = Tuned => active = Default
        BY <1>1, <1>2, <3>1 DEF CanReturn, Restoring, Health, Tuned
      <4>. QED BY <1>3, <3>1, <4>1 DEF Restoring, Applying, Selecting
    <3>2. CASE s # Restoring
      BY <1>3, <1>6, <1>8, <3>2, TargetStages DEF SettingsOK
    <3>. QED BY <3>1, <3>2
  <2>2. Kind[t] # Health /\ Returned(l, Verifying) /\ ~Returned(l, Selecting) =>
          active' = Requested(t)
    <3>1. CASE s = Verifying
      <4>1. active = Requested(t)
        BY <1>1, <1>2, <3>1 DEF CanReturn, Verifying
      <4>. QED BY <1>3, <3>1, <4>1 DEF Verifying, Applying, Selecting
    <3>2. CASE s # Verifying
      BY <1>3, <1>6, <1>8, <3>2, TargetStages DEF SettingsOK
    <3>. QED BY <3>1, <3>2
  <2>3. Returned(l, Selecting) => active' = Default
    <3>1. Rank(s) \in 1 .. 18
      BY <1>2, RankOfStage
    <3>. QED BY <1>3, <1>8, <3>1, TargetStages
  <2>. QED BY <2>1, <2>2, <2>3 DEF SettingsOK, Returned
<1>11. OnTarget(worker[w].trial, worker[w])'
  BY <1>l, <1>7, <1>9, <1>10 DEF OnTarget
<1>. QED BY <1>4, <1>5, <1>11, OneMoves

(* The settings after an apply that returned or raised, on a target that   *)
(* had the default.                                                        *)
LEMMA ApplySettings ==
  ASSUME TargetInv, NEW t \in Trial, active = Default, Apply(t) \/ ApplyRaises(t)
  PROVE  /\ \A u \in Trial : saved'[u] = Default
         /\ active' \in {Default, t}
<1>1. TypeOK /\ \A u \in Trial : saved[u] = Default
  BY DEF TargetInv, IInv, Settings
<1>2. CASE UNCHANGED <<saved, active, applied>>
  BY <1>1, <1>2
<1>3. CASE Snapshot(t) /\ active' \in {active, t, saved'[t]}
  BY <1>1, <1>3, SnapshotDefault
<1>. QED BY <1>2, <1>3 DEF Apply, ApplyRaises

(* An operation that raised has changed no more than one that returned.    *)
LEMMA RaisesKeepsTarget ==
  ASSUME TargetInv, IInv', OneWorker, NEW w \in Worker, OperateRaises(w)
  PROVE  TargetInv'
<1>t. PICK t : t = worker[w].trial
  OBVIOUS
<1>s. PICK s : s = worker[w].state
  OBVIOUS
<1>0. /\ TypeOK /\ worker[w].pc = "operate" /\ Goto(w, "handle")
      /\ UNCHANGED <<state, closed, attempts, ledger>>
      /\ MeasuredAsRequested /\ \A u \in Trial : saved[u] = Default
  BY DEF TargetInv, IInv, OperateRaises, trialVars, Settings
<1>1. \/ UNCHANGED targetVars
      \/ s = Applying /\ ApplyRaises(t) /\ UNCHANGED <<restored, marker>>
      \/ /\ Kind[t] # Health => CanReturn(t, s)
         /\ RestoreEffect(t, s) /\ MeasureEffect(t, s) /\ ConfigurationEffect(t, s)
  BY <1>t, <1>s DEF OperateRaises, Applying
<1>2. /\ t \in Trial /\ attempts[t] # 0
      /\ ~(t \in closed /\ state[t] \in ClosingStates)
      /\ s = Applying => Kind[t] = Tuned /\ active = Default
      /\ s = Measuring => active = Requested(t)
  BY <1>0, <1>t, <1>s, Operating
<1>3. OnTarget(worker[w].trial, worker[w])'
  BY <1>0, HandleOnTarget
<1>4. CASE UNCHANGED targetVars
  BY <1>0, <1>3, <1>4, QuietKeepsTarget
<1>5. CASE s = Applying /\ ApplyRaises(t) /\ UNCHANGED <<restored, marker>>
  <2>1. MeasuredAsRequested'
    BY <1>0, <1>5 DEF MeasuredAsRequested
  <2>2. Settings'
    BY <1>0, <1>2, <1>5, <2>1, ApplySettings, SettingsChange
  <2>3. \A u \in Trial : Untouched(u)'
    BY <1>0, <1>5 DEF TargetInv, Untouched
  <2>. QED BY <1>3, <2>2, <2>3, OneMoves
<1>6. CASE /\ Kind[t] # Health => CanReturn(t, s)
           /\ RestoreEffect(t, s) /\ MeasureEffect(t, s) /\ ConfigurationEffect(t, s)
  <2>1. /\ \A u \in Trial : saved'[u] = Default
        /\ s = Applying => active' = t
        /\ s = Selecting => active' = Default
        /\ s \notin {Applying, Selecting} => active' = active
    BY <1>0, <1>t, <1>s, <1>6, OperationActive
  <2>2. Settings'
    BY <1>0, <1>2, <1>6, <2>1, MeasureKeeps, SettingsChange
  <2>3. \A u \in Trial : Untouched(u)'
    BY <1>0, <1>2, <1>6 DEF TargetInv, Untouched, RestoreEffect
  <2>. QED BY <1>3, <2>2, <2>3, OneMoves
<1>. QED BY <1>1, <1>4, <1>5, <1>6

(* A state advances after its stage: what has returned stays returned, and *)
(* what the trial relies on next is the same.                              *)
LEMMA AdvanceKeepsTarget ==
  ASSUME TargetInv, IInv', OneWorker, NEW w \in Worker, Advance(w)
  PROVE  TargetInv'
<1>t. PICK t : t = worker[w].trial
  OBVIOUS
<1>s. PICK s : s = worker[w].state
  OBVIOUS
<1>n. PICK n : n = Successor(Kind[t], s, Feasible(t))
  OBVIOUS
<1>l. PICK l : l = worker'[w]
  OBVIOUS
<1>0. /\ TypeOK /\ worker \in [Worker -> LocalState] /\ worker[w].pc = "advance"
      /\ UNCHANGED <<closed, attempts, ledger, targetVars>>
  BY DEF TargetInv, IInv, TypeOK, Advance
<1>1. /\ t \in Trial /\ t # Default /\ attempts[t] # 0 /\ Kind[t] \in Kinds
      /\ s \in {"CREATED"} \cup StagesOf(Kind[t]) /\ StagesOf(Kind[t]) \subseteq Stage
      /\ ProgressOK(t, worker[w]) /\ SettingsOK(t, worker[w])
  BY <1>0, <1>t, <1>s, InChain DEF Chain
<1>2. CASE Goto(w, "handle") /\ UNCHANGED state
  BY <1>0, <1>2, HandleOnTarget, QuietKeepsTarget
<1>3. CASE /\ Holds(w) /\ state[t] = s /\ state' = [state EXCEPT ![t] = n]
           /\ Become(w, [worker[w] EXCEPT !.state = n,
                !.pc = IF n = "COMPLETED" THEN "finish" ELSE EntryPoint(t, n)])
  <2>1. PICK pc : pc = IF n = "COMPLETED" THEN "finish" ELSE EntryPoint(t, n)
    OBVIOUS
  <2>2. t \notin closed
    BY <1>0, <1>t, <1>3, Holding DEF TargetInv, IInv
  <2>3. \/ pc = "idle" /\ l = Idle
        \/ pc # "idle" /\ l.pc = pc /\ l.trial = t /\ l.state = n
    BY <1>0, <1>t, <1>l, <1>3, <2>1 DEF Become, LocalState
  <2>4. /\ pc \in {"idle", "start", "finish"}
        /\ pc = "start" => n \in StagesOf(Kind[t])
        /\ pc = "finish" => n \in ClosingStates
    BY <1>n, <1>1, <2>1, EntryPointFacts, SuccessorType DEF ClosingStates
  <2>5. Settings'
    BY <1>0, <1>3, <2>2 DEF TargetInv, IInv, TypeOK, Settings, MeasuredAsRequested,
       FinishedLeavesDefault, targetVars
  <2>6. \A u \in Trial : Untouched(u)'
    BY <1>0, <1>1, <1>3 DEF TargetInv, Untouched, targetVars, TypeOK
  <2>7. CASE pc = "idle"
    <3>1. OnTarget(worker[w].trial, worker[w])'
      BY <1>l, <2>3, <2>7, IdleOnTarget
    <3>. QED BY <2>5, <2>6, <3>1, OneMoves
  <2>8. CASE pc = "finish"
    <3>1. active # t
      <4>1. CASE Kind[t] = Tuned
        <5>1. s = Selecting
          BY <1>n, <1>1, <2>4, <2>8, <4>1, TunedEnds
        <5>2. active = Default
          BY <1>0, <1>s, <1>1, <5>1 DEF SettingsOK, Returned
        <5>. QED BY <1>1, <5>2
      <4>2. CASE Kind[t] # Tuned
        BY <1>1, <4>2 DEF TargetInv, Settings
      <4>. QED BY <4>1, <4>2
    <3>2. OnTarget(worker[w].trial, worker[w])'
      BY <1>0, <1>l, <2>3, <2>8, <3>1 DEF OnTarget, Chain, targetVars
    <3>. QED BY <2>5, <2>6, <3>2, OneMoves
  <2>9. CASE pc = "start"
    <3>1. n \in StagesOf(Kind[t]) /\ n \in Stage /\ Rank(n) \in 1 .. 18 /\ Rank(s) < Rank(n)
          /\ Rank(s) \in 0 .. 18
      BY <1>n, <1>1, <2>4, <2>9, SuccessorRank, RankOfStage, RankTable
    <3>2. /\ \A r \in Stage : Returned(worker[w], r) => Rank(r) <= Rank(s)
          /\ \A r \in Stage : Returned(worker[w], r) <=> Rank(r) < Rank(s) \/ r = s
          /\ \A r \in Stage : Returned(l, r) <=> Rank(r) < Rank(n)
      BY <1>0, <1>s, <2>3, <2>9, <3>1, RankOfStage DEF Returned
    <3>3. \A r \in Stage : Returned(worker[w], r) => Returned(l, r)
      BY <3>1, <3>2, RankOfStage
    <3>4. ASSUME Kind[t] # Health, NEW r \in StagesOf(Kind[t]), Returned(l, r)
          PROVE  Returned(worker[w], r)
      <4>1. Rank(r) <= Rank(s)
        BY <1>n, <1>1, <3>1, <3>2, <3>4, BenchmarkRank DEF Successor
      <4>2. Rank(r) \in 1 .. 18 /\ s \in Stage
        BY <1>1, <3>4, <4>1, RankOfStage, RankTable
      <4>. QED BY <1>1, <3>2, <3>4, <4>1, <4>2, RankOfStage
    <3>5. ProgressOK(t, l)'
      <4>1. \A r \in Stage : ledger'[t][r].status = "COMPLETED" => Returned(l, r)
        BY <1>0, <1>1, <3>3 DEF ProgressOK
      <4>2. ~Returned(l, Restoring) => t \notin restored'
        BY <1>0, <1>1, <3>3, TargetStages DEF ProgressOK, targetVars
      <4>3. state'[t] = l.state
        BY <1>0, <1>1, <1>3, <2>3, <2>9 DEF TypeOK
      <4>. QED BY <4>1, <4>2, <4>3 DEF ProgressOK, Returned
    <3>6. SettingsOK(t, l)'
      <4>1. Kind[t] = Tuned /\ Returned(l, Restoring) /\ ~Returned(l, Applying) => active = Default
        BY <1>1, <3>3, <3>4, StagesOfKinds, TargetStages DEF SettingsOK, Tuned, Health
      <4>2. Kind[t] # Health /\ Returned(l, Verifying) /\ ~Returned(l, Selecting) =>
              active = Requested(t)
        BY <1>1, <3>3, <3>4, StagesOfKinds, TargetStages DEF SettingsOK
      <4>3. ~Returned(l, Selecting)
        BY <3>1, <3>2, TargetStages
      <4>. QED BY <1>0, <4>1, <4>2, <4>3 DEF SettingsOK, Returned, targetVars
    <3>7. OnTarget(worker[w].trial, worker[w])'
      BY <1>l, <2>3, <2>9, <3>5, <3>6 DEF OnTarget
    <3>. QED BY <2>5, <2>6, <3>7, OneMoves
  <2>. QED BY <2>4, <2>7, <2>8, <2>9
<1>. QED BY <1>t, <1>s, <1>n, <1>2, <1>3 DEF Advance, HoldsLive

(* A trial that finishes is not the one whose settings are active.         *)
LEMMA FinishKeepsTarget ==
  ASSUME TargetInv, IInv', OneWorker, NEW w \in Worker, FinishTrial(w)
  PROVE  TargetInv'
<1>0. /\ TypeOK /\ worker[w].pc = "finish"
      /\ UNCHANGED <<state, attempts, ledger, targetVars>>
  BY DEF TargetInv, IInv, FinishTrial
<1>1. CASE Goto(w, "handle") /\ UNCHANGED closed
  BY <1>0, <1>1, HandleOnTarget, QuietKeepsTarget
<1>2. CASE closed' = closed \cup {worker[w].trial} /\ worker' = [worker EXCEPT ![w] = Idle]
  <2>1. active # worker[w].trial /\ attempts[worker[w].trial] # 0
    <3>1. worker[w].trial \in Trial /\ worker[w].token \in 1 .. attempts[worker[w].trial]
      BY <1>0, Busy DEF TargetInv, IInv
    <3>2. attempts[worker[w].trial] \in Nat
      BY <1>0, <3>1 DEF TypeOK
    <3>3. OnTarget(worker[w].trial, worker[w])
      BY DEF TargetInv
    <3>. QED BY <1>0, <3>1, <3>2, <3>3 DEF OnTarget
  <2>2. OnTarget(worker[w].trial, worker[w])'
    BY <1>0, <1>2, IdleOnTarget DEF TypeOK
  <2>3. Settings'
    BY <1>0, <1>2, <2>1 DEF TargetInv, Settings, MeasuredAsRequested,
       FinishedLeavesDefault, targetVars
  <2>4. \A u \in Trial : Untouched(u)'
    BY <1>0, <1>2, <2>1 DEF TargetInv, Untouched, targetVars
  <2>. QED BY <2>2, <2>3, <2>4, OneMoves
<1>. QED BY <1>1, <1>2 DEF FinishTrial

(* The handler puts the settings back, or leaves them, and files a failure *)
(* under no state in which a trial ends by itself.                         *)
LEMMA HandleKeepsTarget ==
  ASSUME TargetInv, IInv', OneWorker, NEW w \in Worker, HandleError(w)
  PROVE  TargetInv'
<1>t. PICK t : t = worker[w].trial
  OBVIOUS
<1>0. /\ TypeOK /\ worker[w].pc = "handle"
      /\ UNCHANGED <<state, closed, attempts, ledger, restored, marker>>
      /\ MeasuredAsRequested /\ \A u \in Trial : saved[u] = Default
  BY DEF TargetInv, IInv, HandleError, trialVars, Settings
<1>1. t \in Trial
  BY <1>0, <1>t, Busy DEF TargetInv, IInv
<1>2. active' \in {active, Default} /\ UNCHANGED saved
  BY <1>0, <1>t, <1>1 DEF HandleError, Rollback
<1>3. MeasuredAsRequested'
  BY <1>0 DEF MeasuredAsRequested
<1>4. Settings'
  BY <1>0, <1>2, <1>3, NoneAssumption DEF TargetInv, IInv, TypeOK, Settings,
     FinishedLeavesDefault, Default
<1>5. PICK v \in {"DATABASE_UNHEALTHY", FailureState(state[t]), "RESOURCE_LIMIT_EXCEEDED"} :
             worker' = [worker EXCEPT ![w].pc = "fail", ![w].verdict = v]
  BY <1>t DEF HandleError
<1>6. v \notin ClosingStates
  BY <1>5 DEF FailureState, ClosingStates
<1>7. worker'[w].pc = "fail" /\ worker'[w].verdict = v
  BY <1>0, <1>5 DEF TypeOK, LocalState
<1>8. OnTarget(worker[w].trial, worker[w])'
  BY <1>6, <1>7 DEF OnTarget, Chain
<1>9. \A u \in Trial : Untouched(u)'
  BY <1>0 DEF TargetInv, Untouched
<1>. QED BY <1>4, <1>8, <1>9, OneMoves

(* A trial given up has not ended by itself.                               *)
LEMMA FailKeepsTarget ==
  ASSUME TargetInv, IInv', OneWorker, NEW w \in Worker, FailTrial(w)
  PROVE  TargetInv'
<1>t. PICK t : t = worker[w].trial
  OBVIOUS
<1>0. /\ TypeOK /\ worker[w].pc = "fail" /\ worker' = [worker EXCEPT ![w] = Idle]
      /\ UNCHANGED <<attempts, ledger, targetVars>>
      /\ worker[w].verdict \notin ClosingStates
  BY DEF TargetInv, IInv, FailTrial, OnTarget
<1>1. t \in Trial /\ attempts[t] # 0
  <2>1. t \in Trial /\ worker[w].token \in 1 .. attempts[t]
    BY <1>0, <1>t, Busy DEF TargetInv, IInv
  <2>2. attempts[t] \in Nat
    BY <1>0, <2>1 DEF TypeOK
  <2>. QED BY <2>1, <2>2
<1>2. \/ UNCHANGED <<state, closed>>
      \/ /\ state' = [state EXCEPT ![t] = worker[w].verdict]
         /\ closed' = closed \cup {t}
  BY <1>t DEF FailTrial
<1>3. OnTarget(worker[w].trial, worker[w])'
  BY <1>0, IdleOnTarget DEF TypeOK
<1>4. Settings'
  BY <1>0, <1>1, <1>2 DEF TargetInv, IInv, TypeOK, Settings, MeasuredAsRequested,
     FinishedLeavesDefault, targetVars
<1>5. \A u \in Trial : Untouched(u)'
  BY <1>0, <1>1, <1>2 DEF TargetInv, Untouched, targetVars, TypeOK
<1>. QED BY <1>3, <1>4, <1>5, OneMoves

(* Every step keeps the invariant.                                         *)
LEMMA TargetStep ==
  ASSUME TargetInv, OneWorker, OneAttempt, [Next]_vars
  PROVE  TargetInv'
<1>0. IInv' /\ TypeOK
  BY TypeStep, WorkerInvStep, LeaseInvStep, LedgerInvStep DEF TargetInv, IInv
<1>1. CASE UNCHANGED vars \/ Operator \/ Clock
  BY <1>0, <1>1, OutsideKeepsTarget
<1>2. ASSUME NEW w \in Worker, NEW t \in Trial, Claim(w, t) PROVE TargetInv'
  BY <1>0, <1>2, ClaimKeepsTarget
<1>3. ASSUME NEW w \in Worker, Step(w) PROVE TargetInv'
  <2>1. CASE StepRaises(w)
    <3>1. Goto(w, "handle") /\ UNCHANGED <<state, closed, attempts, ledger, targetVars>>
      BY <2>1 DEF StepRaises, trialVars
    <3>. QED BY <1>0, <3>1, HandleOnTarget, QuietKeepsTarget
  <2>2. ~Reapply(w)
    BY DEF TargetInv, OnTarget, Reapply
  <2>. QED BY <1>0, <1>3, <2>1, <2>2, StartKeepsTarget, BeatKeepsTarget, OperateKeepsTarget,
           RaisesKeepsTarget, RecordKeepsTarget, AdvanceKeepsTarget, FinishKeepsTarget,
           HandleKeepsTarget, FailKeepsTarget DEF Step
<1>4. ASSUME NEW w \in Worker, Crash(w) PROVE TargetInv'
  <2>1. UNCHANGED <<state, closed, attempts, ledger, targetVars>> /\ worker'[w] = Idle
    BY <1>0, <1>4 DEF Crash, trialVars, TypeOK
  <2>. QED BY <1>0, <2>1, IdleOnTarget, QuietKeepsTarget
<1>. QED BY <1>1, <1>2, <1>3, <1>4 DEF Next

(* It holds always, with one worker and trials tried once.                 *)
LEMMA TargetInvariant == OneWorker /\ OneAttempt /\ Spec => []TargetInv
<1>1. OneWorker /\ OneAttempt /\ Init => OneWorker /\ OneAttempt /\ TargetInv
  BY InitTarget
<1>2. OneWorker /\ OneAttempt /\ TargetInv /\ [Next]_vars =>
        (OneWorker /\ OneAttempt /\ TargetInv)'
  BY TargetStep DEF OneWorker, OneAttempt
<1>. QED BY <1>1, <1>2, PTL DEF Spec

(* One worker and max_attempts = 1: whatever trials of whichever kinds     *)
(* follow each other, fail, are cut off or are cancelled half-way, a       *)
(* measurement is taken under the settings its trial asked for, since      *)
(* restore and verification compare what is active before it.              *)
THEOREM MeasuredUnderOwnSettings == OneWorker /\ OneAttempt /\ Spec => []MeasuredAsRequested
<1>1. TargetInv => MeasuredAsRequested
  BY DEF TargetInv, Settings
<1>. QED BY <1>1, TargetInvariant, PTL

(* And a trial that ended by itself has left the target: the snapshot its  *)
(* last stage goes back to is never one of a tuned configuration.          *)
THEOREM EndedTrialsLeaveTheTarget == OneWorker /\ OneAttempt /\ Spec => []FinishedLeavesDefault
<1>1. TargetInv => FinishedLeavesDefault
  BY DEF TargetInv, Settings
<1>. QED BY <1>1, TargetInvariant, PTL
=============================================================================
