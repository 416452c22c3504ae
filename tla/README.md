# CHARM-DB in TLA+

CHARM-DB tunes a PostgreSQL *target* database: it restores a frozen dataset,
applies candidate settings, restarts the target, measures it with `pgbench` and
rolls the settings back. Everything it decides is kept in a second PostgreSQL
database, the *control* database, so that a process that dies can be run again
and goes on where it stopped. This directory models that durable machinery:
what the rows of the control database promise while workers, operators, crashes
and time-outs interleave, and what happens meanwhile to the one target that
they all share.

File names below are relative to `src/src/charmdb/` unless they say otherwise.

## 1. The system

### Components, state and operations

| Component | State it keeps | Operations | Modelled by |
|---|---|---|---|
| Durable trial worker, `worker.py` | rows of `campaigns`, `trials`, `trial_action_executions`, `trial_transitions`; measurement markers on disk; a worker's local variables | create trial; pause, resume, stop, emergency-stop; claim, heartbeat, start / run / complete an action, advance, complete, fail, retry | `TrialStates`, `TrialWorker`, `DurableTrial`, `TrialWorker_proofs` |
| Measurement, `workload.py`, `analysis/windows.py` | pgbench processes, log files, markers | run clients for the stages of a plan, recover by marker, end orphans, promote a prefix, read windows | `Measurement`, `LogWindows`, `Measurement_proofs` |
| Configuration controller, `controller.py` | `configuration_snapshots`, `configuration_applications`, `rollbacks`; the target's `postgresql.auto.conf` and active settings | `apply_configuration`, `rollback_configuration` | `Controller`, `Controller_proofs` |
| Apply-best deployment, `apply_best.py` | one row of `experiment_v2_apply_best_deployments`, guarded by a trigger and foreign keys | prepare, recovery test, activate, roll back, status | `ApplyBest` |
| Candidate dataset restore, `restore/candidate.py` | `candidate_dataset_restores`, `trials.candidate_dataset_restore_id`, a session advisory lock | ensure the trial's dataset is restored | `CandidateRestore`, `CandidateRestore_proofs` |
| Restore mechanisms, `restore/preflight.py`, `restore/physical_archive.py`, `restore/fingerprint.py` | dump files, archives, the target's volume | safety check, `pg_restore`, stop / unpack / start, compare fingerprints | as steps of `CandidateRestore` |
| Confirmatory campaigns, `campaigns/primary.py`, `primary_wave_b.py`, `multifidelity.py`, `f4.py`, `h25.py` | a block, its slots in physical order, up to three attempts each | create, run next, reconcile, materialise, analyse, abandon, reconcile an interruption, remediate | `StageCore`, `AttemptLedger`, `PrimaryCampaign`, `PrimaryWaveB`, `PhaseB`, `F4Confirmation`, `H25Baseline`, `ConfirmatoryCampaigns` |
| Stage campaigns, `campaigns/screening.py`, `screening_recovery.py`, `default_reference.py`, `warmup_duration.py`, `saturation.py`, `saturation_phase2.py`, `restore_soak.py` | a block with runs of one trial each, in two parts; ladders; series of restore repetitions | create, run next, fail, analyse, freeze, prepare and finalise a ladder, repeat a restore, rebuild the database | `StageCore`, `RunLedger`, `RestoreValidation`, a module per file, `StageCampaigns` |
| Statistics, designs, `statistics.py`, `optimization/`, `analysis/multifidelity.py`, `analysis/rehearsal.py` | none | percentiles, proposals, rehearsals | not modelled (section 7) |
| Bootstrap, reporting, protocol, provenance, scripts, command line | none of the running system | check, render, validate, hash, package, dispatch | not modelled |

### How they interact

* An operator or a stage runner creates a campaign and its trials. A worker
  *claims* the oldest claimable trial, gets a lease with a fresh token, and walks
  the trial's workflow: one *state*, one *action*, one row in the action ledger
  per stage. Every transaction commits on its own.
* For a tuned trial the worker calls the **candidate restore**, then
  **apply_configuration**, measures, and calls **rollback_configuration**. When
  anything raises, `run_once`'s handler rolls back first and then files the
  failure.
* The **controller** is called by workers, by the apply-best commands and by the
  `knobs-apply` and `knobs-rollback` commands. Nothing but the application id
  keeps two calls apart.
* **Apply-best** wraps two controller applications, one for a recovery test and
  one for the activation, into a deployment with an authorisation by the
  operator.
* A **stage runner** is a command that is called again and again (`...-next`).
  Each call files what became of the trial in flight, chooses the next piece of
  the schedule, creates its trial, runs the worker on it and files the outcome,
  every step in a transaction of its own. It sees the worker only through the
  trial's row, that is through what `DurableTrial` promises.
* A **measurement** inside a trial starts `pgbench` processes that do not die
  with their worker, and leaves files that a later attempt reads.

### What is hard about it

* *Interleaving.* A worker whose lease expired runs on beside its successor; the
  operator stops the campaign under running workers; two callers enter the
  controller or the restore at once.
* *Three stores that do not change together.* The control rows, the target's
  configuration file and the target's active settings (or the volume's content)
  are each durable on their own; a process may die between any two changes.
* *Retries of what was half done.* A later attempt must repeat exactly what is
  unfinished and reuse what is not.
* *Work that outlives its client.* A restart command, a restore container or a
  `pgbench` process goes on when the process that asked for it was killed or
  stopped waiting.
* *Decisions on what was read earlier.* A command reads the status of campaign
  and block once and acts on it many transactions later; no command of a stage
  holds a lock while it works.
* *Limits.* The last attempt, the failure limit of the campaign, the third
  attempt of a slot.

`PROJECT.json` lists each hazard at its line with the properties that watch it.

### What makes each component correct

* Worker: a stale worker moves nothing; stored results are final; every stage
  behind a trial's state has its result; a trial ends once; failures are counted
  once; a measurement is taken under the trial's own settings; a trial left alone
  is picked up again.
* Controller: the way back to the original settings exists before the target is
  touched and is never lost; a mixture of old and new settings is never
  activated; repeated calls converge.
* Apply-best: nothing is activated without a stored decision; a passed recovery
  test leaves no trace; an activation can always be undone; the row's status
  agrees with the target.
* Measurement: nothing else loads the target meanwhile; a marker counts its own
  clients' transactions once; the readers of the logs agree.
* Campaign stages: slots, attempts and trials tell the same story at every point
  a command can be cut off at; the order of the plan is kept; a verdict rests on
  the evidence it asks for; outcomes are final; a failure stops what it should;
  the stage can go on after any crash, or is stuck for a known reason.
* Candidate restore: at most one open attempt, at most one passed, linked exactly
  then; a caller that is told "restored" is told the truth; failure leaves a
  target that can be restored again.

## 2. Modules

| Module | Content |
|---|---|
| `TrialStates` | the states, the four transition tables, the chain each workflow kind walks, the terminal state an error is filed under |
| `TrialWorker` | `worker.py`: campaign, trials, leases, ledger, workers, and the target in summary |
| `DurableTrial` | abstract specification: what the rows promise, without workers, leases or crashes |
| `MCTrialWorker` | constant values for TLC |
| `TrialWorker_proofs` | theorems about `TrialWorker`, and that it implements `DurableTrial` |
| `Controller`, `MCController`, `Controller_proofs` | `controller.py`, statement by statement |
| `ApplyBest` (extends `Controller`), `MCApplyBest`, `ApplyBest_proofs` | the deployment commands, composed with the controller |
| `CandidateRestore`, `MCCandidateRestore`, `CandidateRestore_proofs` | the restore ledger, its lock, and the target's volume |
| `LogWindows` | how the transaction logs of a measurement are read and cut into windows |
| `Measurement` (extends `LogWindows`), `MCMeasurement`, `Measurement_proofs` | the measurement of one trial: attempts, clients, logs, markers |
| `StageCore` | what every stage is built from: campaign row, trials, commands, crashes |
| `AttemptLedger` (extends `StageCore`) | slots in physical order with up to three attempts each |
| `PrimaryCampaign`, `PrimaryWaveB`, `PhaseB`, `F4Confirmation`, `H25Baseline` | the commands of each such stage |
| `ConfirmatoryCampaigns`, `MCConfirmatoryCampaigns` | those five stages under one operator |
| `ConfirmatoryCampaigns_proofs` | theorems about them: what holds however commands overlap, and what holds while they do not |
| `RunLedger` (extends `StageCore`) | runs of one trial each, in two parts |
| `RestoreValidation` (extends `RunLedger`) | series of restores, rebuilding of the target database |
| `Screening`, `ScreeningRecovery`, `DefaultReference`, `WarmupPilot`, `Saturation`, `SaturationPhase2`, `RestoreSoak` | the commands of each such stage |
| `StageCampaigns`, `MCStageCampaigns` | those seven stages under one operator |
| `StageCampaigns_proofs`, `StageOrder_proofs` | theorems about them: what a step can be, and types; then what holds however commands overlap, and what holds while they do not |

### TrialWorker

One action stands for one transaction of the control database or one operation
on the target; everything between two of them interleaves. A worker's position
is its `pc`.

| Action | Code |
|---|---|
| `Pause`, `Resume`, `Stop`, `EmergencyStop` | `control_campaign` |
| `AdmitTrial`, `InsertTrial` | `create_*_trial`: reads the campaign, later inserts; no lock between |
| `Claim` | `claim_next_trial`: one `UPDATE ... FOR UPDATE SKIP LOCKED` |
| `StartAction`, `Beat`, `Operate`, `OperateRaises`, `RecordAction` | `_run_action` with `_record_action_start`, the heartbeat, `operation()`, `_record_action_complete` |
| `Reapply` | the `RECOVERING_TUNED_CONFIGURATION_ATTEMPT_n` action of a tuned retry |
| `Advance`, `FinishTrial` | `_advance`, `_complete_trial` |
| `HandleError`, `FailTrial` | `run_once`'s handler, `_fail_trial` |
| `StepRaises`, `Crash` | any statement may fail; any process may die |
| `LeaseExpires`, `BackoffEnds` | the clock |

State: `campaign`, `queue`, `state`, `closed` (completed_at), `failure`,
`attempts`, `lease`, `live` (lease_expires_at in the future), `waiting`
(next_attempt_at in the future) and `ledger` are columns of the control
database; `arriving` holds creations between their two statements; `restored`,
`marker`, `active`, `saved`, `applied` summarise the candidate restore, the
measurement marker and the controller; `worker` is what processes remember.

Abstractions. A lease token is the attempt number, which the same statement
makes just as fresh. Settings are told apart by whose they are. The result of an
action is kept as "completed". Time is the two expiry actions. The heartbeat
thread is the choice, at every operation, between returning and raising. The
arguments `stop_after_state` and `max_trials`, with which tests and stage runners
stop a worker early, are a worker that crashes in that state, as far as the
rows are concerned. Payloads, events and transition rows, which no modelled
decision reads back, are left out. The target is changed here by an apply or a
rollback in one step; `Controller` has the steps.

### DurableTrial

The same rows without workers. `Attempt`, `CompleteAction`, `Move`, `Finish`,
`GiveUp`, `CancelAll`, `Create`, `Steer`. `TrialWorker!ImplementsDurableTrial`
instantiates it with `done <- the stages whose ledger row is COMPLETED`.

### Controller

A call has a position and, while it writes, the set of settings it still has to
write (`ALTER SYSTEM` is durable one setting at a time). `file` is
`postgresql.auto.conf`, `active` what `pg_settings` shows; a restart copies the
file, a reload copies the settings that need no restart. `Shown` lets the server
show another value than was written. `TargetRestarts` is the container's restart
from outside. Faults: `TryRaises` inside `apply_configuration`'s try block (the
handler marks FAILED and rolls back), `CallRaises` elsewhere, `Crash`.

Values are members of a small set: units, types and the allow-list of knobs are
read-only validation before the first statement and are left out.

### ApplyBest

Extends `Controller`: a command's own statements are actions here, and while a
command waits in `applying`, `restoring` or `cleaning`, the controller's actions
run for it. The trigger of migrations 042 to 044 is `Accepted`; the foreign
keys are its last two conjuncts. A deployment may start out as ABSENT or as a
`RECOVERY_TESTING` row that an earlier release left behind, which is how a
deployment can pass the point that is closed to a new one (section 4). The readiness report, the authentication of the source evidence and the
time estimate are reads.

### CandidateRestore

`rows` is the ledger of one trial's attempts, `link` the trial's reference,
`lock` the advisory lock, `up`, `data`, `writers`, `mixed` the target and its
volume, `call` the callers. The logical restore is one step because
`pg_restore --single-transaction` is one transaction; the physical one stops the
target, starts a container that empties and fills the volume, waits, and starts
the target. The container belongs to the Docker daemon: `Filled` and
`FillFailed` need no caller. The ledger's trigger (migration 026) is `Allowed`.

The evidence comparison (`Validate`) and the fingerprint comparison (`Compare`)
are the questions "is the content the frozen one" and "are sizes and statistics
within tolerance"; the arithmetic of the tolerance is not modelled. Registering
and approving the baseline is not modelled.

### Measurement and LogWindows

`TrialWorker` takes a measurement as one step. Here an attempt takes over the
action's row (`Begin`), looks for the marker of an earlier attempt (`Search`),
ends the `pgbench` sessions that outlived their worker (`Clean`), starts a client
(`StartClient`), waits, counts the logs and leaves a marker (`ReadLogs`; for a
promoted measurement of two stages `Combine`), and files the result
(`RecordResult`). Workers die, or oversleep and go on after their lease was
given to the next attempt; clients do not die with them (`ClientEnds` needs no
worker) and leave logs behind when they are cut off.

`client`, `log` and `marker` are the processes and files of each attempt;
`action` is the ledger row, with the token it was last taken over with; `beside`
and `late` are history variables: which clients ever ran at once, and which
attempts started one without a lease. `LogWindows` has the two readers of the
logs, `parse_pgbench_logs` and the records behind `analysis/windows.py`, as
operators on sets of lines; a line is its file and number in it, the second it
was logged in and whether its latency is a number, negative or missing. Latencies
and percentiles are left out, so nothing depends on the order readers take files
in; that one of them stops early in each file does depend on the order within it.

### StageCore

A command of a stage runs through several transactions and holds nothing between
them. Its position `at` names the transaction that comes next, and one action is
one transaction (or one change of the target, or one call of `run_once`). What it
read and still acts on is in its record: `seen` and `block` are the statuses it
read when it began, `slot` and `number` the work it chose, `given` what it read
for that work. The campaign, the block and the trials are rows; a trial is what
`DurableTrial` promises of it, without its stages: queued, running, lapsed (its
process died), or ended in one of the ways the stages tell apart. `target` says
whose configuration the target server has. `overlapped` is a history variable:
two commands have been at work on this stage at the same time.

`Control` is the operator; `Crash` ends a command anywhere, and leaves the trial
it was measuring lapsed and the target perhaps with the trial's configuration.
`RunOnce`, `Measured`, `AttemptFails` and `LeaseLost` are `run_once`, which
raises on every failure so that the command ends before it has filed the
outcome: the next one finds it.

### AttemptLedger and ConfirmatoryCampaigns

| Action | Code, here of `primary.py` |
|---|---|
| `CreateCampaign`, `InsertLedger` | `create_*`: the campaign in one transaction, block and slots in the next |
| `Begin` | the read a call of run-next starts with |
| `ReconcileFirst`, `ReconcileLast`, `PauseBlock` | `_reconcile_*`, `_pause_for_infrastructure` |
| `StartBlock`, `Choose`, `Finish` | the block becomes RUNNING, the lowest slot that can run, the complete block |
| `Gather`, `CreateTrial`, `Attach`, `Worker` | `_execute_or_resume_attempt`: inputs, trial, attempt row with the slot's status, `run_once` |
| `LoadRows`, `CommitAnalysis`, `Steer` | `analyze_*`: rows read, result committed, campaign stopped |

What is peculiar to a stage is in its module: `Train` and `Materialize` of the
primary comparison; `PowerLoss`, `ReconcileInterruption`, `RollbackInterrupted`
and `FileInterruption` of wave B; `PrecedingControl`, `RecordBaseline` and
`RemediateFixture` of Phase B; `DeployChampion` (the apply-best deployment, which
shares the target), `RequireCanonical`, `Abandon` and `Discard` of H25. The five
modules are instantiated side by side; a behaviour is about the one stage that
`kind` has in its initial state.

### RunLedger, RestoreValidation and StageCampaigns

A run has one trial and is not tried again; a stage has one or two parts, the
second planned by the analysis of the first (`CommitVerdict`, or `CommitFreeze`
after the operator froze the warm-up). `ReconcileFirst` and `ReconcileLast` take
the outcomes that end the stage as an argument, since the stages differ in it;
`FailBlock` is the transaction after that. `passedOver` is a history variable: a
command died between filing such a failure and acting on it. `verdict` keeps what
an analysis came to; which of the possible outcomes is open, but the same rows
give the same one. `Saturation` has two ladders in place of parts: `PrepareLadder`
gives the target a configuration that its probes rely on, `FinalizeLadder` takes
it away. `RestoreValidation` has the repetitions of a restore: claimed one by one,
validated, counted in a transaction that sees what others have committed
(`CountPassed`, `CommitPassed`).

The recovery of the screening has two manifests, each with one series. The series
of the first, the default of the commands, asks for nothing
(`screening_recovery.py:326`). If it FAILED the database may be rebuilt
(`PlanRemediation`, which wants that failure, `screening_recovery.py:473`), and the
series of the second manifest supersedes it once the rebuilding PASSED. Either one
that passed admits the recovery campaign. `validation` and `rep` are those of the
latest series; `supersedes` says that it is the second.

## 3. What TLC checks

| Run | Instance | States | Properties |
|---|---|---|---|
| `TrialTakeover` | 2 workers, 1 tuned trial, 2 attempts | 980,000 | `LedgerBehindState`, `FencedTransitions`, `StoredResultsAreFinal` |
| `TrialContention` | 2 workers, 2 health trials (2 and 1 attempts), failure limit 2 | 430,000 | `IInv`, `FailureAccounting`, `ClosedIsFinal`, `ImplementsDurableTrial` |
| `TrialTarget` | 1 worker, a tuned and a saturation trial, 1 attempt | 1,300,000 | `MeasuredAsRequested`, `FinishedLeavesDefault` |
| `TrialLiveness` | 1 worker, 2 health trials, 2 attempts | 191,000 | `EventuallySettled` |
| `TrialRetryMeasures` | 1 worker, 1 tuned trial, 2 attempts | violated | `MeasuredAsRequested` |
| `ControllerRetries` | 1 caller, 1 application, 2 knobs | 2,200 | `RolledBackIsDurable`, `ActivatesWhole`, `RollbackConverges`, `ApplyConverges` |
| `ControllerCallers` | 2 callers, 1 application, 2 knobs | 251,000 | `RecoveryInv`, `LastKnownGoodSurvives`, `SnapshotIsOriginal` |
| `ApplyBestDeployment` | 1 operator, 2 applications, 2 knobs | 13,000 | `DeploymentTypeOK`, `TestLeavesNoTrace`, `ActivationCanBeUndone` |
| `CandidateRestore` | 2 callers, both mechanisms, 3 attempts, 3 faults | 229,000 | `TypeOK`, `LedgerConsistent`, `ReturnedIsPassed`, `RestoreCanRetry`, `OnlyTheLatestMoves` |
| `Measurement` | 3 attempts, 4 logs a client can leave | 847,000 | `LoadIsItsOwn`, `MarkerCountsItsOwn`, `WindowsAgree` |
| `ConfirmatoryCampaigns` | 5 stages, 2 callers, 2 slots, 3 attempts | 921,000 | `TypeOK`, `LedgerAgrees`, `InOrder`, `CompleteIsMeasured`, `CausalInputs`, `NeverWedged`, `OutcomesAreFinal` |
| `StageCampaigns` | 7 stages, 2 callers, 3 runs in two parts, 3 repetitions | 1,350,000 | `TypeOK`, `VerdictIsEarned`, `FailureStops`, `TargetFollowsLadder`, `StageCanGoOn` |

### What the passing runs show

* `TrialTakeover`: whatever a worker that lost its lease still does, beside its
  successor and in any order with crashes, errors, expiry and an emergency stop,
  only the latest claim moves the trial, no stored result is replaced, and the
  results that a later stage looks up are there. Two workers and two attempts
  give one stale worker and one owner at every pair of positions; a third worker
  would only repeat the stale one. A tuned trial has every stage.
* `TrialContention`: two trials compete for two workers while the campaign is
  paused, resumed, stopped and failed. One trial may be retried and one not, so
  that retries and final failures mix, and with a limit of two the campaign fails
  in the second. The rows implement `DurableTrial`, and the inductive invariant of
  section 5 holds. Health trials keep the
  workflow short; leases, claims and failures do not depend on the kind.
* `TrialTarget`: two trials of different kinds use one target, one after the
  other, where the first may leave its settings behind. With one attempt each a
  measurement is under the trial's own settings and a trial that ended by itself
  left the target. With more attempts, and with two workers at once, this does
  not hold (section 4).
* `TrialLiveness`: a created trial ends or uses up its attempts, unless the
  campaign leaves RUNNING. "Uses up" is in the property because the code does not
  close a trial whose last attempt crashed, nor one that ended in a state that
  is not completed (section 4).
* `ControllerRetries`: with faults anywhere and restarts of the target at any
  time, one caller never makes the target run with a mixture, ROLLED_BACK means
  file and server agree, and once faults stop repeated calls get through.
  `Shown` is the identity in this run.
* `ControllerCallers`: with two callers on one application, the original settings
  stay in the snapshot.
* `ApplyBestDeployment`: through crashes between any two statements of a command
  or of the controller under it, a passed test leaves neither file nor server
  changed, and an operator who keeps asking gets the rollback.
* `CandidateRestore`: two callers, of which one may have lost its lock without
  noticing, keep the ledger consistent; the target is never left serving a
  damaged volume by one restore alone. Three attempts allow an attempt to be
  superseded and its successor to be superseded too; three faults allow a lost
  lock, a crash and a failure of the container in one behaviour.
* `Measurement`: although clients survive their workers and leases expire under
  sleeping ones, two clients run at once only where one was started by an attempt
  without a lease; a marker counts its own clients' transactions, once, however
  many logs of others lie beside them; and the reader that stops early in each
  file counts what the other one counts, on every window and on the boundaries.
* `ConfirmatoryCampaigns`: wherever a command is cut off, slots, attempts and
  trials tell the same story, the order of the plan is kept, what a slot was given
  comes from completed earlier ones, and the stage can go on, with the inputs the
  next slot asks for, or is stuck in one of the places `KnownStuck` lists. Even when commands overlap, no outcome is ever
  replaced and no block counts as complete with a slot that was given up.
* `StageCampaigns`: a verdict rests on the evidence it asks for, however commands
  overlap: in particular no recovery campaign exists without a series that passed,
  and no rebuilding is at work or cut off beneath one; a failure that ends a stage ends it; the target has the configuration
  of a ladder exactly as long as the ladder needs it; and the stage can go on or is
  stuck in a known place.

Two workers and two callers are declared symmetric where the property is an
invariant or a step property; the runs with liveness have one of each.

### Deadlock

`CHECK_DEADLOCK FALSE` is said where the system may stop: in `TrialWorker` when
every trial has been created and ended and the campaign is stopped or failed; in
`ApplyBest` when the deployment is rolled back; in `CandidateRestore` when the
bound on attempts is reached; in `Measurement` when the last attempt is over; in
`StageCampaigns` when a restore soak has failed for good or a stage has ended. The
controller runs and `ConfirmatoryCampaigns` keep the deadlock check.

### Bounds

`MaxAttempts` (trials), `FailureLimit` are parameters of the code.
`CandidateRestore!MaxAttempts` and `MaxFaults` are bounds of the model: the code
counts attempts without limit. In `Measurement`, `MaxAttempts` and `Floor` are
parameters of a trial, `Logs` and `Partial` the logs a client can leave: two
threads and two seconds, with failures of both kinds, with a thread that ran over
in front of one that did not, and with too little to be promoted. Three attempts
allow a late worker, one whose marker is lost and one that finds it. In `TrialTarget`
the saturation trial expects the default (`Requested`), as the anchor of a ladder
does; what other probes expect is put on the target by their ladder, which
`Saturation` follows. Otherwise only the sets of workers, trials, callers,
applications, knobs and values are bounded.

The stages are bounded by `Slots` and `Repetitions`. `MaxTries` (attempts of one
trial) is 1 for the confirmatory stages, as in the code; the code's 3 is 2 for the
stages before them, and 1 for screening and its recovery, whose trials are
executed by the same definition (`ExecuteRun`) as the default reference's.
`FailureLimit` is 1 where the code says so, and out of reach where the code sets
it at or near the number of slots.
Two slots are what an adaptive slot, a control and its candidate, or an order can
be about; three attempts are the code's number. Three runs give a first part of
two and a second part of one. Two commands may be at work on one stage at any
point; `MayOverlap` leaves this out for `h25`, `recovery` and `phase2`, whose
commands have the shape of the others'; the theorems cover them. Two creations at
once are not modelled (`OpenCampaign`). A series or a rebuilding is planned while
no other command is at work on the stage: the code refuses while another charmdb
session is open on the target (`_target_safety`), a look before the transaction,
not a lock. A pilot that FAILED may be followed by
another (`warmup_duration.py:262`), with a campaign and rows of its own; a
behaviour follows one. `LedgerAgrees`, `InOrder`, `NeverWedged`, `FailureStops`,
`TargetFollowsLadder`, `StageCanGoOn` and one conjunct of `VerdictIsEarned` are
stated for commands that do not overlap: the code takes no lock between the
transactions of a command, and section 4 says what overlapping ones may do.
`CompleteIsMeasured`, `CausalInputs`, `OutcomesAreFinal` and the rest of
`VerdictIsEarned` hold for overlapping ones too.

### Fairness

* `TrialWorker!Fairness`: weak fairness of each worker's step and of its claim,
  of the end of a back-off, and of the expiry of a lease nobody works under. A
  worker that fails a trial re-raises and its process ends
  (`run_once`, `run_worker_service`), and no supervisor in the repository starts
  it again (`docker-compose.yml:7` restarts the target's container only): the assumption is
  that the operator or the stage runner runs the worker command again, which is
  how the documentation describes recovery. Nothing is assumed of the operator's
  campaign commands, of errors, or of leases in use.
* `Controller!Fairness`, `ApplyBest!FairnessDeployment`: faults stop at some time
  (otherwise no retry can be promised anything), a call in progress runs to its
  end, and callers keep asking. Strong fairness of asking, because a caller that
  alternates between the two operations disables each again and again.

## 4. Where the code and its documentation part

One of these is a run that TLC finishes with a counterexample.

* **A retried candidate may be measured under default settings**
  (`TrialRetryMeasures`). The handler of a failed attempt rolls back; the next
  attempt re-applies only in three of the states before the measurement. One that
  resumes at `WARMING_UP`, `RESETTING_OR_SNAPSHOTTING_COUNTERS` or
  `RUNNING_FULL_EVALUATION` measures the default as the candidate.

The models contain three more, about which no run is kept:

* **A worker without its lease rolls the target back** under the attempt that
  holds it: the handler of `run_once` calls the rollback (`worker.py:2167`) before
  `_fail_trial` looks at the lease, against
  `docs/persistence-and-recovery.md:5` ("protect single ownership").
* **ACTIVE and ROLLED_BACK need not survive a restart**: both shortcuts of the
  controller look at active settings only (`controller.py:255`, `:393`), so the
  file may hold the other configuration.
* **A new deployment cannot be tested**: the test stores a reference to an
  application that its next statement would create (`apply_best.py:489`), and the
  foreign key refuses it.

The models also have the following behaviour, which bounds what the properties
above may say. Of the worker, the controller and the restore:

* A crash in the last attempt leaves the trial open and unclaimable. A saturation
  trial that ends in `MEASUREMENT_INVALID`, and a health trial reclaimed in
  `COMPLETED`, are not completed by the worker.
* A trial in a terminal state is not ended before `completed_at` is set: a late
  failure or an emergency stop in between rewrites the state.
* A trial may be inserted into a campaign that was emergency-stopped meanwhile.
* A recovery test that failed with the champion still active has no command that
  leads on; two apply-best commands at once are not kept apart.
* A value that the server normalises (`wal_buffers = -1`, `controller.py:204`)
  never verifies.
* A restore container outlives its client and may overlap with the next; a passed
  restore is reused although a measurement has written to the dataset since; the
  advisory lock is per trial, the target is one.

Of measurements:

* A worker that lost its lease completes its measurement as long as nobody has
  taken over the action's row: whether its result counts depends on how far the
  next attempt has come (`worker.py:999`).
* A log line without a latency is a failure for `parse_pgbench_logs` and invisible
  to the records; one with a negative latency is a transaction and a failure. A
  promoted measurement subtracts both from its transactions (`workload.py:459`),
  `worker.py:1512` adds both to them.
* The aggregate of a promoted measurement takes every log of its two directories
  (`workload.py:447`); only that such a trial is created with one attempt keeps
  another attempt's logs out.

Of the campaign stages, with one command at a time:

* A one-attempt trial whose runner died stays in flight for ever
  (`primary.py:808`); an emergency stop of the campaign is the way out, not a
  retry. Wave B has a command for the case, which needs the target to be still at
  the trial's configuration: a crash after its rollback closes it
  (`primary_wave_b.py:671`).
* `INFRASTRUCTURE_EXHAUSTED` is filed before the block is paused, and resuming
  a paused block runs the slots behind it; such a block can never complete, and an
  H25 block with a completed slot besides can neither be abandoned nor replaced.
* A Phase B block with a failed candidate is completed by `run-next`, but the
  analysis asks for 35 completed slots: it is never analysed
  (`multifidelity.py:1033`).
* The analysis is committed before the campaign is stopped; after a crash in
  between the next call returns early or refuses, and the campaign stays PAUSED,
  which blocks the next stage (`primary.py:1316`).
* A failure of a screening run is filed before the stage is failed; after a crash
  in between the stage goes on as if the failure had been the candidate's. A failed
  ladder is closed before the campaign is paused; after a crash in between the
  next ladder starts (`saturation.py:411`).
* A repetition, or a rebuilding, whose process died stays RUNNING: the series never
  passes, and existing it cannot be created again. A series left RUNNING also bars
  the rebuilding, which wants one that FAILED. `StageCanGoOn` lists these places
  (`KnownStuck`) and so bounds them; it does not exclude them.
* A saturation probe with failed transactions is never completed (above): its
  ladder stays at work with the configuration on the target.

And with two commands at once, which nothing excludes:

* The second may start the next slot before the first has attached its trial, so
  that two trials share the target; or attach an attempt that another one has run
  meanwhile, which leaves the slot CREATED without an open attempt for ever.
* A Phase B candidate may be refused every time because a newer control than the
  one recorded has completed.
* A late completion puts `WARMUP_COMPLETE` over a frozen decision; two commands
  that pass their repetitions at once may leave the series RUNNING; a part may be
  completed while its last run is being created; a stalled finalizer rolls the
  target back under the next ladder (`saturation.py:379`).

## 5. What is proved

TLAPS checks the following for every number of workers, trials, callers,
applications, knobs, values, attempts, faults, logs and slots.

| Theorem | States |
|---|---|
| `TrialWorker_proofs!IInvIsInvariant` | `Spec => []IInv` |
| `TrialWorker_proofs!TypeCorrectness` | `Spec => []TypeOK`; failures are filed under terminal states |
| `TrialWorker_proofs!ResultsArePersisted` | `Spec => []LedgerBehindState` |
| `TrialWorker_proofs!CompletedActionsStay` | `Spec => StoredResultsAreFinal` |
| `TrialWorker_proofs!StaleWorkersAreFenced` | `Spec => FencedTransitions` |
| `TrialWorker_proofs!EndedTrialsStay` | `Spec => ClosedIsFinal` |
| `TrialWorker_proofs!FailuresAreCountedOnce` | `Spec => []FailureAccounting` |
| `TrialWorker_proofs!WorkersKeepThePromise` | `Spec => ImplementsDurableTrial` |
| `TrialWorker_proofs!MeasuredUnderOwnSettings` | `OneWorker /\ OneAttempt /\ Spec => []MeasuredAsRequested` |
| `TrialWorker_proofs!EndedTrialsLeaveTheTarget` | `OneWorker /\ OneAttempt /\ Spec => []FinishedLeavesDefault` |
| `Controller_proofs!RecoveryInvIsInvariant` | `Spec => []RecoveryInv` |
| `Controller_proofs!WayBackExists` | `Spec => []LastKnownGoodSurvives` |
| `Controller_proofs!SnapshotsAreOriginal` | `OneApplication /\ Spec => []SnapshotIsOriginal` |
| `Controller_proofs!RollbacksAreDurable` | `OneApplication /\ OneCaller /\ Spec => []RolledBackIsDurable` |
| `Controller_proofs!ConfigurationsAreWhole` | `OneApplication /\ OneCaller /\ Spec => ActivatesWhole` |
| `ApplyBest_proofs!DeploymentTypesHold` | `SpecDeployment => []DeploymentTypeOK` |
| `ApplyBest_proofs!TestsLeaveNoTrace` | `OneCaller /\ SpecDeployment => []TestLeavesNoTrace` |
| `CandidateRestore_proofs!RestoreTypesHold` | `Spec => []TypeOK` |
| `CandidateRestore_proofs!RestoreCanBeRetried` | `Spec => []RestoreCanRetry` |
| `CandidateRestore_proofs!LedgerIsConsistent` | `Spec => []LedgerConsistent` |
| `CandidateRestore_proofs!AnswersAreTrue` | `Spec => []ReturnedIsPassed` |
| `CandidateRestore_proofs!OnlyTheLatestIsMoved` | `Spec => OnlyTheLatestMoves` |
| `Measurement_proofs!MeasuredAlone` | `Spec => []LoadIsItsOwn` |
| `Measurement_proofs!MarkersCountTheirOwn` | `Spec => []MarkerCountsItsOwn` |
| `Measurement_proofs!ReadersOfTheResultAgree` | `Spec => []WindowsAgree` |
| `ConfirmatoryCampaigns_proofs!TypesHold` | `Spec => []TypeOK` |
| `ConfirmatoryCampaigns_proofs!CompleteBlocksAreMeasured` | `Spec => []CompleteIsMeasured` |
| `ConfirmatoryCampaigns_proofs!InputsAreCausal` | `Spec => []CausalInputs` |
| `ConfirmatoryCampaigns_proofs!FiledOutcomesAreFinal` | `Spec => OutcomesAreFinal` |
| `ConfirmatoryCampaigns_proofs!LedgerTellsOneStory` | `Spec => []LedgerAgrees` |
| `ConfirmatoryCampaigns_proofs!SlotsRunInOrder` | `Spec => []InOrder` |
| `ConfirmatoryCampaigns_proofs!StagesAreNeverWedged` | `Spec => []NeverWedged` |
| `StageCampaigns_proofs!StageTypesHold` | `Spec => []TypeOK` |
| `StageOrder_proofs!VerdictsAreEarned` | `Spec => []VerdictIsEarned` |
| `StageOrder_proofs!FailuresStop` | `Spec => []FailureStops` |
| `StageOrder_proofs!TargetsFollowLadders` | `Spec => []TargetFollowsLadder` |
| `StageOrder_proofs!StagesCanGoOn` | `Spec => []StageCanGoOn` |

Assumptions: those the modules state about their constants (kinds, limits and
attempts have their types and are positive; NULL is not a worker, a trial or a
terminal state; requested settings name known knobs; the values the target boots
with are shown as they are; a file of a log is in the order it was written in; a
confirmatory stage tries each trial once, as `create_trial` is called with
`max_attempts=1`) and nothing about the environment. Six theorems are about fewer
actors and carry that as a hypothesis on the constants, which the run of the
property satisfies: `OneWorker` and `OneAttempt` (one worker process, trials
that are tried once), `OneApplication` (all calls are about one application) and
`OneCaller`. They are not promised without it: the code keeps neither two callers
nor two applications of one target apart, a later application's snapshot holds
what an earlier one has set, and a second attempt or worker finds the target as
somebody else has left it (§4).

**Worker.** `LedgerBehindState` is not inductive: a worker about to advance must
be known to have its stage's ledger row complete, a worker that holds the lease
must remember the state the row has, and a lease must belong to the latest
attempt of an open trial. So
`IInv == TypeOK /\ WorkerInv /\ LeaseInv /\ LedgerBehindState`. The lemma that
carries the argument is about `TrialStates`: moving from a stage to its successor
puts exactly that stage behind. Each action has a lemma per conjunct it can
disturb. `StaleWorkersAreFenced` follows because `Holds` compares owner and token
and `LeaseInv` ties the token to the attempt count; `EndedTrialsStay` because an
ended trial has no lease, hence no worker holds it, and an expired or missing
lease is no way in either, since claims and emergency stops exclude ended trials.

`FailureAccounting` relates a counter to the cardinality of a set, so its
invariant adds that the set is finite, and that no worker files a failure as
CANCELLED, the one kind the campaign does not count. With `IInv`, a trial whose
last attempt fails is not yet in the set, since it is not closed; the step that
counts it closes it. For the refinement, each action of `TrialWorker` has a lemma
that names the action of `DurableTrial` it is, or that it leaves the rows alone:
claims, leases, heartbeats, crashes and everything done to the target are
stutters, and a state advance is a step because `LedgerBehindState` says that the
result of the stage is stored by then.

`MeasuredAsRequested` and `FinishedLeavesDefault` are about the target, which no
lease protects: they hold where one worker goes through each trial once. `IInv`
says nothing of the target, so `TargetInv` adds what the operations that have
*returned* to the worker say of its settings (`SettingsOK`): a candidate that is
restored and not yet applied found the default, one that is verified has its own
until it has put them back, and whatever got past putting them back is on the
default. It needs to know that the ledger rows of the trial at work were filed by
this worker, in this attempt (`ProgressOK`), that a trial nobody has claimed has
none (`Untouched`), and that every snapshot a rollback could go back to holds the
default (`Settings`). A second attempt breaks it because rows of the first are
taken over although the target has been rolled back since
(`TrialRetryMeasures`), a second worker because nothing orders the two targets'
operations.

**Controller.** That a changed knob has its original value in some snapshot is
not inductive: a caller may have read the settings before another one changed
them. `RecoveryInv` says of every knob that it is either *pristine* (as it was,
in the file, in the server, in every snapshot, and in what every caller has read
and not yet inserted) or *saved*. A write comes only from a call whose
application has a row, so the knob's snapshot, pristine until then, saves it.

If there is one application, pristine and saved say the same of its snapshot, and
`SnapshotsAreOriginal` follows for any number of callers. With one caller
besides, a position can be relied on: `OneCallInv` says that an application that
is being applied has the status for it, that the file holds what the call has
written so far, and that a rollback which is about to be recorded has been seen in
the server. A restart or reload then activates a file that is written completely,
which is `ConfigurationsAreWhole`; and a recorded rollback stays what it says
until the next write, which needs a new status first.

**Apply-best.** `DeploymentInv` ties a command to the call it has made: while it
waits the controller works on the application the command is about, a rollback
inside an apply returns to the apply, and the row refers to an application only
when there is one. It holds for any number of operators. `TestLeavesNoTrace` is
about one. `NoTraceInv` says of the row which statuses the position of the command
allows (`RowOK`, `OperatorOK`); that before a test and from a passed test to the
first write of the activation the target is as booted (`RowBooted`); that
snapshots are the original (`SavesOriginal`, from `RecoveryInv`); and that the
server runs with what is asked for or with what the file shows (`Mixture`). The
step that needs care is the shortcut of `rollback_configuration`, which does
nothing where the active settings are already those of the snapshot: it would
leave other settings in the file. It is harmless here because it comes after an
apply that was verified (`Tried`): then the requested values are shown as they are
(`Canonical`) and active with the file (`Settled`), so equal settings are equal
files.

**Candidate restore.** `LedgerConsistent` needs to know what each position of a
caller implies about its own attempt, in particular that a caller at a working
position has an attempt it opened and that a result is only kept by a caller
whose attempt is the linked one (`RestoreInv`). The trigger is what keeps a
superseded attempt closed: `INTERRUPTED` allows nothing.

`RestoreCanRetry` is about containers, which outlive their clients. `VolumeInv`
holds as long as no two restores met on the volume (`mixed`): at most one
container works on it and the target is down meanwhile; a caller that waits for
one is the only one that does and the container is its own; and with none at work
a target that is up has a whole volume. Callers that come and go without touching
the volume keep it by one lemma, the starts and ends of containers one each.

**Measurement.** That clients which met belong to a late attempt needs to know
which clients can still be there when the next one starts: `AfterCleaning` says
that beside an attempt that has cleaned up only its own client, those of later
attempts and those of late ones run, and `OneClient` that its own is not there
before it is started. A client that starts therefore meets a late one, or one of
a later attempt; in that case the starter has lost its lease, since `Claimed`
says that no attempt is ahead of the latest claim, and is late itself. That
induction uses no fact about logs or markers.

`CountInv` is the second half: a client that is over stays over and its log is not
written again, whoever cuts off what is still running; each position of a worker
says which of its clients are over and whether the prefix was promoted
(`Placed`); an attempt has no marker before it writes its own; and what a marker
counts is the count of those logs (`Counted`). Readings are finite sets of
lines, each of which knows its file and its number, so counting needs no
induction: a reading that is divided in two counts the sum (`CountDivided`), and
the joined files of two stages are the lines of the first and a renumbered copy of
those of the second (`LinesJoined`, a bijection). `WindowsAgree` is then a fact
about one log (`ReadersAgree`): where a file is in order, stopping at its first
record behind the window skips nothing within (`StopsInTime`).

**Confirmatory stages.** The five stages share their actions by instantiation, so
the proofs first say once what a step of any of them is: `CommandStep` is the
disjunction of the distinct transactions, and one lemma per stage
(`F4Steps`, `PhaseBSteps`, `H25Steps`, `PrimarySteps`, `WaveBSteps`,
`InterruptionSteps`) shows that its commands are among them. The invariants are
then proved by transaction, not by stage.

Two invariants, since two things are promised. `LedgerInv` holds however commands
overlap. What carries it is what each position of a command implies although
nothing is held between transactions: while a block is inserted no other command
can write the ledger (`InsertsAlone`), an analysis that has loaded its rows found
every slot terminal and that cannot be undone (`AnalysisComplete`), and what was
read for a slot came from completed slots before it (`ReadsEarlier`,
`HasControl`). That the rows with outcomes never change (`FiledOutcomesAreFinal`)
is what makes stale reads harmless, and it holds because every write of the ledger
is conditional on a status that is not terminal.

`OrderInv` adds what holds while commands do not overlap. At most one command is
at work (`Solo`; others are passive or will be refused), and it relies on what it
chose: no slot is in flight, every earlier slot has its outcome, its number is
the attempts made plus one (`Works`). `Story` is not inductive, since the
attempts before the one in flight must be known to have failed for infrastructure
reasons (`FullStory`). `NeverWedged` needs two facts about the environment as
well: a running trial is in the hands of a command (`RunningHeld`), so that with
no command at work what is in flight is queued, ended or dead; and an emergency
stop is for good (`EmergencyEnds`). The order on slots is used through one lemma
about least elements of sets of naturals.

Proving these found three places where the modules said less than was meant.
`SlotVerdict` and the position after `ReconcileFirst` were written with a `CASE`
whose guards overlap, which TLA+ leaves open and TLC reads in order; they are
conditionals now. And `CanProceed` counted any runnable slot, also one whose
execution raises for want of its inputs; `HasInputs` is what the code asks for.

**Stages before the primary campaign.** The seven stages differ more than the
confirmatory ones, so the first module says what a step of any of them is:
`RunStep` and `RestoreStep` are the disjunctions of the distinct transactions, one
lemma per stage shows that its commands are among them (`ScreeningSteps` to
`CoarseSteps`, `RecoveryRestores`, `SoakRestores`; together `Steps`). Then each
variable gets one lemma that lists who writes it and under which condition
(`SlotEffect`, `TrialEffect`, `BlockEffect`, `VerdictEffect`, `LadderEffect`,
`TargetEffect`, `CampaignEffect`), and `CommandMoves` lists for each position of a
command the step that leads there (`Arrives`). Everything after that is proved from
these lists and does not look at a stage again.

The inductive invariant is `Types /\ Always /\ SerialInv`. `Types` adds to
`TypeOK` what each position has in hand. `Always` holds however commands overlap:
rows appear in the order creation writes them (`Fresh`, `LedgerAlone`,
`Created`); a repetition is one command's, and what a command has counted has
passed but for its own (`Reps`), without which a series could pass on a stale
count; a database is rebuilt once, after the series that failed and before the one
that supersedes it, and never beneath a campaign, though the campaign asks only for
a series that passed and never for the rebuilding (`Rebuilt`); runs of the second part exist exactly after a verdict that asks for more (`Verdicts`); an
analysis that is about to be written still describes the rows, since a run that is
over stays so (`RefOK`, `WarmOK`); the status of a run and that of its trial agree,
and a trial that runs is in the hands of a command (`Trials`).

`SerialInv` says what is lost as soon as commands overlap: one command is at work
(`Solo`) and what it chose is still so at each of its positions (`Working`: no run
is in flight, the block is as it read it, its series runs, its ladder is the one at
work); at most one run is in flight; a part that is complete has no open run
(`Parts`); a running series has a repetition to go (`Series`); at most one ladder is
at work, and the target is its or nobody's (`Ladders`); a failure that ends the
stage has ended it or is about to (`Stops`). It is stated under `~overlapped`; no
assumption about the environment makes commands exclude each other, the properties
say themselves when they do. `StagesCanGoOn` then needs only `LeastOf`: the run
`run-next` reconciles is the least in flight, which exists.

Only model-checked: liveness (`EventuallySettled`, `RollbackConverges`,
`ApplyConverges`, `ActivationCanBeUndone`), which needs fairness and `ENABLED` and
is out of reach of TLAPS. Every invariant and every action property that a passing
run checks is a theorem; six of them, as said above, for fewer actors than the
module allows.

## 6. Plan

Done: the worker, the controller, apply-best, the candidate restore, the
measurement, the confirmatory stages and the stages before them, with the proofs
of §5.

Left, in this order:

1. liveness of a stage whose operator keeps calling run-next, under fairness of
   the worker
2. restores and applications of two trials on one target, composing
   `CandidateRestore` and `Controller`
3. the creation of a stage while another one is created

## 7. What is not modelled, and why

* `optimization/`, and the numerical parts of `analysis/` and `reporting/`: real
  arithmetic.
* `reporting/`, `protocol.py`, `provenance.py`, `paths.py`, the scripts: they
  read frozen inputs and write reports; no state of the running system.
* `cli*.py`, `config.py`, `db.py`: dispatch to the operations that are actions
  here.
* Of `workload.py`: warm-up runs, seeding, runtime samples and the latencies.
* Of the stages: designs and schedules as data, the figures and gates of the
  analyses (medians, slopes, rank correlations, Pareto fronts), exports. Where a
  figure decides the way the stage takes, the decision is a choice.
* `analysis/multifidelity.py`, `analysis/rehearsal.py`, `statistics.py`: offline
  computations without state.
* `bootstrap.py`, `resources.py`: checks that raise or do not.
* `restore/capability.py`, `restore/evidence.py`, `restore/models.py`: probes and
  rendering; registering and approving a baseline, creating snapshots and archives.
* `campaigns/*` creation: two creations at once; the readiness checks are a guard.

## 8. Running it

```
tlc -workers 2 -config TrialTakeover.cfg MCTrialWorker.tla
tlapm TrialWorker_proofs.tla
```

`PROJECT.json` lists every run with its module, the definitions each model
definition stands for in the source, and for each checked property a mutation of
the model that violates it.
