---------------------------- MODULE TrialWorker ----------------------------
(***************************************************************************)
(* The durable trial worker (worker.py): campaigns, trials leased to       *)
(* worker processes, the ledger of idempotent actions, and what the        *)
(* actions do to the one target database all workers share.                *)
(*                                                                         *)
(* Every statement of the control database commits on its own, so each     *)
(* transaction of the code is one action here and everything between two   *)
(* transactions may interleave with the other workers, with the operator,  *)
(* with the clock and with crashes.  A worker's position between two       *)
(* transactions is its pc:                                                 *)
(*                                                                         *)
(*   idle      between two polls, or the process is not running            *)
(*   rebeat    tuned retry: heartbeat before re-applying the configuration *)
(*   reapply   tuned retry: RECOVERING_TUNED_CONFIGURATION_ATTEMPT_n       *)
(*   start     about to run _record_action_start for the current state     *)
(*   beat      about to run the heartbeat of _run_action                   *)
(*   operate   about to run the state's operation                          *)
(*   record    about to run _record_action_complete                        *)
(*   advance   about to run _advance                                       *)
(*   finish    about to run _complete_trial                                *)
(*   handle    in run_once's exception handler, before the rollback        *)
(*   fail      about to run _fail_trial                                    *)
(*                                                                         *)
(* A lease token is a fresh uuid for every claim; the attempt number the   *)
(* same statement increments identifies the claim just as well, so the     *)
(* token is the attempt number.                                            *)
(***************************************************************************)
EXTENDS TrialStates, Sequences, FiniteSets

CONSTANTS
  Worker,        \* worker processes (run_worker_service)
  Trial,         \* trials that may be created
  Kind,          \* workflow_kind of each trial
  MaxAttempts,   \* max_attempts of each trial
  FailureLimit,  \* failure_limit of the campaign
  None           \* SQL NULL

ASSUME KindAssumption == Kind \in [Trial -> Kinds]
ASSUME AttemptsAssumption == MaxAttempts \in [Trial -> Nat \ {0}]
ASSUME LimitAssumption == FailureLimit \in Nat \ {0}
ASSUME NoneAssumption == None \notin Worker \cup Trial \cup TerminalStates

VARIABLES
  campaign,   \* row of charm_control.campaigns
  arriving,   \* trials whose creation has read the campaign, not yet inserted
  queue,      \* inserted trials in created_at order
  state,      \* trials.state
  closed,     \* trials with completed_at set
  failure,    \* trials.failure_type
  attempts,   \* trials.attempt_count
  lease,      \* trials.lease_owner and lease_token
  live,       \* trials whose lease_expires_at is in the future
  waiting,    \* trials whose next_attempt_at is in the future
  ledger,     \* trial_action_executions: status and lease_token per stage
  restored,   \* trials with a PASSED candidate restore
  marker,     \* measurement marker: settings measured under, feasibility
  active,     \* whose settings the target runs with: a trial's, or default
  saved,      \* configuration_snapshots of each trial's application
  applied,    \* configuration_applications.status of each trial
  worker      \* each worker's local variables

controlVars == <<campaign, arriving, queue>>
trialVars   == <<state, closed, failure, attempts, lease, live, waiting>>
targetVars  == <<restored, marker, active, saved, applied>>
vars == <<controlVars, trialVars, ledger, targetVars, worker>>
-----------------------------------------------------------------------------
(* Settings are told apart only by whose they are: every tuned trial has   *)
(* its own requested configuration, the other kinds expect the default.    *)
(* An abstraction for a saturation probe: it expects what its ladder has   *)
(* put on the target, which is the default only for the anchor             *)
(* (saturation.py:276, 292); module Saturation follows the ladder.         *)
Default == None
Configuration == Trial \cup {Default}
Requested(t) == IF Kind[t] = Tuned THEN t ELSE Default

CampaignStatus == {"CREATED", "RUNNING", "PAUSED", "STOPPED", "FAILED"}
NoLease  == [owner |-> None, token |-> 0]
NoEntry  == [status |-> "ABSENT", token |-> 0]
NoMarker == [settings |-> None, feasible |-> FALSE, taken |-> FALSE]
Idle == [pc |-> "idle", trial |-> None, token |-> 0, state |-> Absent,
         verdict |-> Absent]

(* lease_owner and lease_token match; expiry is not looked at.             *)
Holds(w) ==
  lease[worker[w].trial] = [owner |-> w, token |-> worker[w].token]

(* Mutant: the lease of whoever holds the trial will do.                   *)
HoldsLiveUnfenced(w) == worker[w].trial \in live

(* heartbeat's and _advance's condition: and lease_expires_at > now.       *)
HoldsLive(w) == Holds(w) /\ worker[w].trial \in live

Goto(w, pc) == worker' = [worker EXCEPT ![w].pc = pc]

(* A worker returns from run_once when its pc would be idle.               *)
Become(w, local) ==
  worker' = [worker EXCEPT ![w] = IF local.pc = "idle" THEN Idle ELSE local]

(* Is the feasible verdict of t's observation TRUE.                        *)
Feasible(t) == marker[t].feasible

(* The position of a worker that has just seen trial t in state s.  A      *)
(* health worker that claims an already COMPLETED trial matches none of    *)
(* its branches and returns with the lease still in place; any benchmark   *)
(* state outside the chain does the same.                                  *)
EntryPoint(t, s) ==
  CASE s = "CREATED"                               -> "advance"
    [] s \in StagesOf(Kind[t])                     -> "start"
    [] s \in ClosingStates /\ Kind[t] # Health     -> "finish"
    [] OTHER                                       -> "idle"

NeedsReapply(t, s, attempt) ==
  Kind[t] = Tuned /\ attempt > 1 /\ s \in ReapplyStates
-----------------------------------------------------------------------------
Init ==
  /\ campaign = [status |-> "CREATED", emergency |-> FALSE, failures |-> 0]
  /\ arriving = {}
  /\ queue = <<>>
  /\ state = [t \in Trial |-> Absent]
  /\ closed = {}
  /\ failure = [t \in Trial |-> None]
  /\ attempts = [t \in Trial |-> 0]
  /\ lease = [t \in Trial |-> NoLease]
  /\ live = {}
  /\ waiting = {}
  /\ ledger = [t \in Trial |-> [s \in Stage |-> NoEntry]]
  /\ restored = {}
  /\ marker = [t \in Trial |-> NoMarker]
  /\ active = Default
  /\ saved = [t \in Trial |-> Default]
  /\ applied = [t \in Trial |-> "ABSENT"]
  /\ worker = [w \in Worker |-> Idle]
-----------------------------------------------------------------------------
(* The operator: control_campaign and the creation of trials.              *)

Control(from, to) ==
  /\ campaign.status \in from
  /\ campaign' = [campaign EXCEPT !.status = to]
  /\ UNCHANGED <<arriving, queue, trialVars, ledger, targetVars, worker>>

Pause  == Control({"RUNNING"}, "PAUSED")
Resume == Control({"CREATED", "PAUSED"}, "RUNNING")
Stop   == Control({"CREATED", "RUNNING", "PAUSED"}, "STOPPED")

(* Mutant: the emergency stop's UPDATE without completed_at IS NULL.       *)
EveryTrial == {t \in Trial : state[t] # Absent}

(* The trials with completed_at IS NULL.                                   *)
OpenTrials == {t \in Trial : state[t] # Absent /\ t \notin closed}

(* Stops the campaign and, in the same transaction, cancels every trial    *)
(* that is not complete and takes its lease away.                          *)
EmergencyStop ==
  LET open == OpenTrials IN
  /\ campaign.status \in {"CREATED", "RUNNING", "PAUSED"}
  /\ campaign' = [campaign EXCEPT !.status = "STOPPED", !.emergency = TRUE]
  /\ state' = [t \in Trial |-> IF t \in open THEN "CANCELLED" ELSE state[t]]
  /\ failure' = [t \in Trial |-> IF t \in open THEN "CANCELLED" ELSE failure[t]]
  /\ lease' = [t \in Trial |-> IF t \in open THEN NoLease ELSE lease[t]]
  /\ live' = live \ open
  /\ closed' = closed \cup open
  /\ UNCHANGED <<arriving, queue, attempts, waiting, ledger, targetVars, worker>>

(* create_*_trial reads the campaign without locking its row ...           *)
AdmitTrial(t) ==
  /\ state[t] = Absent
  /\ t \notin arriving
  /\ campaign.status \in {"CREATED", "RUNNING", "PAUSED"}
  /\ ~campaign.emergency
  /\ arriving' = arriving \cup {t}
  /\ UNCHANGED <<campaign, queue, trialVars, ledger, targetVars, worker>>

(* ... and inserts the trial with a later statement.                       *)
InsertTrial(t) ==
  /\ t \in arriving
  /\ arriving' = arriving \ {t}
  /\ queue' = Append(queue, t)
  /\ state' = [state EXCEPT ![t] = "CREATED"]
  /\ UNCHANGED <<campaign, closed, failure, attempts, lease, live, waiting,
                 ledger, targetVars, worker>>
-----------------------------------------------------------------------------
(* The clock.                                                              *)

LeaseExpires(t) ==
  /\ t \in live
  /\ live' = live \ {t}
  /\ UNCHANGED <<controlVars, state, closed, failure, attempts, lease, waiting,
                 ledger, targetVars, worker>>

BackoffEnds(t) ==
  /\ t \in waiting
  /\ waiting' = waiting \ {t}
  /\ UNCHANGED <<controlVars, state, closed, failure, attempts, lease, live,
                 ledger, targetVars, worker>>
-----------------------------------------------------------------------------
(* claim_next_trial.                                                       *)

(* Mutant: attempt_count <= max_attempts.                                  *)
ClaimableOnceMore(t) ==
  /\ campaign.status = "RUNNING" /\ ~campaign.emergency
  /\ state[t] # Absent /\ t \notin closed
  /\ attempts[t] <= MaxAttempts[t]
  /\ t \notin waiting /\ t \notin live

(* Mutant: lease_expires_at IS NULL, without the alternative of an expired *)
(* lease.                                                                  *)
ClaimableUnleased(t) ==
  /\ campaign.status = "RUNNING" /\ ~campaign.emergency
  /\ state[t] # Absent /\ t \notin closed
  /\ attempts[t] < MaxAttempts[t]
  /\ t \notin waiting /\ lease[t] = NoLease

Claimable(t) ==
  /\ campaign.status = "RUNNING"
  /\ ~campaign.emergency
  /\ state[t] # Absent
  /\ t \notin closed
  /\ attempts[t] < MaxAttempts[t]
  /\ t \notin waiting
  /\ t \notin live

(* The oldest claimable trial.                                             *)
NextInQueue(t) ==
  \E i \in DOMAIN queue :
     /\ queue[i] = t
     /\ Claimable(t)
     /\ \A j \in 1 .. (i - 1) : ~Claimable(queue[j])

Claim(w, t) ==
  LET n == attempts[t] + 1 IN
  /\ worker[w].pc = "idle"
  /\ NextInQueue(t)
  /\ attempts' = [attempts EXCEPT ![t] = n]
  /\ lease' = [lease EXCEPT ![t] = [owner |-> w, token |-> n]]
  /\ live' = live \cup {t}
  /\ Become(w,
       [pc |-> IF NeedsReapply(t, state[t], n) THEN "rebeat"
                                               ELSE EntryPoint(t, state[t]),
        trial |-> t, token |-> n, state |-> state[t], verdict |-> Absent])
  /\ UNCHANGED <<controlVars, state, closed, failure, waiting, ledger, targetVars>>
-----------------------------------------------------------------------------
(* One action of the ledger: _run_action.                                  *)

Entry(w) == ledger[worker[w].trial][worker[w].state]

(* Mutant: a retry resets a COMPLETED row like any other.                  *)
NeverDone(w) == FALSE

(* Mutant: any row an earlier attempt left counts as done.                 *)
OnceStarted(w) == Entry(w).status # "ABSENT"

AlreadyDone(w) == Entry(w).status = "COMPLETED"

(* _record_action_start: a COMPLETED row stays as it is and its stored     *)
(* result is used; any other row is taken over.  No lease is looked at.    *)
(* The health workflow runs its operation without a heartbeat.             *)
StartAction(w) ==
  LET t == worker[w].trial
      s == worker[w].state
  IN
  /\ worker[w].pc = "start"
  /\ \/ /\ AlreadyDone(w)
        /\ Goto(w, "advance")
        /\ UNCHANGED ledger
     \/ /\ ~AlreadyDone(w)
        /\ ledger' = [ledger EXCEPT ![t][s] =
                        [status |-> "STARTED", token |-> worker[w].token]]
        /\ Goto(w, IF Kind[t] = Health THEN "operate" ELSE "beat")
  /\ UNCHANGED <<controlVars, trialVars, targetVars>>

(* The heartbeat in front of the operation; a lost lease raises.           *)
Beat(w) ==
  /\ worker[w].pc \in {"rebeat", "beat"}
  /\ \/ /\ HoldsLive(w)
        /\ Goto(w, IF worker[w].pc = "rebeat" THEN "reapply" ELSE "operate")
     \/ /\ ~HoldsLive(w)
        /\ Goto(w, "handle")
  /\ UNCHANGED <<controlVars, trialVars, ledger, targetVars>>

(***************************************************************************)
(* The target.  apply_configuration and rollback_configuration in summary  *)
(* (module Controller has them step by step): the first application of a   *)
(* trial saves the settings it finds as last-known-good, a rollback        *)
(* restores what was saved.                                                *)
(***************************************************************************)
Snapshot(t) ==
  saved' = IF applied[t] = "ABSENT" THEN [saved EXCEPT ![t] = active] ELSE saved

Apply(t) ==
  /\ Snapshot(t)
  /\ active' = t
  /\ applied' = [applied EXCEPT ![t] = "VERIFIED"]

(* An application that raises has left the settings as they were, or       *)
(* changed and not taken back, or changed and rolled back.                 *)
ApplyRaises(t) ==
  \/ UNCHANGED <<saved, active, applied>>
  \/ /\ Snapshot(t)
     /\ applied' = [applied EXCEPT ![t] = "FAILED"]
     /\ active' \in {active, t}
  \/ /\ Snapshot(t)
     /\ applied' = [applied EXCEPT ![t] = "ROLLED_BACK"]
     /\ active' = saved'[t]

(* Mutant: the rollback is recorded, the settings stay.                    *)
RollbackRecorded(t) ==
  applied' = [applied EXCEPT ![t] = "ROLLED_BACK"] /\ UNCHANGED <<saved, active>>

Rollback(t) ==
  \/ /\ applied[t] = "ABSENT"          \* unknown application: suppressed
     /\ UNCHANGED <<saved, active, applied>>
  \/ /\ applied[t] # "ABSENT"
     /\ active' = saved[t]
     /\ applied' = [applied EXCEPT ![t] = "ROLLED_BACK"]
     /\ UNCHANGED saved

(* Mutant: the active configuration is not compared.                       *)
CanReturnUnverified(t, s) ==
  /\ s = "RESTORING_CANDIDATE_DATASET" => t \in restored \/ active = Default
  /\ s = "VERIFYING_CANDIDATE_BASELINE" => t \in restored
  /\ s = "RELOADING_OR_RESTARTING" => applied[t] = "VERIFIED" /\ active = t
  /\ s = "SELECTING_NEXT_ACTION" => applied[t] # "ABSENT"

(* The condition under which the operation of stage s can return: the      *)
(* restore insists on canonical settings unless the trial's restore has    *)
(* already PASSED; the two verifications read the target's settings.       *)
CanReturn(t, s) ==
  /\ s = "RESTORING_CANDIDATE_DATASET" => t \in restored \/ active = Default
  /\ s = "VERIFYING_CANDIDATE_BASELINE" => t \in restored
  /\ s = "RELOADING_OR_RESTARTING" => applied[t] = "VERIFIED" /\ active = t
  /\ s = "VERIFYING_ACTIVE_CONFIGURATION" => active = Requested(t)
  /\ s = "SELECTING_NEXT_ACTION" => applied[t] # "ABSENT"

RestoreEffect(t, s) ==
  restored' = IF s = "RESTORING_CANDIDATE_DATASET" THEN restored \cup {t}
                                                   ELSE restored

(* run_pgbench_measurement leaves a marker; a marker of an earlier attempt *)
(* is used instead of measuring again.                                     *)
MeasureEffect(t, s) ==
  \/ /\ s = "RUNNING_FULL_EVALUATION" /\ ~marker[t].taken
     /\ \E feasible \in BOOLEAN :
          marker' = [marker EXCEPT ![t] =
            [settings |-> active, feasible |-> feasible, taken |-> TRUE]]
  \/ /\ s # "RUNNING_FULL_EVALUATION" \/ marker[t].taken
     /\ UNCHANGED marker

ConfigurationEffect(t, s) ==
  \/ s = "APPLYING_KNOBS" /\ Apply(t)
  \/ s = "SELECTING_NEXT_ACTION" /\ Rollback(t)
  \/ /\ s \notin {"APPLYING_KNOBS", "SELECTING_NEXT_ACTION"}
     /\ UNCHANGED <<saved, active, applied>>

(* operation() returns.                                                    *)
Operate(w) ==
  LET t == worker[w].trial
      s == worker[w].state
  IN
  /\ worker[w].pc = "operate"
  /\ Kind[t] # Health => CanReturn(t, s)
  /\ RestoreEffect(t, s)
  /\ MeasureEffect(t, s)
  /\ ConfigurationEffect(t, s)
  /\ Goto(w, "record")
  /\ UNCHANGED <<controlVars, trialVars, ledger>>

(* operation() raises, or returns and the heartbeat thread has noted an    *)
(* error: whatever the operation did stays done, its result is dropped.    *)
OperateRaises(w) ==
  LET t == worker[w].trial
      s == worker[w].state
  IN
  /\ worker[w].pc = "operate"
  /\ \/ UNCHANGED targetVars
     \/ /\ s = "APPLYING_KNOBS" /\ ApplyRaises(t)
        /\ UNCHANGED <<restored, marker>>
     \/ /\ Kind[t] # Health /\ CanReturn(t, s)
        /\ RestoreEffect(t, s)
        /\ MeasureEffect(t, s)
        /\ ConfigurationEffect(t, s)
  /\ Goto(w, "handle")
  /\ UNCHANGED <<controlVars, trialVars, ledger>>

(* The extra action of a tuned retry before measurement.  Its ledger row   *)
(* is keyed by the attempt: nobody else writes it and nobody reads it.     *)
Reapply(w) ==
  LET t == worker[w].trial IN
  /\ worker[w].pc = "reapply"
  /\ \/ Apply(t) /\ Goto(w, EntryPoint(t, worker[w].state))
     \/ (Apply(t) \/ ApplyRaises(t)) /\ Goto(w, "handle")
  /\ UNCHANGED <<controlVars, trialVars, ledger, restored, marker>>

(* _record_action_complete: only the row's own token is looked at.         *)
RecordAction(w) ==
  LET t == worker[w].trial
      s == worker[w].state
  IN
  /\ worker[w].pc = "record"
  /\ \/ /\ Entry(w).token = worker[w].token
        /\ ledger' = [ledger EXCEPT ![t][s].status = "COMPLETED"]
        /\ Goto(w, "advance")
     \/ /\ Entry(w).token # worker[w].token
        /\ Goto(w, "handle")
        /\ UNCHANGED ledger
  /\ UNCHANGED <<controlVars, trialVars, targetVars>>

(* _advance: validates the transition, then moves the state in one         *)
(* transaction, provided the lease is held and unexpired and the state is  *)
(* still the expected one.                                                 *)
Advance(w) ==
  LET t == worker[w].trial
      s == worker[w].state
      n == Successor(Kind[t], s, Feasible(t))
      ok == ValidTransition(Kind[t], s, n) /\ HoldsLive(w) /\ state[t] = s
  IN
  /\ worker[w].pc = "advance"
  /\ \/ /\ ok
        /\ state' = [state EXCEPT ![t] = n]
        /\ Become(w, [worker[w] EXCEPT !.state = n,
             !.pc = IF n = "COMPLETED" THEN "finish" ELSE EntryPoint(t, n)])
     \/ /\ ~ok
        /\ Goto(w, "handle")
        /\ UNCHANGED state
  /\ UNCHANGED <<controlVars, closed, failure, attempts, lease, live, waiting,
                 ledger, targetVars>>

(* _complete_trial.                                                        *)
FinishTrial(w) ==
  LET t == worker[w].trial IN
  /\ worker[w].pc = "finish"
  /\ \/ /\ Holds(w)
        /\ closed' = closed \cup {t}
        /\ lease' = [lease EXCEPT ![t] = NoLease]
        /\ live' = live \ {t}
        /\ worker' = [worker EXCEPT ![w] = Idle]
     \/ /\ ~Holds(w)
        /\ Goto(w, "handle")
        /\ UNCHANGED <<closed, lease, live>>
  /\ UNCHANGED <<controlVars, state, failure, attempts, waiting, ledger,
                 targetVars>>
-----------------------------------------------------------------------------
(* Errors and crashes.                                                     *)

(* Any statement may raise (the control database is unreachable, a result  *)
(* is missing) before it has changed anything.                             *)
StepRaises(w) ==
  /\ worker[w].pc \in
       {"rebeat", "start", "beat", "record", "advance", "finish"}
  /\ Goto(w, "handle")
  /\ UNCHANGED <<controlVars, trialVars, ledger, targetVars>>

(* run_once's exception handler up to _fail_trial: it reads the trial's    *)
(* state to name the failure and, for a tuned trial, rolls its             *)
(* configuration back -- without asking whether the lease is still held.   *)
(* A rollback that fails is only added to the error text.                  *)
HandleError(w) ==
  LET t == worker[w].trial
      named ==
        IF Kind[t] = Health THEN {"DATABASE_UNHEALTHY"}
        ELSE {FailureState(state[t])} \cup
             (IF worker[w].state \in ResourceStages
                THEN {"RESOURCE_LIMIT_EXCEEDED"} ELSE {})
  IN
  /\ worker[w].pc = "handle"
  /\ \E v \in named :
       worker' = [worker EXCEPT ![w].pc = "fail", ![w].verdict = v]
  /\ \/ Kind[t] = Tuned /\ Rollback(t)
     \/ UNCHANGED <<saved, active, applied>>
  /\ UNCHANGED <<controlVars, trialVars, ledger, restored, marker>>

(* Mutant: the trial is given up one attempt early.                        *)
NextToLastAttempt(w) ==
  worker[w].token + 1 >= MaxAttempts[worker[w].trial]

LastAttempt(w) == worker[w].token >= MaxAttempts[worker[w].trial]

(* _fail_trial: with its lease a worker ends the trial when the attempts   *)
(* are used up -- counting one failure and failing the campaign at the     *)
(* limit, whatever its status -- and otherwise gives it back for a retry   *)
(* after a delay.  Without the lease it raises and changes nothing.        *)
FailTrial(w) ==
  LET t == worker[w].trial
      n == campaign.failures + 1
  IN
  /\ worker[w].pc = "fail"
  /\ worker' = [worker EXCEPT ![w] = Idle]
  /\ \/ /\ Holds(w)
        /\ lease' = [lease EXCEPT ![t] = NoLease]
        /\ live' = live \ {t}
        /\ \/ /\ LastAttempt(w)
              /\ state' = [state EXCEPT ![t] = worker[w].verdict]
              /\ failure' = [failure EXCEPT ![t] = worker[w].verdict]
              /\ closed' = closed \cup {t}
              /\ campaign' = [campaign EXCEPT !.failures = n,
                   !.status = IF n >= FailureLimit THEN "FAILED" ELSE @]
              /\ UNCHANGED waiting
           \/ /\ ~LastAttempt(w)
              /\ waiting' = waiting \cup {t}
              /\ UNCHANGED <<campaign, state, failure, closed>>
     \/ /\ ~Holds(w)
        /\ UNCHANGED <<campaign, state, closed, failure, lease, live, waiting>>
  /\ UNCHANGED <<arriving, queue, attempts, ledger, targetVars>>

(* The process dies, or its handler cannot reach the database either: all  *)
(* it knew is gone, what it wrote stays, its lease stays until it expires. *)
Crash(w) ==
  /\ worker[w].pc # "idle"
  /\ worker' = [worker EXCEPT ![w] = Idle]
  /\ UNCHANGED <<controlVars, trialVars, ledger, targetVars>>
-----------------------------------------------------------------------------
Operator ==
  \/ Pause \/ Resume \/ Stop \/ EmergencyStop
  \/ \E t \in Trial : AdmitTrial(t) \/ InsertTrial(t)

Clock == \E t \in Trial : LeaseExpires(t) \/ BackoffEnds(t)

Step(w) ==
  \/ StartAction(w) \/ Beat(w) \/ Operate(w) \/ OperateRaises(w) \/ Reapply(w)
  \/ RecordAction(w) \/ Advance(w) \/ FinishTrial(w)
  \/ StepRaises(w) \/ HandleError(w) \/ FailTrial(w)

Next ==
  \/ Operator
  \/ Clock
  \/ \E w \in Worker : \/ \E t \in Trial : Claim(w, t)
                       \/ Step(w)
                       \/ Crash(w)

Spec == Init /\ [][Next]_vars
-----------------------------------------------------------------------------
(***************************************************************************)
(* Fairness.  run_worker_service polls in a loop and is started again      *)
(* after a crash, so an idle worker eventually claims what is claimable    *)
(* and a running one takes its next step.  Time passes: a lease nobody     *)
(* renews expires and a retry delay ends.  Nothing is assumed of the       *)
(* operator, of failures or of the expiry of a lease in use.               *)
(***************************************************************************)
Orphaned(t) ==
  \A w \in Worker : worker[w].trial = t => worker[w].token # lease[t].token

OrphanExpires(t) == Orphaned(t) /\ LeaseExpires(t)

Fairness ==
  /\ \A w \in Worker : /\ WF_vars(Step(w))
                       /\ WF_vars(\E t \in Trial : Claim(w, t))
  /\ \A t \in Trial : WF_vars(OrphanExpires(t)) /\ WF_vars(BackoffEnds(t))

FairSpec == Spec /\ Fairness
-----------------------------------------------------------------------------
Position ==
  {"idle", "rebeat", "reapply", "start", "beat", "operate", "record",
   "advance", "finish", "handle", "fail"}

LocalState ==
  [pc : Position,
   trial : Trial \cup {None}, token : Nat, state : TrialState,
   verdict : {Absent} \cup TerminalStates]

LedgerEntry == [status : {"ABSENT", "STARTED", "COMPLETED"}, token : Nat]

(* Every variable has its type; in particular a failure is only ever filed *)
(* under one of TERMINAL_STATES.                                           *)
TypeOK ==
  /\ campaign \in [status : CampaignStatus, emergency : BOOLEAN, failures : Nat]
  /\ arriving \subseteq Trial
  /\ queue \in Seq(Trial)
  /\ state \in [Trial -> TrialState]
  /\ closed \subseteq Trial
  /\ failure \in [Trial -> TerminalStates \cup {None}]
  /\ attempts \in [Trial -> Nat]
  /\ lease \in [Trial -> [owner : Worker \cup {None}, token : Nat]]
  /\ live \subseteq Trial
  /\ waiting \subseteq Trial
  /\ ledger \in [Trial -> [Stage -> LedgerEntry]]
  /\ restored \subseteq Trial
  /\ marker \in [Trial -> [settings : Configuration, feasible : BOOLEAN,
                           taken : BOOLEAN]]
  /\ active \in Configuration
  /\ saved \in [Trial -> Configuration]
  /\ applied \in [Trial -> {"ABSENT", "VERIFIED", "FAILED", "ROLLED_BACK"}]
  /\ worker \in [Worker -> LocalState]

(* Whatever workers crashed, lost their lease or raced on the way, a trial *)
(* that has not failed is only ever in a state all of whose predecessors   *)
(* have a COMPLETED action: the results _benchmark_action_result looks up  *)
(* are there.                                                              *)
LedgerBehindState ==
  \A t \in Trial : state[t] # Absent /\ failure[t] = None =>
    \A s \in Behind(Kind[t], state[t]) : ledger[t][s].status = "COMPLETED"

(* Only the holder of the latest claim moves a trial: a worker whose lease *)
(* was taken over by a later attempt never changes the state, neither by   *)
(* _advance nor by _fail_trial.                                            *)
FencedTransitions ==
  [][\A t \in Trial :
       state'[t] \notin {state[t], "CREATED", "CANCELLED"} =>
         \E w \in Worker : /\ worker[w].trial = t
                           /\ worker[w].token = attempts[t]
                           /\ worker[w].pc \in {"advance", "fail"}]_vars

(* The result of a completed action is never replaced, not by a retry and  *)
(* not by a stale worker that finishes late.                               *)
StoredResultsAreFinal ==
  [][\A t \in Trial, s \in Stage :
       ledger[t][s].status = "COMPLETED" => ledger'[t][s] = ledger[t][s]]_vars

(* A trial that has ended keeps its state and its failure, is never        *)
(* attempted or leased again: workers still running it, an emergency stop  *)
(* and late failures all leave it alone.                                   *)
ClosedIsFinal ==
  [][\A t \in closed :
       /\ t \in closed'
       /\ state'[t] = state[t] /\ failure'[t] = failure[t]
       /\ attempts'[t] = attempts[t] /\ lease'[t] = NoLease]_vars

(* failure_count is the number of trials that used up their attempts, each *)
(* counted once although a stale worker and its successor may both fail    *)
(* it; the campaign is FAILED exactly when the count has reached the       *)
(* limit; and no trial is given up before its last attempt.                *)
FailureAccounting ==
  LET failed == {t \in Trial : failure[t] \notin {None, "CANCELLED"}} IN
  /\ campaign.failures = Cardinality(failed)
  /\ campaign.status = "FAILED" <=> campaign.failures >= FailureLimit
  /\ \A t \in failed : t \in closed /\ attempts[t] = MaxAttempts[t]

(* A measurement is taken under the settings its trial asked for: never    *)
(* under those a crashed trial left behind, never before its own were      *)
(* applied, never after they were rolled back.                             *)
MeasuredAsRequested ==
  \A t \in Trial : marker[t].taken => marker[t].settings = Requested(t)

(* A tuned trial that ended by itself has left the target: its settings    *)
(* are no longer active.                                                   *)
FinishedLeavesDefault ==
  \A t \in closed : state[t] \in ClosingStates => active # t

-----------------------------------------------------------------------------
(* The inductive invariant behind the safety properties.                   *)

(* What the position of a worker implies about what it remembers.          *)
WorkerOK(w) ==
  LET t == worker[w].trial
      s == worker[w].state
      pc == worker[w].pc
  IN
  pc # "idle" =>
    /\ t \in Trial
    /\ worker[w].token \in 1 .. attempts[t]
    /\ pc \in {"rebeat", "reapply", "start", "beat", "operate", "record"} =>
         s \in StagesOf(Kind[t])
    /\ pc = "advance" =>
         s = "CREATED" \/ (/\ s \in StagesOf(Kind[t])
                           /\ ledger[t][s].status = "COMPLETED")
    /\ pc = "finish" => s \in ClosingStates
    /\ pc = "fail" => worker[w].verdict \in TerminalStates
    /\ Holds(w) => state[t] = s

WorkerInv == \A w \in Worker : WorkerOK(w)

(* A lease belongs to the latest attempt of a trial that has not ended.    *)
LeaseOK(t) ==
  /\ lease[t] # NoLease =>
       /\ lease[t].token = attempts[t]
       /\ lease[t].owner \in Worker
       /\ attempts[t] > 0
       /\ t \notin closed
  /\ t \in live => lease[t] # NoLease
  /\ attempts[t] <= MaxAttempts[t]
  /\ state[t] = Absent => t \notin closed /\ attempts[t] = 0
  /\ t \notin closed => failure[t] = None
  /\ t \in arriving => state[t] = Absent

LeaseInv == \A t \in Trial : LeaseOK(t)

IInv == TypeOK /\ WorkerInv /\ LeaseInv /\ LedgerBehindState
-----------------------------------------------------------------------------
(* The rows promise what DurableTrial says.                                *)
Promise == INSTANCE DurableTrial WITH
  done <- [t \in Trial |->
             {s \in Stage : ledger[t][s].status = "COMPLETED"}]

(* The worker implements the abstract lifecycle.                           *)
ImplementsDurableTrial == Promise!Spec

(* Once created, a trial ends or is out of attempts, unless the campaign   *)
(* leaves RUNNING: crashes, lost leases and retries do not lose it.        *)
Settled(t) ==
  \/ t \in closed
  \/ attempts[t] = MaxAttempts[t] /\ t \notin live
  \/ campaign.status # "RUNNING"

EventuallySettled == \A t \in Trial : state[t] # Absent ~> Settled(t)
=============================================================================
