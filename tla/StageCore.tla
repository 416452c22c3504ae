----------------------------- MODULE StageCore -----------------------------
(***************************************************************************)
(* What every campaign stage is built from: the campaign row and           *)
(* control_campaign, the trials of the campaign as run_once sees them, and *)
(* the commands at work on it.  A command reads and writes the database in *)
(* several transactions; its position `at` says which comes next, and      *)
(* other commands, an operator or a crash may come between two of them.    *)
(* A trial is what DurableTrial promises of it, without its stages.        *)
(***************************************************************************)
EXTENDS Naturals, FiniteSets, FiniteSetsExt

CONSTANTS
  Caller,        \* processes that run the commands
  Kind,          \* the stages of this instance
  TrialId,       \* pairs <<slot, attempt number>>
  MaxTries,      \* max_attempts of a trial, by stage
  FailureLimit,  \* failure_limit of the campaign, by stage
  MayOverlap     \* bound: the stages in which commands may run at once

ASSUME StageCoreAssumption ==
  /\ MaxTries \in [Kind -> Nat \ {0}]
  /\ FailureLimit \in [Kind -> Nat \ {0}]
  /\ MayOverlap \subseteq Kind
  /\ TrialId \subseteq Nat \X Nat

VARIABLES
  kind,        \* the stage this behaviour is about; never changes
  campaign,    \* its row: status, emergency_stop, failure_count
  block,       \* status of the stage's block row, NONE before it is inserted
  trial,       \* trials by id: their state and the attempts begun
  target,      \* whose configuration the target server has
  caller,      \* the command each caller is in, and what it remembers
  overlapped   \* two commands on this campaign have run at once

coreVars == <<kind, campaign, block, trial, target, caller, overlapped>>
-----------------------------------------------------------------------------
Open == {"CREATED", "RUNNING", "PAUSED"}
CampaignStatus == Open \cup {"NONE", "STOPPED", "FAILED"}

(* INVALID is a trial that completed with benchmark failures; INFRA and    *)
(* CANDIDATE failed, with or without one of the infrastructure types;      *)
(* LAPSED and INTERRUPTED are held by a process that died, the latter in   *)
(* its measurement when the host lost power; UNFILED is a saturation probe *)
(* with benchmark failures, which nothing ever completes.                  *)
Ended == {"COMPLETED", "INVALID", "INFRA", "CANDIDATE", "CANCELLED"}
TrialState == Ended \cup {"NONE", "QUEUED", "RUNNING", "LAPSED",
                          "INTERRUPTED", "UNFILED"}

Absent == [state |-> "NONE", tries |-> 0]
NoTrial == <<0, 0>>
Default == NoTrial   \* the target has nobody's configuration

(* `seen` and `block` are the statuses the command read when it began,     *)
(* `open` whether it found a trial in flight, `slot` and `number` the work *)
(* it chose, `given` what it read for that work, `trial` the one it        *)
(* executes.                                                               *)
Idle == [at |-> "idle", seen |-> "NONE", block |-> "NONE", open |-> FALSE,
         slot |-> 0, number |-> 0, given |-> {}, trial |-> NoTrial]

Proceed(c, at) == caller' = [caller EXCEPT ![c].at = at]
Leave(c) == caller' = [caller EXCEPT ![c] = Idle]
Busy == {c \in Caller : caller[c].at # "idle"}
Quiet == Busy = {}

(* create_..._plan: the campaign in one transaction, block and slots in    *)
(* the next.  Two creations at once are not modelled.                      *)
OpenCampaign(c, ready) ==
  /\ ready
  /\ Quiet
  /\ campaign.status \notin Open
  /\ campaign' = [status |-> "CREATED", emergency |-> FALSE, failures |-> 0]
  /\ Proceed(c, "ledger")
  /\ UNCHANGED <<kind, block, trial, target, overlapped>>

(* A command starts; unless it is given, it has read nothing yet.          *)
Enter(c, command) ==
  /\ caller[c].at = "idle"
  /\ Quiet \/ kind \in MayOverlap
  /\ caller' = [caller EXCEPT ![c] = command]
  /\ overlapped' = (overlapped \/ ~Quiet)

(* run-next: it starts with what it reads of campaign and block.           *)
Begin(c, at) ==
  /\ block # "NONE"
  /\ Enter(c, [Idle EXCEPT !.at = at, !.seen = campaign.status, !.block = block])

InitCore ==
  /\ kind \in Kind
  /\ campaign = [status |-> "NONE", emergency |-> FALSE, failures |-> 0]
  /\ block = "NONE"
  /\ trial = [t \in TrialId |-> Absent]
  /\ target = Default
  /\ caller = [c \in Caller |-> Idle]
  /\ overlapped = FALSE
-----------------------------------------------------------------------------
(* control_campaign, as the operator uses it.                              *)

Allowed(action) ==
  CASE action = "pause" -> {"RUNNING"}
    [] action = "resume" -> {"CREATED", "PAUSED"}
    [] OTHER -> Open

Target(action) ==
  CASE action = "pause" -> "PAUSED" [] action = "resume" -> "RUNNING"
    [] OTHER -> "STOPPED"

Unfinished == {t \in TrialId : trial[t].state \notin Ended \cup {"NONE"}}

Control ==
  /\ \E action \in {"pause", "resume", "stop", "emergency-stop"} :
       /\ campaign.status \in Allowed(action)
       /\ campaign' = [campaign EXCEPT
            !.status = Target(action),
            !.emergency = @ \/ action = "emergency-stop"]
       /\ trial' = [t \in TrialId |->
            IF action = "emergency-stop" /\ t \in Unfinished
              THEN [trial[t] EXCEPT !.state = "CANCELLED"] ELSE trial[t]]
  /\ UNCHANGED <<kind, block, target, caller, overlapped>>

(* The last step of a command that pauses or stops the campaign.  Where    *)
(* the action is not allowed it raises; either way the command is over.    *)
Steer(c, action) ==
  /\ caller[c].at = action
  /\ campaign' = IF campaign.status \in Allowed(action)
                   THEN [campaign EXCEPT !.status = Target(action)] ELSE campaign
  /\ Leave(c)
  /\ UNCHANGED <<kind, block, trial, target, overlapped>>
-----------------------------------------------------------------------------
(* Trials.                                                                 *)

AcceptsTrials == campaign.status \in Open /\ ~campaign.emergency

(* create_tuned_benchmark_trial: refused by a closed campaign, and the     *)
(* idempotency key finds a trial that is already there.                    *)
CreateTrial(c, t, next) ==
  /\ IF AcceptsTrials
       THEN /\ trial' = IF trial[t] = Absent
                          THEN [trial EXCEPT ![t].state = "QUEUED"] ELSE trial
            /\ Proceed(c, next)
       ELSE /\ UNCHANGED trial
            /\ Leave(c)
  /\ UNCHANGED <<kind, campaign, block, target, overlapped>>

(* Mutant: the number of attempts is not looked at.                        *)
ClaimableForEver ==
  IF campaign.status = "RUNNING" /\ ~campaign.emergency
    THEN {t \in TrialId : trial[t].state \in {"QUEUED", "LAPSED", "INTERRUPTED"}}
    ELSE {}

Claimable ==
  IF campaign.status = "RUNNING" /\ ~campaign.emergency
    THEN {t \in TrialId : /\ trial[t].state \in {"QUEUED", "LAPSED", "INTERRUPTED"}
                          /\ trial[t].tries < MaxTries[kind]}
    ELSE {}

(* run_once claims a trial of the campaign, or finds none and returns.     *)
RunOnce(c, next) ==
  /\ caller[c].at = "run_once"
  /\ \/ \E t \in Claimable :
          /\ trial' = [trial EXCEPT ![t] = [state |-> "RUNNING", tries |-> @.tries + 1]]
          /\ caller' = [caller EXCEPT ![c].at = "measure", ![c].trial = t]
     \/ /\ Claimable = {}
        /\ UNCHANGED trial
        /\ Proceed(c, next)
  /\ UNCHANGED <<kind, campaign, block, target, overlapped>>

(* The trial ends well.                                                    *)
Measured(c, next) ==
  LET t == caller[c].trial IN
  /\ caller[c].at = "measure"
  /\ trial[t].state = "RUNNING"
  /\ target \in {Default, t}
  /\ \E outcome \in {"COMPLETED", "INVALID"} :
       trial' = [trial EXCEPT ![t].state = outcome]
  /\ target' = Default
  /\ caller' = [caller EXCEPT ![c].at = next, ![c].trial = NoTrial]
  /\ UNCHANGED <<kind, campaign, block, overlapped>>

(* An attempt fails and run_once raises, so the command ends.  The last    *)
(* attempt ends the trial and counts against the campaign.  A target that  *)
(* is not at its defaults fails the checks before the measurement.         *)
AttemptFails(c) ==
  LET t == caller[c].trial
      last == trial[t].tries = MaxTries[kind]
      failures == campaign.failures + 1
  IN
  /\ caller[c].at = "measure"
  /\ trial[t].state = "RUNNING"
  /\ \E outcome \in IF target \in {Default, t} THEN {"INFRA", "CANDIDATE"}
                                                 ELSE {"INFRA"} :
       trial' = [trial EXCEPT ![t].state = IF last THEN outcome ELSE "QUEUED"]
  /\ campaign' = IF last
       THEN [campaign EXCEPT !.failures = failures,
               !.status = IF failures >= FailureLimit[kind] THEN "FAILED" ELSE @]
       ELSE campaign
  /\ target' = IF target = t THEN Default ELSE target
  /\ Leave(c)
  /\ UNCHANGED <<kind, block, overlapped>>

(* An emergency stop took the lease away.                                  *)
LeaseLost(c) ==
  /\ caller[c].at = "measure"
  /\ trial[caller[c].trial].state # "RUNNING"
  /\ Leave(c)
  /\ UNCHANGED <<kind, campaign, block, trial, target, overlapped>>

(* A trial sets the target up for itself, except in phase one of the       *)
(* saturation, where the ladder has done so.                               *)
Tunes == kind # "saturation"

(* The process dies between two transactions, or in a measurement, before  *)
(* or after it gave the target the configuration of its trial.             *)
Crash(c) ==
  LET t == caller[c].trial IN
  /\ c \in Busy
  /\ IF caller[c].at = "measure" /\ trial[t].state = "RUNNING"
       THEN /\ trial' = [trial EXCEPT ![t].state = "LAPSED"]
            /\ target' \in {target} \cup IF target = Default /\ Tunes THEN {t} ELSE {}
       ELSE UNCHANGED <<trial, target>>
  /\ Leave(c)
  /\ UNCHANGED <<kind, campaign, block, overlapped>>

Worker(c, next) ==
  RunOnce(c, next) \/ Measured(c, next) \/ AttemptFails(c) \/ LeaseLost(c)
=============================================================================
