---------------------------- MODULE DurableTrial ----------------------------
(***************************************************************************)
(* What the durable worker promises about the rows of charm_control,       *)
(* stated without workers, leases, heartbeats or crashes: a trial is       *)
(* attempted at most max_attempts times, walks its workflow one stage at a *)
(* time, leaves a stage only when that stage's action is complete, keeps   *)
(* every completed action, and ends exactly once.  TrialWorker implements  *)
(* this.                                                                   *)
(***************************************************************************)
EXTENDS TrialStates

CONSTANTS Trial, Kind, MaxAttempts, FailureLimit, None

VARIABLES
  campaign,   \* status, emergency flag and failure count of the campaign
  state,      \* the trial's state, Absent before it is created
  closed,     \* the trials that have ended
  failure,    \* how a trial that failed or was cancelled is filed
  attempts,   \* attempts begun
  done        \* the stages whose action is complete

vars == <<campaign, state, closed, failure, attempts, done>>

Init ==
  /\ campaign = [status |-> "CREATED", emergency |-> FALSE, failures |-> 0]
  /\ state = [t \in Trial |-> Absent]
  /\ closed = {}
  /\ failure = [t \in Trial |-> None]
  /\ attempts = [t \in Trial |-> 0]
  /\ done = [t \in Trial |-> {}]

Steer ==
  /\ \E to \in {"RUNNING", "PAUSED", "STOPPED"} :
       campaign' = [campaign EXCEPT !.status = to]
  /\ campaign.status \notin {"STOPPED", "FAILED"}
  /\ UNCHANGED <<state, closed, failure, attempts, done>>

(* A creation may land after the campaign has stopped.                     *)
Create(t) ==
  /\ state[t] = Absent
  /\ state' = [state EXCEPT ![t] = "CREATED"]
  /\ UNCHANGED <<campaign, closed, failure, attempts, done>>

CancelAll ==
  LET open == {t \in Trial : state[t] # Absent /\ t \notin closed} IN
  /\ campaign.status \notin {"STOPPED", "FAILED"}
  /\ campaign' = [campaign EXCEPT !.status = "STOPPED", !.emergency = TRUE]
  /\ state' = [t \in Trial |-> IF t \in open THEN "CANCELLED" ELSE state[t]]
  /\ failure' = [t \in Trial |-> IF t \in open THEN "CANCELLED" ELSE failure[t]]
  /\ closed' = closed \cup open
  /\ UNCHANGED <<attempts, done>>

Attempt(t) ==
  /\ campaign.status = "RUNNING"
  /\ state[t] # Absent /\ t \notin closed
  /\ attempts[t] < MaxAttempts[t]
  /\ attempts' = [attempts EXCEPT ![t] = @ + 1]
  /\ UNCHANGED <<campaign, state, closed, failure, done>>

(* An action may complete late, when the trial has already ended.          *)
CompleteAction(t) ==
  /\ UNCHANGED <<campaign, state, closed, failure, attempts>>
  /\ attempts[t] > 0
  /\ \E s \in StagesOf(Kind[t]) \ done[t] :
       done' = [done EXCEPT ![t] = @ \cup {s}]

Move(t, feasible) ==
  /\ t \notin closed /\ attempts[t] > 0
  /\ state[t] = "CREATED" \/ state[t] \in done[t]
  /\ state' = [state EXCEPT ![t] = Successor(Kind[t], state[t], feasible)]
  /\ UNCHANGED <<campaign, closed, failure, attempts, done>>

Finish(t) ==
  /\ t \notin closed
  /\ state[t] \in ClosingStates
  /\ closed' = closed \cup {t}
  /\ UNCHANGED <<campaign, state, failure, attempts, done>>

GiveUp(t, verdict) ==
  /\ state[t] # Absent /\ t \notin closed
  /\ attempts[t] = MaxAttempts[t]
  /\ closed' = closed \cup {t}
  /\ state' = [state EXCEPT ![t] = verdict]
  /\ failure' = [failure EXCEPT ![t] = verdict]
  /\ campaign' = [campaign EXCEPT !.failures = @ + 1,
       !.status = IF campaign.failures + 1 >= FailureLimit THEN "FAILED" ELSE @]
  /\ UNCHANGED <<attempts, done>>

Next ==
  \/ Steer \/ CancelAll
  \/ \E t \in Trial :
       \/ Create(t) \/ Attempt(t) \/ CompleteAction(t) \/ Finish(t)
       \/ \E feasible \in BOOLEAN : Move(t, feasible)
       \/ \E verdict \in TerminalStates : GiveUp(t, verdict)

Spec == Init /\ [][Next]_vars
=============================================================================
