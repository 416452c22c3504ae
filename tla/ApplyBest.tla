----------------------------- MODULE ApplyBest -----------------------------
(***************************************************************************)
(* The deployment of the champion configuration (apply_best.py): one row   *)
(* in experiment_v2_apply_best_deployments, whose status changes a trigger *)
(* checks, and four operator commands on it.  Three of them change the     *)
(* target through the controller, under one application id for the         *)
(* recovery test and one for the activation.                               *)
(*                                                                         *)
(* The position of a command:                                              *)
(*   recheck    a failed recovery test is to be repeated: was it undone?   *)
(*   claim      about to write the status that says what is being done     *)
(*   apply, applying      about to call apply_configuration, inside it     *)
(*   check      about to look at the settings and the target's health      *)
(*   restore, restoring   the same for rollback_configuration              *)
(*   complete   about to write the status that says it is done             *)
(*   cleanup, cleaning    the recovery test's handler rolls back           *)
(*   mark       about to run _mark_failed                                  *)
(***************************************************************************)
EXTENDS Controller

CONSTANTS
  Recovery,     \* the application id of the recovery test
  Activation    \* the application id of the activation

ASSUME ApplicationsAssumption ==
  Application = {Recovery, Activation} /\ Recovery # Activation

VARIABLES
  deployment,   \* the row; status ABSENT before apply-best-prepare
  op            \* each caller's command

deploymentVars == <<deployment, op>>
allVars == <<vars, deploymentVars>>
-----------------------------------------------------------------------------
NoCommand == [command |-> "none", at |-> "idle", read |-> "ABSENT",
              applied |-> FALSE]

Proceed(c, at) == op' = [op EXCEPT ![c].at = at]

(* The command returns or raises.                                          *)
Leave(c) == op' = [op EXCEPT ![c] = NoCommand]

App(c) == IF op[c].command = "test" THEN Recovery ELSE Activation

Exists(a) == status[a] # "ABSENT"
RolledBack(a) == status[a] = "ROLLED_BACK" /\ a \in reverted

(* An earlier release left its recovery test without an application.       *)
InitDeployment ==
  /\ Init
  /\ \E s \in {"ABSENT", "RECOVERY_TESTING"} :
       deployment = [status |-> s, authorized |-> FALSE,
                     recovery |-> FALSE, activation |-> FALSE]
  /\ op = [c \in Caller |-> NoCommand]
-----------------------------------------------------------------------------
(* The trigger of migration 044 and the foreign keys of the row.           *)

Ordinary ==
  {<<"PREPARED", "RECOVERY_TESTING">>, <<"RECOVERY_TESTING", "RECOVERY_TESTED">>,
   <<"RECOVERY_TESTED", "ACTIVATING">>, <<"ACTIVATING", "ACTIVE">>,
   <<"ACTIVE", "ROLLING_BACK">>, <<"ROLLING_BACK", "ROLLED_BACK">>}
  \cup {"PREPARED", "RECOVERY_TESTING", "RECOVERY_TESTED", "ACTIVATING",
        "ACTIVE", "ROLLING_BACK"} \X {"FAILED"}

TestAgain(row) ==
  /\ deployment.status = "FAILED" /\ row.status = "RECOVERY_TESTING"
  /\ ~deployment.authorized
  /\ row.recovery /\ RolledBack(Recovery)

GiveUpActivation(row) ==
  /\ deployment.status \in {"ACTIVATING", "FAILED"}
  /\ row.status = "ROLLING_BACK"
  /\ deployment.authorized
  /\ row.activation /\ Exists(Activation)

(* Mutant: the trigger of migration 043.                                   *)
AcceptedBefore44(row) ==
  /\ row.status # deployment.status =>
       <<deployment.status, row.status>> \in Ordinary \/ TestAgain(row)
  /\ deployment.status = "ROLLED_BACK" => row = deployment
  /\ row.recovery => Exists(Recovery)
  /\ row.activation => Exists(Activation)

Accepted(row) ==
  /\ row.status # deployment.status =>
       \/ <<deployment.status, row.status>> \in Ordinary
       \/ TestAgain(row) \/ GiveUpActivation(row)
  /\ deployment.status = "ROLLED_BACK" => row = deployment
  /\ row.recovery => Exists(Recovery)
  /\ row.activation => Exists(Activation)
-----------------------------------------------------------------------------
(* apply-best-prepare: a second insert violates the singleton index, a     *)
(* second call returns the row.                                            *)
Prepare ==
  /\ deployment.status = "ABSENT"
  /\ deployment' = [deployment EXCEPT !.status = "PREPARED"]
  /\ UNCHANGED <<vars, op>>

(* A command reads the row and checks that its status allows it.           *)
Begin(c, command, at) ==
  /\ op[c].at = "idle"
  /\ op' = [op EXCEPT ![c] = [command |-> command, at |-> at, applied |-> FALSE,
                              read |-> deployment.status]]
  /\ UNCHANGED <<vars, deployment>>

BeginTest(c) ==
  \/ deployment.status = "PREPARED" /\ Begin(c, "test", "claim")
  \/ deployment.status = "FAILED" /\ Begin(c, "test", "recheck")
  \/ deployment.status = "RECOVERY_TESTING" /\ Begin(c, "test", "apply")

BeginActivation(c) ==
  \/ deployment.status = "RECOVERY_TESTED" /\ Begin(c, "activate", "claim")
  \/ deployment.status = "ACTIVATING" /\ Begin(c, "activate", "apply")

BeginRollback(c) ==
  \/ /\ deployment.status \in {"ACTIVATING", "ACTIVE"}
     /\ Begin(c, "rollback", "claim")
  \/ /\ deployment.status = "FAILED" /\ deployment.authorized
     /\ Begin(c, "rollback", "claim")
  \/ deployment.status = "ROLLING_BACK" /\ Begin(c, "rollback", "restore")

(* A failed recovery test is repeated only after a verified rollback.      *)
Recover(c) ==
  /\ op[c].at = "recheck"
  /\ IF RolledBack(Recovery) THEN Proceed(c, "claim") ELSE Leave(c)
  /\ UNCHANGED <<vars, deployment>>

(* UPDATE ... WHERE status = what was read.  The trigger or a foreign key  *)
(* may refuse it; whether it found the row is not always looked at.        *)
ClaimRow(c, row, next, missed) ==
  /\ op[c].at = "claim"
  /\ \/ /\ deployment.status = op[c].read /\ Accepted(row)
        /\ deployment' = row /\ Proceed(c, next)
     \/ /\ deployment.status = op[c].read /\ ~Accepted(row)
        /\ UNCHANGED deployment /\ Leave(c)
     \/ /\ deployment.status # op[c].read
        /\ UNCHANGED deployment
        /\ IF missed = "idle" THEN Leave(c) ELSE Proceed(c, missed)
  /\ UNCHANGED vars

ClaimTest(c) ==
  /\ op[c].command = "test"
  /\ ClaimRow(c, [deployment EXCEPT !.status = "RECOVERY_TESTING",
                                    !.recovery = TRUE], "apply", "apply")

(* The operator's decision is stored before anything changes.              *)
Authorize(c) ==
  /\ op[c].command = "activate"
  /\ ClaimRow(c, [deployment EXCEPT !.status = "ACTIVATING",
                                    !.authorized = TRUE], "apply", "idle")

ClaimRollback(c) ==
  /\ op[c].command = "rollback"
  /\ ClaimRow(c, [deployment EXCEPT !.status = "ROLLING_BACK",
                                    !.activation = TRUE], "restore", "restore")
-----------------------------------------------------------------------------
(* The controller does the work ...                                        *)

CallApply(c) ==
  /\ op[c].at = "apply"
  /\ Apply(c, App(c), TRUE)
  /\ Proceed(c, "applying")
  /\ UNCHANGED deployment

CallRollback(c, at, next) ==
  /\ op[c].at = at
  /\ Rollback(c, App(c))
  /\ Proceed(c, next)
  /\ UNCHANGED deployment

Restore(c) == CallRollback(c, "restore", "restoring")
CleanUp(c) == CallRollback(c, "cleanup", "cleaning")

Work(c) == Step(c) /\ UNCHANGED deploymentVars
WorkFails(c) == (TryRaises(c) \/ CallRaises(c)) /\ UNCHANGED deploymentVars

(* ... and returns or raises.                                              *)

(* Where a failure inside the try block leads: only the recovery test      *)
(* rolls back, and only when its apply has returned.                       *)
Handler(c) ==
  IF op[c].command = "test" /\ op[c].applied THEN "cleanup" ELSE "mark"

Applied(c) ==
  /\ op[c].at = "applying" /\ call[c].pc = "idle"
  /\ IF call[c].result = "returned"
     THEN op' = [op EXCEPT ![c].at = "check", ![c].applied = TRUE]
     ELSE Proceed(c, Handler(c))
  /\ UNCHANGED <<vars, deployment>>

(* Settings and health are as they should be after the apply.              *)
Check(c) ==
  /\ op[c].at = "check"
  /\ Proceed(c, IF Active(App(c)) # Requested[App(c)] THEN Handler(c)
                ELSE IF op[c].command = "test" THEN "restore" ELSE "complete")
  /\ UNCHANGED <<vars, deployment>>

(* Mutant: an exception of the rollback is swallowed.                      *)
RestoredRegardless(c) ==
  /\ op[c].at = "restoring" /\ call[c].pc = "idle"
  /\ Proceed(c, "complete")
  /\ UNCHANGED <<vars, deployment>>

Restored(c) ==
  /\ op[c].at = "restoring" /\ call[c].pc = "idle"
  /\ Proceed(c, IF call[c].result = "returned" THEN "complete" ELSE Handler(c))
  /\ UNCHANGED <<vars, deployment>>

(* The handler goes on to mark the failure whatever the rollback did.      *)
Cleaned(c) ==
  /\ op[c].at = "cleaning" /\ call[c].pc = "idle"
  /\ Proceed(c, "mark")
  /\ UNCHANGED <<vars, deployment>>
-----------------------------------------------------------------------------
(* The last UPDATE.  Only the recovery test notices that the status is not *)
(* the one it expects.                                                     *)

Done(c) ==
  CASE op[c].command = "test" ->
         [deployment EXCEPT !.status = "RECOVERY_TESTED", !.recovery = TRUE]
    [] op[c].command = "activate" ->
         [deployment EXCEPT !.status = "ACTIVE", !.activation = TRUE]
    [] op[c].command = "rollback" ->
         [deployment EXCEPT !.status = "ROLLED_BACK"]

Expected(c) ==
  CASE op[c].command = "test"     -> "RECOVERY_TESTING"
    [] op[c].command = "activate" -> "ACTIVATING"
    [] op[c].command = "rollback" -> "ROLLING_BACK"

Complete(c) ==
  /\ op[c].at = "complete"
  /\ \/ /\ deployment.status = Expected(c)
        /\ deployment' = Done(c) /\ Leave(c)
     \/ /\ deployment.status # Expected(c)
        /\ UNCHANGED deployment
        /\ IF op[c].command = "test" THEN Proceed(c, Handler(c)) ELSE Leave(c)
  /\ UNCHANGED vars

(* Mutant: the application ids are filed without looking them up.          *)
MarkFailedBlindly(c) ==
  /\ op[c].at = "mark"
  /\ deployment' =
       IF deployment.status \in {"FAILED", "ROLLED_BACK"} THEN deployment
       ELSE [deployment EXCEPT
               !.status = "FAILED",
               !.recovery = @ \/ op[c].command = "test",
               !.activation = @ \/ op[c].command = "activate"]
  /\ Leave(c)
  /\ UNCHANGED vars

(* _mark_failed, which files the application if there is one.              *)
MarkFailed(c) ==
  /\ op[c].at = "mark"
  /\ deployment' =
       IF deployment.status \in {"FAILED", "ROLLED_BACK"} THEN deployment
       ELSE [deployment EXCEPT
               !.status = "FAILED",
               !.recovery = @ \/ (op[c].command = "test" /\ Exists(Recovery)),
               !.activation = @ \/ (op[c].command = "activate"
                                      /\ Exists(Activation))]
  /\ Leave(c)
  /\ UNCHANGED vars
-----------------------------------------------------------------------------
(* Failures: an unhealthy target or a statement that fails, inside the try *)
(* block or outside it; the command's process dies.                        *)

CommandRaises(c) ==
  /\ \/ op[c].at \in {"check", "complete"} /\ Proceed(c, Handler(c))
     \/ op[c].at \in {"recheck", "claim", "mark"} /\ Leave(c)
  /\ UNCHANGED <<vars, deployment>>

CommandDies(c) ==
  /\ op[c].at # "idle"
  /\ Leave(c)
  /\ call' = [call EXCEPT ![c] = Idle]
  /\ UNCHANGED <<targetVars, rowVars, deployment>>

TargetRestartsAlone == TargetRestarts /\ UNCHANGED deploymentVars

CommandStep(c) ==
  \/ Recover(c) \/ ClaimTest(c) \/ Authorize(c) \/ ClaimRollback(c)
  \/ CallApply(c) \/ Applied(c) \/ Check(c) \/ Restore(c) \/ Restored(c)
  \/ CleanUp(c) \/ Cleaned(c) \/ Complete(c) \/ MarkFailed(c)
  \/ Work(c)

CommandBegins(c) == BeginTest(c) \/ BeginActivation(c) \/ BeginRollback(c)

NextDeployment ==
  \/ Prepare
  \/ \E c \in Caller :
       \/ CommandBegins(c) \/ CommandStep(c)
       \/ WorkFails(c) \/ CommandRaises(c) \/ CommandDies(c)
  \/ TargetRestartsAlone

SpecDeployment == InitDeployment /\ [][NextDeployment]_allVars

(* Failures stop at some time, and the operators keep trying to test and   *)
(* to roll back.                                                           *)
FairnessDeployment ==
  /\ <>[][\/ Prepare
          \/ \E c \in Caller : CommandBegins(c) \/ CommandStep(c)]_allVars
  /\ WF_allVars(Prepare)
  /\ \A c \in Caller : /\ WF_allVars(CommandStep(c))
                       /\ SF_allVars(BeginTest(c))
                       /\ SF_allVars(BeginRollback(c))

FairSpecDeployment == SpecDeployment /\ FairnessDeployment
-----------------------------------------------------------------------------
DeploymentStatus ==
  {"ABSENT", "PREPARED", "RECOVERY_TESTING", "RECOVERY_TESTED", "ACTIVATING",
   "ACTIVE", "ROLLING_BACK", "ROLLED_BACK", "FAILED"}

(* The row and the commands have their types, the row's references point   *)
(* to applications that exist, and the controller works for a command      *)
(* exactly while that waits for it.                                        *)
DeploymentTypeOK ==
  /\ deployment \in [status : DeploymentStatus, authorized : BOOLEAN,
                     recovery : BOOLEAN, activation : BOOLEAN]
  /\ deployment.recovery => Exists(Recovery)
  /\ deployment.activation => Exists(Activation)
  /\ \A c \in Caller :
       /\ op[c] \in [command : {"none", "test", "activate", "rollback"},
                     at : {"idle", "recheck", "claim", "apply", "applying",
                           "check", "restore", "restoring", "complete",
                           "cleanup", "cleaning", "mark"},
                     read : DeploymentStatus, applied : BOOLEAN]
       /\ call[c].pc # "idle" => op[c].at \in {"applying", "restoring", "cleaning"}

(* A recovery test that passed has left no trace, not in the file and not  *)
(* in the server, whatever earlier attempts of it did, and the activation  *)
(* starts from there: its snapshot is the original configuration.          *)
TestLeavesNoTrace ==
  /\ deployment.status \in {"PREPARED", "RECOVERY_TESTED"} =>
       file = Boot /\ active = Boot
  /\ Exists(Activation) => \A k \in Knobs(Activation) :
                             snapshot[Activation][k] = Boot[k]

(* An activation that has begun can be undone: an operator who keeps       *)
(* asking for the rollback gets it.                                        *)
ActivationCanBeUndone ==
  Exists(Activation) ~> deployment.status = "ROLLED_BACK"
=============================================================================
