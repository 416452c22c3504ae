------------------------- MODULE RestoreValidation -------------------------
(***************************************************************************)
(* Work on the restore path that is no campaign: repetitions of a restore  *)
(* that must all pass (the stability check before the screening recovery,  *)
(* the restore soak before the primary campaign), and the rebuilding of    *)
(* the target database after a stability check that failed.                *)
(*                                                                         *)
(* The variables are about the latest series.  What a command of an        *)
(* earlier one could still write are rows nobody reads again; a series or  *)
(* a rebuilding is planned while no command is at work (a bound: the code  *)
(* refuses while it sees a session of its own on the target).              *)
(***************************************************************************)
EXTENDS RunLedger

CONSTANT Repetitions     \* how many restores must pass

ASSUME RepetitionsAssumption == Repetitions \in Nat \ {0}

VARIABLES
  remediation,  \* status of the rebuilding
  validation,   \* status of the series
  rep,          \* status of each repetition
  supersedes    \* the series names a failed one that it supersedes

restoreVars == <<remediation, validation, rep, supersedes>>
stageVars == <<runVars, restoreVars>>

Rep == 1..Repetitions
RestoreStatus == {"NONE", "PLANNED", "RUNNING", "PASSED", "FAILED"}

InitRestore ==
  /\ remediation = "NONE"
  /\ validation = "NONE"
  /\ rep = [r \in Rep |-> "NONE"]
  /\ supersedes = FALSE

Idling == Quiet /\ campaign.status \notin Open
-----------------------------------------------------------------------------
(* The series and its repetitions are planned in one transaction.          *)
PlanSeries(again) ==
  /\ validation' = "PLANNED"
  /\ rep' = [r \in Rep |-> "PLANNED"]
  /\ supersedes' = again
  /\ UNCHANGED <<coreVars, ledgerVars, remediation>>

(* The status is read; a series that is over is reported as such.          *)
BeginRepetition(c) ==
  /\ validation \in {"PLANNED", "RUNNING"}
  /\ Enter(c, [Idle EXCEPT !.at = "claim", !.block = validation])
  /\ UNCHANGED <<kind, campaign, block, trial, target, ledgerVars, restoreVars>>

(* The next repetition is taken, or the command raises.  A command that    *)
(* waits for the row another one takes (FOR UPDATE) does not find it       *)
(* planned any more and goes on to the next: PostgreSQL locks rows before  *)
(* it counts them for LIMIT 1.                                             *)
ClaimRepetition(c) ==
  LET planned == {r \in Rep : rep[r] = "PLANNED"} IN
  /\ caller[c].at = "claim"
  /\ validation' = IF validation = "PLANNED" THEN "RUNNING" ELSE validation
  /\ IF planned = {}
       THEN UNCHANGED rep /\ Leave(c)
       ELSE /\ rep' = [rep EXCEPT ![Min(planned)] = "RUNNING"]
            /\ caller' = [caller EXCEPT ![c] =
                 [Idle EXCEPT !.at = "validate", !.number = Min(planned)]]
  /\ UNCHANGED <<kind, campaign, block, trial, target, overlapped, ledgerVars,
                 remediation, supersedes>>

(* Mutant: the repetitions are counted whatever became of them.            *)
CountStarted(c) ==
  /\ caller[c].at = "validate"
  /\ caller' = [caller EXCEPT ![c].at = "pass",
                              ![c].given = {r \in Rep : rep[r] # "PLANNED"}]
  /\ UNCHANGED <<kind, campaign, block, trial, target, overlapped, ledgerVars,
                 restoreVars>>

(* The restore was good.  The transaction that says so counts what other   *)
(* transactions have committed by now, and commits later.                  *)
CountPassed(c) ==
  /\ caller[c].at = "validate"
  /\ caller' = [caller EXCEPT ![c].at = "pass",
       ![c].given = {r \in Rep : rep[r] = "PASSED"} \cup {caller[c].number}]
  /\ UNCHANGED <<kind, campaign, block, trial, target, overlapped, ledgerVars,
                 restoreVars>>

CommitPassed(c) ==
  /\ caller[c].at = "pass"
  /\ rep' = [rep EXCEPT ![caller[c].number] = "PASSED"]
  /\ validation' = IF caller[c].given = Rep /\ validation = "RUNNING"
                     THEN "PASSED" ELSE validation
  /\ Leave(c)
  /\ UNCHANGED <<kind, campaign, block, trial, target, overlapped, ledgerVars,
                 remediation, supersedes>>

RepetitionFails(c) ==
  /\ caller[c].at = "validate"
  /\ rep' = [rep EXCEPT ![caller[c].number] = "FAILED"]
  /\ validation' = IF validation = "RUNNING" THEN "FAILED" ELSE validation
  /\ Leave(c)
  /\ UNCHANGED <<kind, campaign, block, trial, target, overlapped, ledgerVars,
                 remediation, supersedes>>

Repetition(c) ==
  \/ BeginRepetition(c) \/ ClaimRepetition(c)
  \/ CountPassed(c) \/ CommitPassed(c) \/ RepetitionFails(c)
-----------------------------------------------------------------------------
(* A rebuilding refers to a series that failed, and there is only one.     *)
PlanRemediation ==
  /\ Idling
  /\ validation = "FAILED"
  /\ remediation = "NONE"
  /\ remediation' = "PLANNED"
  /\ UNCHANGED <<coreVars, ledgerVars, validation, rep, supersedes>>

(* The one command that finds it planned drops the database, creates it    *)
(* again, restores and validates it.                                       *)
ClaimRemediation(c) ==
  /\ remediation = "PLANNED"
  /\ Enter(c, [Idle EXCEPT !.at = "rebuild"])
  /\ remediation' = "RUNNING"
  /\ UNCHANGED <<kind, campaign, block, trial, target, ledgerVars, validation, rep, supersedes>>

Rebuild(c) ==
  /\ caller[c].at = "rebuild"
  /\ remediation' \in {"PASSED", "FAILED"}
  /\ Leave(c)
  /\ UNCHANGED <<kind, campaign, block, trial, target, overlapped, ledgerVars,
                 validation, rep, supersedes>>
=============================================================================
