--------------------------- MODULE ApplyBest_proofs ---------------------------
(***************************************************************************)
(* Proofs about ApplyBest for every set of knobs and values and whatever   *)
(* test and activation ask for: the row and the commands on it fit the     *)
(* controller's calls and rows, for any number of operators; and for one   *)
(* operator a recovery test that passed has left no trace.                 *)
(***************************************************************************)
EXTENDS ApplyBest, Controller_proofs

RowState == [status : DeploymentStatus, authorized : BOOLEAN,
             recovery : BOOLEAN, activation : BOOLEAN]

CommandState ==
  [command : {"none", "test", "activate", "rollback"},
   at : {"idle", "recheck", "claim", "apply", "applying", "check", "restore",
         "restoring", "complete", "cleanup", "cleaning", "mark"},
   read : DeploymentStatus, applied : BOOLEAN]

References ==
  /\ deployment.recovery => Exists(Recovery)
  /\ deployment.activation => Exists(Activation)

Working == {"applying", "restoring", "cleaning"}
Undoing == {"find", "recheck", "rewrite", "reactivate", "reverify", "record"}

AppOf(o) == IF o.command = "test" THEN Recovery ELSE Activation

(* What the position of a command says about its call: the controller      *)
(* works on the command's application while the command waits for it, a    *)
(* rollback of its own returns to it, one inside an apply does not; ...    *)
CallFits(o, l) ==
  /\ l.pc # "idle" => o.at \in Working /\ l.app = AppOf(o)
  /\ o.at \in {"restoring", "cleaning"} /\ l.pc # "idle" =>
       l.pc \in Undoing /\ l.after = "return"
  /\ o.at = "applying" /\ l.pc \in Undoing => l.after # "return"

(* ... which command it is; and that the application has a row once its    *)
(* apply has returned.                                                     *)
CommandFits(o, l) ==
  /\ o.at # "idle" => o.command # "none"
  /\ o.at \in {"apply", "applying", "check"} => o.command \in {"test", "activate"}
  /\ o.at \in {"restore", "restoring"} => o.command \in {"test", "rollback"}
  /\ o.at \in {"recheck", "cleanup", "cleaning"} => o.command = "test"
  /\ o.applied => Exists(AppOf(o))
  /\ \/ o.at = "check"
     \/ o.command = "test" /\ o.at \in {"restore", "restoring"}
     \/ o.command # "rollback" /\ o.at = "complete"
     => o.applied
  /\ o.at = "applying" /\ l.pc = "idle" /\ l.result = "returned" => Exists(AppOf(o))

DeploymentInv ==
  /\ RecoveryInv
  /\ deployment \in RowState /\ References
  /\ op \in [Caller -> CommandState]
  /\ \A c \in Caller : CallFits(op[c], call[c]) /\ CommandFits(op[c], call[c])

(* The deployment has two applications, and they differ.                   *)
LEMMA TwoApplications ==
  /\ Recovery \in Application /\ Activation \in Application
  /\ Recovery # Activation
  /\ \A a \in Application : a = Recovery \/ a = Activation
BY ApplicationsAssumption

(* The initial state: no command is under way.                             *)
LEMMA InitDeploymentInv == InitDeployment => DeploymentInv
<1>. SUFFICES ASSUME InitDeployment PROVE DeploymentInv
  OBVIOUS
<1>1. RecoveryInv
  BY InitRecovery DEF InitDeployment
<1>2. deployment \in RowState /\ References
  BY DEF InitDeployment, RowState, DeploymentStatus, References
<1>3. NoCommand \in CommandState
  BY DEF NoCommand, CommandState, DeploymentStatus
<1>4. op \in [Caller -> CommandState]
  BY <1>3 DEF InitDeployment
<1>5. ASSUME NEW c \in Caller PROVE CallFits(op[c], call[c]) /\ CommandFits(op[c], call[c])
  <2>1. op[c] = NoCommand /\ call[c] = Idle
    BY DEF InitDeployment, Init
  <2>. QED BY <2>1 DEF CallFits, CommandFits, NoCommand, Idle
<1>. QED BY <1>1, <1>2, <1>4, <1>5 DEF DeploymentInv
-----------------------------------------------------------------------------
(* One command moves, with its call and the row; rows of the controller    *)
(* stay.                                                                   *)
LEMMA OneMoves ==
  ASSUME DeploymentInv, RecoveryInv', RowsStay, NEW c \in Caller,
         \A d \in Caller \ {c} : call'[d] = call[d] /\ op'[d] = op[d],
         op' \in [Caller -> CommandState],
         deployment' \in RowState, References',
         CallFits(op[c], call[c])', CommandFits(op[c], call[c])'
  PROVE  DeploymentInv'
<1>1. ASSUME NEW o \in CommandState, Exists(AppOf(o))
      PROVE  Exists(AppOf(o))'
  BY <1>1, TwoApplications DEF RowsStay, Exists, AppOf
<1>2. ASSUME NEW d \in Caller \ {c}
      PROVE  CallFits(op[d], call[d])' /\ CommandFits(op[d], call[d])'
  <2>1. CallFits(op[d], call[d]) /\ CommandFits(op[d], call[d])
        /\ op[d] \in CommandState /\ op'[d] = op[d] /\ call'[d] = call[d]
    BY DEF DeploymentInv
  <2>2. CallFits(op[d], call[d])'
    BY <2>1 DEF CallFits, AppOf
  <2>3. Exists(AppOf(op[d])) => Exists(AppOf(op[d]))'
    BY <1>1, <2>1 DEF AppOf, Exists
  <2>4. CommandFits(op[d], call[d])'
    BY <2>1, <2>3 DEF CommandFits
  <2>. QED BY <2>2, <2>4
<1>. QED BY <1>2 DEF DeploymentInv

(* The row's references stay good as long as rows do.                      *)
LEMMA ReferencesStay ==
  ASSUME RowsStay, References,
         deployment'.recovery => deployment.recovery,
         deployment'.activation => deployment.activation
  PROVE  References'
BY TwoApplications DEF RowsStay, References, Exists

(* A command goes on or ends.                                              *)
LEMMA OpMoves ==
  ASSUME DeploymentInv, NEW c \in Caller, NEW r \in CommandState,
         op' = [op EXCEPT ![c] = r]
  PROVE  /\ op' \in [Caller -> CommandState] /\ op'[c] = r
         /\ \A d \in Caller \ {c} : op'[d] = op[d]
BY DEF DeploymentInv

(* Proceed changes the position of one command and nothing else of it.     *)
LEMMA ProceedMoves ==
  ASSUME DeploymentInv, NEW c \in Caller,
         NEW at \in {"idle", "recheck", "claim", "apply", "applying", "check", "restore",
                     "restoring", "complete", "cleanup", "cleaning", "mark"},
         Proceed(c, at)
  PROVE  /\ op' \in [Caller -> CommandState]
         /\ op'[c].at = at /\ op'[c].command = op[c].command
         /\ op'[c].read = op[c].read /\ op'[c].applied = op[c].applied
         /\ \A d \in Caller \ {c} : op'[d] = op[d]
<1>1. PICK r : r = [op[c] EXCEPT !.at = at]
  OBVIOUS
<1>2. op[c] \in CommandState
  BY DEF DeploymentInv
<1>3. r \in CommandState /\ r.at = at /\ r.command = op[c].command
      /\ r.read = op[c].read /\ r.applied = op[c].applied
  BY <1>1, <1>2 DEF CommandState
<1>4. op' = [op EXCEPT ![c] = r]
  BY <1>1 DEF Proceed, DeploymentInv
<1>. QED BY <1>3, <1>4, OpMoves

(* Leave ends one command.                                                 *)
LEMMA LeaveMoves ==
  ASSUME DeploymentInv, NEW c \in Caller, Leave(c)
  PROVE  /\ op' \in [Caller -> CommandState] /\ op'[c] = NoCommand
         /\ op'[c].at = "idle" /\ op'[c].command = "none"
         /\ ~op'[c].applied
         /\ \A d \in Caller \ {c} : op'[d] = op[d]
<1>1. NoCommand \in CommandState /\ NoCommand.at = "idle" /\ ~NoCommand.applied
      /\ NoCommand.command = "none"
  BY DEF NoCommand, CommandState, DeploymentStatus
<1>. QED BY <1>1, OpMoves DEF Leave

(* What a step of the controller means to the command that waits for it.   *)
LEMMA GotoWriteKeeps ==
  ASSUME NEW c \in Caller, call \in [Caller -> CallState], NEW pc, GotoWrite(c, pc)
  PROVE  /\ call'[c].pc = pc /\ call'[c].app = call[c].app
         /\ call'[c].after = call[c].after
         /\ call'[c].todo = Knobs(call[c].app)
<1>1. call[c] \in CallState
  OBVIOUS
<1>. QED BY <1>1 DEF GotoWrite, CallState

(* A call that goes on keeps its application and where it returns to.      *)
LEMMA GotoKeeps ==
  ASSUME NEW c \in Caller, call \in [Caller -> CallState], NEW pc, Goto(c, pc)
  PROVE  /\ call'[c].pc = pc /\ call'[c].app = call[c].app
         /\ call'[c].after = call[c].after
<1>1. call[c] \in CallState
  OBVIOUS
<1>. QED BY <1>1 DEF Goto, CallState

(* A call that ends says how.                                              *)
LEMMA FinishSays ==
  ASSUME NEW c \in Caller, call \in [Caller -> CallState], NEW result, Finish(c, result)
  PROVE  call'[c].pc = "idle" /\ call'[c].result = result
<1>1. PICK r : r = [Idle EXCEPT !.result = result]
  OBVIOUS
<1>2. r.pc = "idle" /\ r.result = result
  BY <1>1 DEF Idle
<1>3. call' = [call EXCEPT ![c] = r]
  BY <1>1 DEF Finish
<1>. QED BY <1>2, <1>3

(* Where a controller's step leads its call.                               *)
Leads(l, m) ==
  /\ l.pc # "idle"
  /\ m.pc # "idle" => m.app = l.app
  /\ m.pc \in Undoing =>
       IF l.pc \in Undoing THEN m.after = l.after ELSE m.after # "return"
  /\ l.pc \in Undoing /\ l.after = "return" => m.pc \in Undoing \cup {"idle"}
  /\ m.pc = "idle" /\ m.result = "returned" =>
       \/ l.pc \in {"affirm", "mark"}
       \/ l.pc \in {"recheck", "record"} /\ l.after = "return"
  /\ m.pc = "affirm" => l.pc = "compare" /\ Active(l.app) = Requested[l.app]
  /\ m.pc = "mark" => l.pc = "verify" /\ Active(l.app) = Requested[l.app]

(* Every step of the controller leads its call so.                         *)
LEMMA WorkStep ==
  ASSUME TypeOK, NEW c \in Caller, CallOK(c),
         Step(c) \/ TryRaises(c) \/ CallRaises(c)
  PROVE  Leads(call[c], call'[c])
<1>0. call \in [Caller -> CallState] /\ call[c] \in CallState
  BY DEF TypeOK
<1>1. ASSUME NEW pc, NEW result \in {"returned", "raised"}, call[c].pc = pc,
             Finish(c, result), pc # "idle",
             result = "returned" =>
               \/ pc \in {"affirm", "mark"}
               \/ pc \in {"recheck", "record"} /\ call[c].after = "return"
      PROVE  Leads(call[c], call'[c])
  BY <1>0, <1>1, FinishSays DEF Leads, Undoing
<1>2. CASE Discover(c) \/ Lookup(c) \/ Insert(c)
  <2>1. CASE Discover(c)
    BY <1>0, <2>1 DEF Discover, CallState, Leads, Undoing
  <2>2. CASE Lookup(c)
    <3>1. call'[c].pc \in {"insert", "compare"} /\ call'[c].app = call[c].app
      BY <1>0, <2>2, GotoKeeps DEF Lookup, CallState
    <3>. QED BY <2>2, <3>1 DEF Lookup, Leads, Undoing
  <2>3. CASE Insert(c)
    <3>1. CASE GotoWrite(c, "write")
      BY <1>0, <2>3, <3>1, GotoWriteKeeps DEF Insert, Leads, Undoing
    <3>2. CASE Finish(c, "raised")
      BY <1>1, <2>3, <3>2 DEF Insert
    <3>. QED BY <2>3, <3>1, <3>2 DEF Insert
  <2>. QED BY <1>2, <2>1, <2>2, <2>3
<1>3. CASE Compare(c)
  <2>1. CASE Goto(c, "affirm") /\ Active(call[c].app) = Requested[call[c].app]
    BY <1>0, <1>3, <2>1, GotoKeeps DEF Compare, Leads, Undoing
  <2>2. CASE Goto(c, "reopen")
    BY <1>0, <1>3, <2>2, GotoKeeps DEF Compare, Leads, Undoing
  <2>3. CASE call' = [call EXCEPT ![c].pc = "find", ![c].after = "reopen"]
    BY <1>0, <1>3, <2>3 DEF Compare, Leads, Undoing, CallState
  <2>. QED BY <1>3, <2>1, <2>2, <2>3 DEF Compare
<1>4. CASE Affirm(c) \/ Mark(c)
  BY <1>1, <1>4 DEF Affirm, Mark
<1>5. CASE Reopen(c)
  BY <1>0, <1>5, GotoWriteKeeps DEF Reopen, Leads, Undoing
<1>6. ASSUME NEW pc, NEW next, NEW settings, SetSystem(c, pc, settings, next),
             <<pc, next>> \in {<<"write", "activate">>, <<"rewrite", "reactivate">>}
      PROVE  Leads(call[c], call'[c])
  <2>1. PICK k \in call[c].todo :
          call' = [call EXCEPT ![c].todo = @ \ {k},
                     ![c].pc = IF call[c].todo = {k} THEN next ELSE pc]
    BY <1>6 DEF SetSystem
  <2>2. call'[c].pc \in {pc, next} /\ call'[c].app = call[c].app
        /\ call'[c].after = call[c].after /\ call[c].pc = pc
    BY <1>0, <1>6, <2>1 DEF CallState, SetSystem
  <2>. QED BY <1>6, <2>2 DEF Leads, Undoing
<1>7. CASE ActivateRequested(c) \/ Reactivate(c)
  BY <1>0, <1>7, GotoKeeps DEF ActivateRequested, Reactivate, Activate, Leads, Undoing
<1>8. CASE Verify(c)
  BY <1>0, <1>8, GotoKeeps DEF Verify, Leads, Undoing
<1>9. CASE Abort(c)
  BY <1>0, <1>9 DEF Abort, Leads, Undoing, CallState
<1>10. CASE Find(c)
  <2>1. CASE Finish(c, "raised")
    BY <1>1, <1>10, <2>1 DEF Find
  <2>2. CASE Goto(c, "recheck") \/ GotoWrite(c, "rewrite")
    BY <1>0, <1>10, <2>2, GotoKeeps, GotoWriteKeeps DEF Find, Leads, Undoing
  <2>. QED BY <1>10, <2>1, <2>2 DEF Find
<1>11. ASSUME RollbackReturns(c), call[c].pc \in {"recheck", "record"}
       PROVE  Leads(call[c], call'[c])
  <2>1. \/ Finish(c, "returned") /\ call[c].after = "return"
        \/ Finish(c, "raised")
        \/ Goto(c, "reopen") /\ call[c].after = "reopen"
    BY <1>0, <1>11 DEF RollbackReturns, CallState
  <2>2. CASE Goto(c, "reopen") /\ call[c].after = "reopen"
    BY <1>0, <1>11, <2>2, GotoKeeps DEF Leads, Undoing
  <2>. QED BY <1>1, <1>11, <2>1, <2>2
<1>12. CASE Recheck(c)
  <2>1. CASE GotoWrite(c, "rewrite")
    BY <1>0, <1>12, <2>1, GotoWriteKeeps DEF Recheck, Leads, Undoing
  <2>. QED BY <1>11, <1>12, <2>1 DEF Recheck
<1>13. CASE Reverify(c)
  <2>1. CASE Goto(c, "record")
    BY <1>0, <1>13, <2>1, GotoKeeps DEF Reverify, Leads, Undoing
  <2>. QED BY <1>1, <1>13, <2>1 DEF Reverify
<1>14. CASE Record(c)
  BY <1>11, <1>14 DEF Record
<1>15. CASE TryRaises(c)
  BY <1>0, <1>15, GotoKeeps DEF TryRaises, Leads, Undoing
<1>16. CASE CallRaises(c)
  BY <1>1, <1>16 DEF CallRaises
<1>. QED BY <1>2, <1>3, <1>4, <1>5, <1>6, <1>7, <1>8, <1>9, <1>10, <1>12, <1>13,
            <1>14, <1>15, <1>16 DEF Step, Write, Rewrite
-----------------------------------------------------------------------------
(* The controller's invariant goes on to hold.                             *)
LEMMA CommandDiesRecovery ==
  ASSUME RecoveryInv, NEW c \in Caller, call' = [call EXCEPT ![c] = Idle],
         UNCHANGED <<targetVars, rowVars>>
  PROVE  RecoveryInv' /\ RowsStay /\ call'[c] = Idle
         /\ \A d \in Caller \ {c} : call'[d] = call[d]
<1>1. Idle \in CallState /\ Idle.pc = "idle" /\ Idle.seen = None
  BY IdleType
<1>2. /\ call' \in [Caller -> CallState] /\ call'[c] = Idle
      /\ \A d \in Caller \ {c} : call'[d] = call[d]
  BY <1>1, BecomesType DEF RecoveryInv
<1>3. TypeOK'
  BY <1>2 DEF RecoveryInv, TypeOK, targetVars, rowVars
<1>4. ASSUME NEW d \in Caller PROVE CallOK(d)'
  BY <1>1, <1>2 DEF RecoveryInv, CallOK, rowVars
<1>5. ASSUME NEW k \in Knob PROVE (Pristine(k) \/ Saved(k))'
  BY <1>1, <1>2 DEF RecoveryInv, Pristine, Saved, targetVars, rowVars
<1>6. RowsStay
  BY DEF RowsStay, rowVars
<1>. QED BY <1>2, <1>3, <1>4, <1>5, <1>6 DEF RecoveryInv

(* A step that changes nothing of the controller's keeps its invariant.    *)
LEMMA RowsAlone ==
  ASSUME RecoveryInv, UNCHANGED vars
  PROVE  RecoveryInv' /\ RowsStay
BY RecoveryInvStep DEF vars, RowsStay, rowVars

(* So does a step of its own.                                              *)
LEMMA ControllerMoves ==
  ASSUME RecoveryInv, NEW c \in Caller,
         Request(c) \/ Step(c) \/ TryRaises(c) \/ CallRaises(c)
  PROVE  RecoveryInv' /\ CallMoves(c) /\ RowsStay
<1>1. RecoveryInv'
  BY RecoveryInvStep DEF Next, Fault
<1>2. CallMoves(c)
  BY StepMoves DEF RecoveryInv, Fault
<1>. QED BY <1>1, <1>2 DEF CallMoves
-----------------------------------------------------------------------------
(* Steps that only read or write the row: the command goes on to a         *)
(* position that fits, or ends.                                            *)
LEMMA Proceeds ==
  ASSUME DeploymentInv, NEW c \in Caller, UNCHANGED vars,
         NEW at \in {"idle", "recheck", "claim", "apply", "applying", "check", "restore",
                     "restoring", "complete", "cleanup", "cleaning", "mark"},
         Proceed(c, at), at \notin Working, call[c].pc = "idle",
         deployment' \in RowState, References',
         at # "idle" => op[c].command # "none",
         at \in {"apply", "check"} => op[c].command \in {"test", "activate"},
         at = "restore" => op[c].command \in {"test", "rollback"},
         at \in {"recheck", "cleanup"} => op[c].command = "test",
         \/ at = "check"
         \/ op[c].command = "test" /\ at = "restore"
         \/ op[c].command # "rollback" /\ at = "complete"
         => op[c].applied
  PROVE  DeploymentInv'
<1>1. /\ op' \in [Caller -> CommandState]
      /\ op'[c].at = at /\ op'[c].command = op[c].command
      /\ op'[c].applied = op[c].applied
      /\ \A d \in Caller \ {c} : op'[d] = op[d]
  BY ProceedMoves
<1>2. CallFits(op[c], call[c])'
  BY <1>1 DEF CallFits, Working, vars
<1>3. op[c].applied => Exists(AppOf(op[c]))
  BY DEF DeploymentInv, CommandFits
<1>4. CommandFits(op[c], call[c])'
  BY <1>1, <1>3 DEF CommandFits, AppOf, Exists, vars, rowVars, Working
<1>. QED BY <1>1, <1>2, <1>4, RowsAlone, OneMoves DEF DeploymentInv, vars

(* A command that ends.                                                    *)
LEMMA Leaves ==
  ASSUME DeploymentInv, NEW c \in Caller, UNCHANGED vars, Leave(c), call[c].pc = "idle",
         deployment' \in RowState, References'
  PROVE  DeploymentInv'
<1>1. /\ op' \in [Caller -> CommandState] /\ op'[c].at = "idle"
      /\ op'[c].command = "none" /\ ~op'[c].applied
      /\ \A d \in Caller \ {c} : op'[d] = op[d]
  BY LeaveMoves
<1>2. CallFits(op[c], call[c])' /\ CommandFits(op[c], call[c])'
  BY <1>1 DEF CallFits, CommandFits, vars, Working
<1>. QED BY <1>1, <1>2, RowsAlone, OneMoves DEF DeploymentInv, vars

(* The same row, or one that refers to no more applications.               *)
LEMMA SameRow ==
  ASSUME DeploymentInv, UNCHANGED <<vars, deployment>>
  PROVE  deployment' \in RowState /\ References'
BY DEF DeploymentInv, References, Exists, vars, rowVars
-----------------------------------------------------------------------------
(* Steps that write the row.                                               *)
LEMMA PrepareInv ==
  ASSUME DeploymentInv, Prepare
  PROVE  DeploymentInv'
<1>1. deployment' \in RowState
  BY DEF DeploymentInv, Prepare, RowState, DeploymentStatus
<1>2. References' /\ RecoveryInv'
  BY RowsAlone DEF Prepare, DeploymentInv, References, RowState, Exists, vars, rowVars
<1>3. UNCHANGED <<vars, op>>
  BY DEF Prepare
<1>4. \A c \in Caller : CallFits(op[c], call[c])' /\ CommandFits(op[c], call[c])'
  BY <1>3 DEF DeploymentInv, CallFits, CommandFits, AppOf, Exists, vars, rowVars
<1>. QED BY <1>1, <1>2, <1>3, <1>4 DEF DeploymentInv

(* A command begins at a position that fits, with the status it read.      *)
LEMMA BeginInv ==
  ASSUME DeploymentInv, NEW c \in Caller, NEW command, NEW at, Begin(c, command, at),
         <<command, at>> \in {<<"test", "claim">>, <<"test", "recheck">>, <<"test", "apply">>,
                              <<"activate", "claim">>, <<"activate", "apply">>,
                              <<"rollback", "claim">>, <<"rollback", "restore">>}
  PROVE  /\ DeploymentInv'
         /\ op'[c].command = command /\ op'[c].at = at
         /\ op'[c].read = deployment.status
<1>1. PICK r : r = [command |-> command, at |-> at, applied |-> FALSE,
                    read |-> deployment.status]
  OBVIOUS
<1>2. deployment.status \in DeploymentStatus
  BY DEF DeploymentInv, RowState
<1>3. r \in CommandState /\ r.command = command /\ r.at = at /\ ~r.applied
      /\ r.read = deployment.status
  BY <1>1, <1>2 DEF CommandState
<1>4. op' = [op EXCEPT ![c] = r]
  BY <1>1 DEF Begin
<1>5. /\ op' \in [Caller -> CommandState] /\ op'[c] = r
      /\ \A d \in Caller \ {c} : op'[d] = op[d]
  BY <1>3, <1>4, OpMoves
<1>6. UNCHANGED <<vars, deployment>> /\ call[c].pc = "idle"
  BY DEF Begin, DeploymentInv, CallFits, Working
<1>7. CallFits(op[c], call[c])' /\ CommandFits(op[c], call[c])'
  BY <1>3, <1>5, <1>6 DEF CallFits, CommandFits, vars, Working
<1>8. deployment' \in RowState /\ References'
  BY <1>6, SameRow
<1>. QED BY <1>3, <1>5, <1>6, <1>7, <1>8, RowsAlone, OneMoves DEF DeploymentInv, vars

(* Test, activation and rollback begin so.                                 *)
LEMMA BeginsInv ==
  ASSUME DeploymentInv, NEW c \in Caller, CommandBegins(c)
  PROVE  DeploymentInv'
BY BeginInv DEF CommandBegins, BeginTest, BeginActivation, BeginRollback

(* An accepted row refers to applications that exist.                      *)
LEMMA ClaimInv ==
  ASSUME DeploymentInv, NEW c \in Caller, NEW row \in RowState,
         NEW next, NEW missed,
         <<op[c].command, next, missed>> \in
           {<<"test", "apply", "apply">>, <<"activate", "apply", "idle">>,
            <<"rollback", "restore", "restore">>},
         ClaimRow(c, row, next, missed)
  PROVE  DeploymentInv'
<1>1. UNCHANGED vars /\ op[c].at = "claim" /\ call[c].pc = "idle"
  BY DEF ClaimRow, DeploymentInv, CallFits, Working
<1>2. CASE deployment' = row /\ Accepted(row) /\ Proceed(c, next)
  <2>1. References'
    BY <1>1, <1>2 DEF Accepted, References, Exists, vars, rowVars
  <2>. QED BY <1>1, <1>2, <2>1, Proceeds DEF Working
<1>3. CASE UNCHANGED deployment /\ Leave(c)
  BY <1>1, <1>3, SameRow, Leaves
<1>4. CASE UNCHANGED deployment /\ missed # "idle" /\ Proceed(c, missed)
  BY <1>1, <1>4, SameRow, Proceeds DEF Working
<1>. QED BY <1>2, <1>3, <1>4 DEF ClaimRow

(* The first UPDATE of each command.                                       *)
LEMMA ClaimsInv ==
  ASSUME DeploymentInv, NEW c \in Caller,
         ClaimTest(c) \/ Authorize(c) \/ ClaimRollback(c)
  PROVE  DeploymentInv'
<1>0. deployment \in RowState
  BY DEF DeploymentInv
<1>1. CASE ClaimTest(c)
  <2>1. [deployment EXCEPT !.status = "RECOVERY_TESTING", !.recovery = TRUE] \in RowState
    BY <1>0 DEF RowState, DeploymentStatus
  <2>. QED BY <1>1, <2>1, ClaimInv DEF ClaimTest
<1>2. CASE Authorize(c)
  <2>1. [deployment EXCEPT !.status = "ACTIVATING", !.authorized = TRUE] \in RowState
    BY <1>0 DEF RowState, DeploymentStatus
  <2>. QED BY <1>2, <2>1, ClaimInv DEF Authorize
<1>3. CASE ClaimRollback(c)
  <2>1. [deployment EXCEPT !.status = "ROLLING_BACK", !.activation = TRUE] \in RowState
    BY <1>0 DEF RowState, DeploymentStatus
  <2>. QED BY <1>3, <2>1, ClaimInv DEF ClaimRollback
<1>. QED BY <1>1, <1>2, <1>3

(* A failure inside the try block.                                         *)
LEMMA HandlerProceeds ==
  ASSUME DeploymentInv, NEW c \in Caller, UNCHANGED <<vars, deployment>>,
         op[c].at \in {"applying", "check", "restoring", "complete"},
         call[c].pc = "idle", Proceed(c, Handler(c))
  PROVE  DeploymentInv'
<1>1. op[c].command # "none" /\ Handler(c) \in {"cleanup", "mark"}
      /\ (Handler(c) = "cleanup" => op[c].command = "test")
  BY DEF DeploymentInv, CommandFits, Handler
<1>. QED BY <1>1, SameRow, Proceeds DEF Working

(* The last UPDATE files an application only after its apply has returned. *)
LEMMA CompleteInv ==
  ASSUME DeploymentInv, NEW c \in Caller, Complete(c)
  PROVE  DeploymentInv'
<1>1. /\ UNCHANGED vars /\ op[c].at = "complete" /\ call[c].pc = "idle"
      /\ op[c].command \in {"test", "activate", "rollback"}
  BY DEF Complete, DeploymentInv, CallFits, CommandFits, CommandState, Working
<1>2. CASE deployment' = Done(c) /\ Leave(c)
  <2>1. op[c].command # "rollback" => Exists(AppOf(op[c]))
    BY <1>1 DEF DeploymentInv, CommandFits
  <2>2. deployment \in RowState /\ References /\ UNCHANGED rowVars
    BY <1>1 DEF DeploymentInv, vars, rowVars
  <2>3. deployment' \in RowState /\ References'
    <3>1. CASE op[c].command = "test"
      <4>1. deployment' = [deployment EXCEPT !.status = "RECOVERY_TESTED", !.recovery = TRUE]
        BY <1>2, <3>1 DEF Done
      <4>. QED BY <2>1, <2>2, <3>1, <4>1
               DEF RowState, DeploymentStatus, References, AppOf, Exists, rowVars
    <3>2. CASE op[c].command = "activate"
      <4>1. deployment' = [deployment EXCEPT !.status = "ACTIVE", !.activation = TRUE]
        BY <1>2, <3>2 DEF Done
      <4>. QED BY <2>1, <2>2, <3>2, <4>1
               DEF RowState, DeploymentStatus, References, AppOf, Exists, rowVars
    <3>3. CASE op[c].command = "rollback"
      <4>1. deployment' = [deployment EXCEPT !.status = "ROLLED_BACK"]
        BY <1>2, <3>3 DEF Done
      <4>. QED BY <2>2, <4>1 DEF RowState, DeploymentStatus, References, Exists, rowVars
    <3>. QED BY <1>1, <3>1, <3>2, <3>3
  <2>. QED BY <1>1, <1>2, <2>3, Leaves
<1>3. CASE UNCHANGED deployment /\ Proceed(c, Handler(c))
  BY <1>1, <1>3, HandlerProceeds
<1>4. CASE UNCHANGED deployment /\ Leave(c)
  BY <1>1, <1>4, SameRow, Leaves
<1>. QED BY <1>2, <1>3, <1>4 DEF Complete

(* _mark_failed files an application only if it exists.                    *)
LEMMA MarkFailedInv ==
  ASSUME DeploymentInv, NEW c \in Caller, MarkFailed(c)
  PROVE  DeploymentInv'
<1>1. UNCHANGED vars /\ Leave(c) /\ call[c].pc = "idle"
  BY DEF MarkFailed, DeploymentInv, CallFits, Working
<1>2. deployment \in RowState /\ References /\ UNCHANGED rowVars
  BY <1>1 DEF DeploymentInv, vars, rowVars
<1>3. CASE UNCHANGED deployment
  BY <1>1, <1>3, SameRow, Leaves
<1>4. CASE deployment.status \notin {"FAILED", "ROLLED_BACK"}
  <2>. DEFINE recovery == deployment.recovery \/ (op[c].command = "test" /\ Exists(Recovery))
              activation == deployment.activation
                              \/ (op[c].command = "activate" /\ Exists(Activation))
  <2>1. deployment' = [deployment EXCEPT !.status = "FAILED", !.recovery = recovery,
                                         !.activation = activation]
    BY <1>2, <1>4 DEF MarkFailed, RowState
  <2>2. recovery \in BOOLEAN /\ activation \in BOOLEAN
        /\ (recovery => Exists(Recovery)) /\ (activation => Exists(Activation))
    BY <1>2 DEF References, RowState, Exists
  <2>. HIDE DEF recovery, activation
  <2>3. deployment' \in RowState
    BY <1>2, <2>1, <2>2 DEF RowState, DeploymentStatus
  <2>4. deployment'.recovery = recovery /\ deployment'.activation = activation
    BY <1>2, <2>1 DEF RowState
  <2>5. References'
    BY <1>2, <2>2, <2>4 DEF References, Exists, rowVars
  <2>. QED BY <1>1, <2>3, <2>5, Leaves
<1>. QED BY <1>3, <1>4 DEF MarkFailed

(* Steps that only look.                                                   *)
LEMMA LookInv ==
  ASSUME DeploymentInv, NEW c \in Caller,
         \/ Recover(c) \/ Applied(c) \/ Check(c) \/ Restored(c) \/ Cleaned(c)
         \/ CommandRaises(c)
  PROVE  DeploymentInv'
<1>0. /\ UNCHANGED <<vars, deployment>> /\ CallFits(op[c], call[c]) /\ CommandFits(op[c], call[c])
      /\ call[c].pc = "idle" /\ op[c] \in CommandState
  BY DEF DeploymentInv, Recover, Applied, Check, Restored, Cleaned, CommandRaises, CallFits, Working
<1>1. CASE Recover(c)
  <2>1. op[c].command = "test"
    BY <1>0, <1>1 DEF Recover, CommandFits
  <2>. QED BY <1>0, <1>1, <2>1, SameRow, Proceeds, Leaves DEF Recover, Working
<1>2. CASE Applied(c)
  <2>1. CASE call[c].result = "returned"
    <3>1. PICK r : r = [op[c] EXCEPT !.at = "check", !.applied = TRUE]
      OBVIOUS
    <3>2. r \in CommandState /\ r.at = "check" /\ r.command = op[c].command /\ r.applied
      BY <1>0, <3>1 DEF CommandState
    <3>3. op' = [op EXCEPT ![c] = r]
      BY <1>2, <2>1, <3>1 DEF Applied, DeploymentInv
    <3>4. /\ op' \in [Caller -> CommandState] /\ op'[c] = r
          /\ \A d \in Caller \ {c} : op'[d] = op[d]
      BY <3>2, <3>3, OpMoves
    <3>5. op[c].command \in {"test", "activate"} /\ Exists(AppOf(op[c]))
      BY <1>0, <1>2, <2>1 DEF Applied, CommandFits
    <3>6. CallFits(op[c], call[c])' /\ CommandFits(op[c], call[c])'
      BY <1>0, <3>2, <3>4, <3>5 DEF CallFits, CommandFits, AppOf, Exists, vars, rowVars, Working
    <3>. QED BY <1>0, <3>4, <3>6, SameRow, RowsAlone, OneMoves DEF DeploymentInv, vars
  <2>2. CASE call[c].result # "returned"
    BY <1>0, <1>2, <2>2, HandlerProceeds DEF Applied
  <2>. QED BY <2>1, <2>2
<1>3. CASE Check(c)
  <2>1. op[c].command \in {"test", "activate"} /\ op[c].applied
    BY <1>0, <1>3 DEF Check, CommandFits
  <2>2. CASE Proceed(c, Handler(c))
    BY <1>0, <1>3, <2>2, HandlerProceeds DEF Check
  <2>3. CASE Proceed(c, IF op[c].command = "test" THEN "restore" ELSE "complete")
    BY <1>0, <2>1, <2>3, SameRow, Proceeds DEF Working
  <2>. QED BY <1>3, <2>2, <2>3 DEF Check
<1>4. CASE Restored(c)
  <2>1. op[c].command \in {"test", "rollback"} /\ (op[c].command = "test" => op[c].applied)
    BY <1>0, <1>4 DEF Restored, CommandFits
  <2>2. CASE Proceed(c, Handler(c))
    BY <1>0, <1>4, <2>2, HandlerProceeds DEF Restored
  <2>3. CASE Proceed(c, "complete")
    BY <1>0, <2>1, <2>3, SameRow, Proceeds DEF Working
  <2>. QED BY <1>4, <2>2, <2>3 DEF Restored
<1>5. CASE Cleaned(c)
  <2>1. op[c].command = "test"
    BY <1>0, <1>5 DEF Cleaned, CommandFits
  <2>. QED BY <1>0, <1>5, <2>1, SameRow, Proceeds DEF Cleaned, Working
<1>6. CASE CommandRaises(c)
  <2>1. CASE op[c].at \in {"check", "complete"} /\ Proceed(c, Handler(c))
    BY <1>0, <2>1, HandlerProceeds
  <2>2. CASE Leave(c)
    BY <1>0, <2>2, SameRow, Leaves
  <2>. QED BY <1>6, <2>1, <2>2 DEF CommandRaises
<1>. QED BY <1>1, <1>2, <1>3, <1>4, <1>5, <1>6
-----------------------------------------------------------------------------
(* Steps of the controller.                                                *)
LEMMA CallInv ==
  ASSUME DeploymentInv, NEW c \in Caller,
         CallApply(c) \/ Restore(c) \/ CleanUp(c)
  PROVE  /\ DeploymentInv'
         /\ op'[c].command = op[c].command /\ call'[c].app = AppOf(op[c])
         /\ call'[c].pc \in {"discover", "find"}
<1>0. /\ CallFits(op[c], call[c]) /\ CommandFits(op[c], call[c]) /\ op[c] \in CommandState
      /\ UNCHANGED deployment /\ UNCHANGED <<targetVars, rowVars>>
      /\ call \in [Caller -> CallState] /\ App(c) = AppOf(op[c])
  BY DEF DeploymentInv, RecoveryInv, TypeOK, CallApply, Restore, CleanUp, CallRollback, Apply,
         Rollback, App, AppOf
<1>1. References' /\ deployment' \in RowState
  BY <1>0 DEF DeploymentInv, References, Exists, rowVars
<1>2. AppOf(op[c]) \in Application
  BY TwoApplications DEF AppOf
<1>3. ASSUME Request(c) PROVE RecoveryInv' /\ CallMoves(c) /\ RowsStay
  BY <1>3, ControllerMoves DEF DeploymentInv
<1>4. CASE CallApply(c)
  <2>1. Apply(c, AppOf(op[c]), TRUE) /\ Proceed(c, "applying") /\ op[c].at = "apply"
    BY <1>0, <1>4 DEF CallApply
  <2>2. RecoveryInv' /\ CallMoves(c) /\ RowsStay
    BY <1>2, <1>3, <2>1 DEF Request
  <2>3. PICK l : l = [Idle EXCEPT !.pc = "discover", !.app = AppOf(op[c]), !.force = TRUE]
    OBVIOUS
  <2>4. l.pc = "discover" /\ l.app = AppOf(op[c])
    BY <2>3 DEF Idle
  <2>5. call'[c] = l
    BY <1>0, <2>1, <2>3 DEF Apply
  <2>6. /\ op' \in [Caller -> CommandState] /\ op'[c].at = "applying"
        /\ op'[c].command = op[c].command /\ op'[c].applied = op[c].applied
        /\ \A d \in Caller \ {c} : op'[d] = op[d]
    BY <2>1, ProceedMoves
  <2>7. CallFits(op[c], call[c])'
    BY <2>4, <2>5, <2>6 DEF CallFits, AppOf, Working, Undoing
  <2>8. CommandFits(op[c], call[c])'
    BY <1>0, <2>1, <2>4, <2>5, <2>6 DEF CommandFits, AppOf, Exists, rowVars
  <2>. QED BY <1>1, <2>2, <2>4, <2>5, <2>6, <2>7, <2>8, OneMoves DEF CallMoves
<1>5. ASSUME NEW at, NEW next, CallRollback(c, at, next),
             <<at, next>> \in {<<"restore", "restoring">>, <<"cleanup", "cleaning">>}
      PROVE  /\ DeploymentInv'
             /\ op'[c].command = op[c].command /\ call'[c].app = AppOf(op[c])
             /\ call'[c].pc \in {"discover", "find"}
  <2>1. Rollback(c, AppOf(op[c])) /\ Proceed(c, next) /\ op[c].at = at
    BY <1>0, <1>5 DEF CallRollback
  <2>2. RecoveryInv' /\ CallMoves(c) /\ RowsStay
    BY <1>2, <1>3, <2>1 DEF Request
  <2>3. PICK l : l = [Idle EXCEPT !.pc = "find", !.app = AppOf(op[c])]
    OBVIOUS
  <2>4. l.pc = "find" /\ l.app = AppOf(op[c]) /\ l.after = "return"
    BY <2>3 DEF Idle
  <2>5. call'[c] = l
    BY <1>0, <2>1, <2>3 DEF Rollback
  <2>6. /\ op' \in [Caller -> CommandState] /\ op'[c].at = next
        /\ op'[c].command = op[c].command /\ op'[c].applied = op[c].applied
        /\ \A d \in Caller \ {c} : op'[d] = op[d]
    BY <1>5, <2>1, ProceedMoves
  <2>7. CallFits(op[c], call[c])'
    BY <1>5, <2>4, <2>5, <2>6 DEF CallFits, AppOf, Working, Undoing
  <2>8. CommandFits(op[c], call[c])'
    BY <1>0, <1>5, <2>1, <2>4, <2>5, <2>6 DEF CommandFits, AppOf, Exists, rowVars
  <2>. QED BY <1>1, <2>2, <2>4, <2>5, <2>6, <2>7, <2>8, OneMoves DEF CallMoves
<1>. QED BY <1>4, <1>5 DEF Restore, CleanUp

(* The controller works for the command that waits for it.                 *)
LEMMA WorkInv ==
  ASSUME DeploymentInv, NEW c \in Caller, Work(c) \/ WorkFails(c)
  PROVE  /\ DeploymentInv' /\ Leads(call[c], call'[c])
         /\ op[c].at \in Working /\ call[c].app = AppOf(op[c])
         /\ CallMoves(c) /\ RowsStay
<1>0. /\ CallFits(op[c], call[c]) /\ CommandFits(op[c], call[c]) /\ op[c] \in CommandState
      /\ UNCHANGED deploymentVars /\ (Step(c) \/ TryRaises(c) \/ CallRaises(c))
      /\ TypeOK /\ CallOK(c)
  BY DEF DeploymentInv, RecoveryInv, Work, WorkFails
<1>1. RecoveryInv' /\ CallMoves(c) /\ RowsStay
  BY <1>0, ControllerMoves DEF DeploymentInv
<1>2. Leads(call[c], call'[c])
  BY <1>0, WorkStep
<1>3. op[c].at \in Working /\ call[c].app = AppOf(op[c])
  BY <1>0, <1>2 DEF Leads, CallFits
<1>4. References' /\ deployment' \in RowState
  BY <1>0, <1>1, ReferencesStay DEF DeploymentInv, deploymentVars
<1>5. CallFits(op[c], call[c])'
  BY <1>0, <1>2, <1>3 DEF CallFits, Leads, deploymentVars, AppOf, Undoing
<1>6. Exists(AppOf(op[c])) => Exists(AppOf(op[c]))'
  BY <1>0, <1>1, TwoApplications DEF RowsStay, Exists, AppOf, deploymentVars
<1>7. call'[c].pc = "idle" /\ call'[c].result = "returned" => Exists(AppOf(op[c]))
  BY <1>0, <1>2, <1>3 DEF Leads, CallOK, Exists
<1>8. CommandFits(op[c], call[c])'
  BY <1>0, <1>3, <1>6, <1>7 DEF CommandFits, deploymentVars, Working
<1>. QED BY <1>0, <1>1, <1>2, <1>3, <1>4, <1>5, <1>8, OneMoves
         DEF CallMoves, deploymentVars, DeploymentInv

(* The process of a command dies, and its call with it.                    *)
LEMMA DiesInv ==
  ASSUME DeploymentInv, NEW c \in Caller, CommandDies(c)
  PROVE  DeploymentInv'
<1>1. /\ RecoveryInv' /\ RowsStay /\ call'[c] = Idle
      /\ \A d \in Caller \ {c} : call'[d] = call[d]
  BY CommandDiesRecovery DEF CommandDies, DeploymentInv
<1>2. /\ op' \in [Caller -> CommandState] /\ op'[c].at = "idle"
      /\ op'[c].command = "none" /\ ~op'[c].applied
      /\ \A d \in Caller \ {c} : op'[d] = op[d]
  BY LeaveMoves DEF CommandDies
<1>3. References' /\ deployment' \in RowState
  BY <1>1, ReferencesStay DEF DeploymentInv, CommandDies
<1>4. CallFits(op[c], call[c])' /\ CommandFits(op[c], call[c])'
  BY <1>1, <1>2 DEF CallFits, CommandFits, Idle, Working
<1>. QED BY <1>1, <1>2, <1>3, <1>4, OneMoves

(* The target restarts on its own.                                         *)
LEMMA RestartInv ==
  ASSUME DeploymentInv, TargetRestartsAlone
  PROVE  DeploymentInv'
<1>1. RecoveryInv' /\ UNCHANGED <<rowVars, call, deployment, op>>
  BY RestartStep DEF DeploymentInv, TargetRestartsAlone, TargetRestarts, deploymentVars
<1>2. \A c \in Caller : CallFits(op[c], call[c])' /\ CommandFits(op[c], call[c])'
  BY <1>1 DEF DeploymentInv, CallFits, CommandFits, AppOf, Exists, rowVars
<1>3. References'
  BY <1>1 DEF DeploymentInv, References, Exists, rowVars
<1>. QED BY <1>1, <1>2, <1>3 DEF DeploymentInv

(* Every step keeps the invariant, ...                                     *)
LEMMA DeploymentInvStep ==
  ASSUME DeploymentInv, [NextDeployment]_allVars
  PROVE  DeploymentInv'
<1>1. CASE UNCHANGED allVars
  <2>1. RecoveryInv' /\ UNCHANGED <<rowVars, call, deployment, op>>
    BY <1>1, RowsAlone DEF DeploymentInv, allVars, vars, deploymentVars, rowVars
  <2>2. \A c \in Caller : CallFits(op[c], call[c])' /\ CommandFits(op[c], call[c])'
    BY <2>1 DEF DeploymentInv, CallFits, CommandFits, AppOf, Exists, rowVars
  <2>3. References'
    BY <2>1 DEF DeploymentInv, References, Exists, rowVars
  <2>. QED BY <2>1, <2>2, <2>3 DEF DeploymentInv
<1>2. ASSUME NEW c \in Caller, CommandStep(c)
      PROVE  DeploymentInv'
  BY <1>2, ClaimsInv, CompleteInv, MarkFailedInv, LookInv, CallInv, WorkInv DEF CommandStep
<1>3. ASSUME NEW c \in Caller,
             CommandBegins(c) \/ WorkFails(c) \/ CommandRaises(c) \/ CommandDies(c)
      PROVE  DeploymentInv'
  BY <1>3, BeginsInv, WorkInv, LookInv, DiesInv
<1>. QED BY <1>1, <1>2, <1>3, PrepareInv, RestartInv DEF NextDeployment

(* ... so it holds always.                                                 *)
LEMMA DeploymentInvariant == SpecDeployment => []DeploymentInv
<1>1. DeploymentInv /\ [NextDeployment]_allVars => DeploymentInv'
  BY DeploymentInvStep
<1>. QED BY <1>1, InitDeploymentInv, PTL DEF SpecDeployment

(* For any number of operators whose commands interleave and die: the      *)
(* deployment's references point to applications that exist, which the     *)
(* foreign keys demand, and the controller works for a command exactly     *)
(* while that waits for it.                                                *)
THEOREM DeploymentTypesHold == SpecDeployment => []DeploymentTypeOK
<1>1. DeploymentInv => DeploymentTypeOK
  BY DEF DeploymentInv, DeploymentTypeOK, RowState, References, CommandState, CallFits, Working
<1>. QED BY <1>1, DeploymentInvariant, PTL
-----------------------------------------------------------------------------
(***************************************************************************)
(* One operator: a recovery test that passed has left no trace.            *)
(***************************************************************************)

(* Nothing but the operator's decision leads to an activation, and the one *)
(* command under way knows the row.                                        *)
Decided == {"ACTIVATING", "ACTIVE", "ROLLING_BACK", "ROLLED_BACK"}

RowOK ==
  /\ deployment.authorized => deployment.status \in Decided \cup {"FAILED"}
  /\ deployment.status \in Decided => deployment.authorized
  /\ Exists(Activation) => deployment.authorized

Early == {"idle", "recheck", "claim"}

OperatorOK(c) ==
  LET o == op[c] IN
  /\ o.at \in {"recheck", "claim"} => o.read = deployment.status
  /\ o.at = "recheck" => deployment.status = "FAILED"
  /\ o.at = "claim" =>
       /\ o.command = "test" => deployment.status \in {"PREPARED", "FAILED"}
       /\ o.command = "activate" => deployment.status = "RECOVERY_TESTED"
       /\ o.command = "rollback" => deployment.authorized
  /\ o.at \notin Early =>
       IF o.command = "test" THEN deployment.status = "RECOVERY_TESTING"
                             ELSE deployment.authorized

(* Before the first test, between a test that passed and the activation's  *)
(* first write, the target is as it was when it was set up; so is what the *)
(* activation saves, or is about to.                                       *)
AsBooted == file = Boot /\ active = Boot

RowBooted ==
  /\ deployment.status \in {"ABSENT", "PREPARED", "RECOVERY_TESTED"} => AsBooted
  /\ deployment.authorized /\ ~Exists(Activation) => AsBooted

SavesOriginal ==
  /\ Exists(Activation) => \A k \in Knobs(Activation) : snapshot[Activation][k] = Boot[k]
  /\ \A c \in Caller :
       call[c].pc \in {"lookup", "insert"} /\ call[c].app = Activation
         /\ ~Exists(Activation) =>
           \A k \in Knobs(Activation) : call[c].seen[k] = Boot[k]

(* Until then a knob of the test has its original value or the one asked   *)
(* for, in the file, and what the server makes of one of them.             *)
Wanted == Requested[Recovery]

Mixture ==
  ~Exists(Activation) =>
    \A k \in Knobs(Recovery) : /\ file[k] \in {Boot[k], Wanted[k]}
                               /\ active[k] \in {Boot[k], Shown[Wanted[k]]}

(* Once the apply of a test has returned, what it asks for is shown as it  *)
(* is, and the server has it, or was restarted with what is in the file.   *)
Canonical == \A k \in Knobs(Recovery) : Shown[Wanted[k]] = Wanted[k]

Settled ==
  \/ \A k \in Knobs(Recovery) : active[k] = Wanted[k]
  \/ \A k \in Knobs(Recovery) : active[k] = Shown[file[k]]

Tried(o, l) ==
  \/ o.at = "applying" /\ l.pc \in {"mark", "affirm"}
  \/ o.at = "applying" /\ l.pc = "idle" /\ l.result = "returned"
  \/ o.at \in {"check", "restore"}
  \/ o.at = "restoring" /\ l.pc \in {"find", "recheck"}

(* How far the rollback of the test has come.                              *)
BackOK(l) ==
  /\ l.pc = "rewrite" => \A k \in Knobs(Recovery) \ l.todo : file[k] = snapshot[Recovery][k]
  /\ l.pc \in Restoring => InFile(Recovery, snapshot[Recovery])
  /\ l.pc = "record" => Active(Recovery) = snapshot[Recovery]
  /\ l.pc = "idle" /\ l.result = "returned" => AsBooted

TestOK(o, l) ==
  o.command = "test" => /\ Tried(o, l) => Canonical /\ Settled
                        /\ o.at = "restoring" => BackOK(l)
                        /\ o.at = "complete" => AsBooted

NoTraceInv ==
  /\ DeploymentInv
  /\ RowOK /\ RowBooted /\ SavesOriginal /\ Mixture
  /\ \A c \in Caller : OperatorOK(c) /\ TestOK(op[c], call[c])

(* The initial state, that of an earlier release included.                 *)
LEMMA InitNoTrace == InitDeployment => NoTraceInv
<1>. SUFFICES ASSUME InitDeployment PROVE NoTraceInv
  OBVIOUS
<1>1. /\ AsBooted /\ ~deployment.authorized
      /\ deployment.status \in {"ABSENT", "RECOVERY_TESTING"}
      /\ \A c \in Caller : call[c] = Idle /\ op[c] = NoCommand
      /\ \A a \in Application : status[a] = "ABSENT"
  BY DEF InitDeployment, Init, AsBooted
<1>2. ~Exists(Activation)
  BY <1>1, TwoApplications DEF Exists
<1>3. RowOK /\ RowBooted
  BY <1>1, <1>2 DEF RowOK, RowBooted, Decided
<1>4. SavesOriginal
  BY <1>1, <1>2 DEF SavesOriginal, Idle
<1>5. Mixture
  BY <1>1 DEF Mixture, AsBooted
<1>6. ASSUME NEW c \in Caller PROVE OperatorOK(c) /\ TestOK(op[c], call[c])
  BY <1>1 DEF OperatorOK, TestOK, NoCommand, Early
<1>. QED BY <1>3, <1>4, <1>5, <1>6, InitDeploymentInv DEF NoTraceInv
-----------------------------------------------------------------------------
(* As long as nothing was activated: the knobs the test does not touch are *)
(* as they were, and the test's snapshot holds the original settings.      *)
LEMMA TestSaves ==
  ASSUME DeploymentInv, ~Exists(Activation)
  PROVE  /\ \A k \in Knob \ Knobs(Recovery) : file[k] = Boot[k] /\ active[k] = Boot[k]
         /\ Exists(Recovery) => snapshot[Recovery] = [k \in Knobs(Recovery) |-> Boot[k]]
<1>0. RecoveryInv /\ TypeOK /\ \A k \in Knob : Pristine(k) \/ Saved(k)
  BY DEF DeploymentInv, RecoveryInv
<1>1. ASSUME NEW k \in Knob, Saved(k)
      PROVE  Exists(Recovery) /\ k \in Knobs(Recovery) /\ snapshot[Recovery][k] = Boot[k]
  BY <1>1, TwoApplications DEF Saved, Exists
<1>2. ASSUME NEW k \in Knob \ Knobs(Recovery)
      PROVE  file[k] = Boot[k] /\ active[k] = Boot[k]
  BY <1>0, <1>1, <1>2 DEF Pristine
<1>3. ASSUME Exists(Recovery)
      PROVE  snapshot[Recovery] = [k \in Knobs(Recovery) |-> Boot[k]]
  <2>1. snapshot[Recovery] \in Settings(Recovery) /\ Knobs(Recovery) \subseteq Knob
    BY <1>0, <1>3, KnobsType, TwoApplications DEF TypeOK, Exists
  <2>2. ASSUME NEW k \in Knobs(Recovery) PROVE snapshot[Recovery][k] = Boot[k]
    <3>1. CASE Pristine(k)
      BY <1>3, <2>2, <3>1, TwoApplications DEF Pristine, Exists
    <3>. QED BY <1>0, <1>1, <2>1, <3>1
  <2>. QED BY <2>1, <2>2 DEF Settings
<1>. QED BY <1>2, <1>3

(* A target on which the knobs of the test are as they were is as it was.  *)
LEMMA Booted ==
  ASSUME DeploymentInv, ~Exists(Activation),
         \A k \in Knobs(Recovery) : file[k] = Boot[k] /\ active[k] = Boot[k]
  PROVE  AsBooted
<1>1. \A k \in Knob : file[k] = Boot[k] /\ active[k] = Boot[k]
  BY TestSaves
<1>2. file \in [Knob -> Value] /\ active \in [Knob -> Value] /\ Boot \in [Knob -> Value]
  BY BootAssumption DEF DeploymentInv, RecoveryInv, TypeOK
<1>. QED BY <1>1, <1>2 DEF AsBooted

(* While a test is past its first UPDATE, nothing was activated.           *)
LEMMA TestAlone ==
  ASSUME RowOK, NEW c \in Caller, OperatorOK(c), op[c].command = "test",
         op[c].at \notin Early
  PROVE  /\ deployment.status = "RECOVERY_TESTING"
         /\ ~deployment.authorized /\ ~Exists(Activation)
BY DEF OperatorOK, RowOK, Decided
-----------------------------------------------------------------------------
(* Steps that only read or write the row.                                  *)
LEMMA RowMoves ==
  ASSUME OneCaller, NoTraceInv, DeploymentInv', NEW c \in Caller, UNCHANGED vars,
         RowOK', RowBooted', OperatorOK(c)', TestOK(op[c], call[c])'
  PROVE  NoTraceInv'
<1>1. Mixture' /\ SavesOriginal'
  BY DEF NoTraceInv, Mixture, SavesOriginal, Exists, vars
<1>2. \A d \in Caller : OperatorOK(d)' /\ TestOK(op[d], call[d])'
  BY DEF OneCaller
<1>. QED BY <1>1, <1>2 DEF NoTraceInv

(* A command that ends, and one that goes on to a position past its first  *)
(* UPDATE.                                                                 *)
LEMMA LeavesNoTrace ==
  ASSUME OneCaller, NoTraceInv, DeploymentInv', NEW c \in Caller, UNCHANGED vars,
         RowOK', RowBooted', Leave(c)
  PROVE  NoTraceInv'
<1>1. op'[c].at = "idle" /\ op'[c].command = "none"
  BY LeaveMoves DEF NoTraceInv
<1>2. OperatorOK(c)' /\ TestOK(op[c], call[c])'
  BY <1>1 DEF OperatorOK, TestOK, Early
<1>. QED BY <1>2, RowMoves

(* A step that changes neither row nor target.                             *)
LEMMA SameRowOK ==
  ASSUME NoTraceInv, UNCHANGED <<vars, deployment>>
  PROVE  RowOK' /\ RowBooted'
BY DEF NoTraceInv, RowOK, RowBooted, Exists, AsBooted, vars

(* It goes on.                                                             *)
LEMMA ProceedsNoTrace ==
  ASSUME OneCaller, NoTraceInv, DeploymentInv', NEW c \in Caller, UNCHANGED vars,
         RowOK', RowBooted',
         NEW at \in {"recheck", "claim", "apply", "applying", "check", "restore",
                     "restoring", "complete", "cleanup", "cleaning", "mark"} \ (Early \cup Working),
         Proceed(c, at),
         IF op[c].command = "test" THEN deployment'.status = "RECOVERY_TESTING"
                                   ELSE deployment'.authorized,
         at \in {"check", "restore"} /\ op[c].command = "test" => Tried(op[c], call[c]),
         at = "complete" /\ op[c].command = "test" =>
           op[c].at = "restoring" /\ call[c].pc = "idle" /\ call[c].result = "returned"
  PROVE  NoTraceInv'
<1>1. op'[c].at = at /\ op'[c].command = op[c].command
  BY ProceedMoves DEF NoTraceInv
<1>2. OperatorOK(c)'
  BY <1>1 DEF OperatorOK, Early
<1>3. TestOK(op[c], call[c])
  BY DEF NoTraceInv
<1>4. UNCHANGED <<file, active>>
  BY DEF vars, targetVars
<1>5. TestOK(op[c], call[c])'
  BY <1>1, <1>3, <1>4 DEF TestOK, Tried, BackOK, Settled, AsBooted, Working
<1>. QED BY <1>2, <1>5, RowMoves
-----------------------------------------------------------------------------
(* apply-best-prepare finds no command under way.                          *)
LEMMA PrepareNoTrace ==
  ASSUME NoTraceInv, Prepare, DeploymentInv'
  PROVE  NoTraceInv'
<1>0. /\ UNCHANGED <<vars, op>> /\ deployment.status = "ABSENT"
      /\ deployment'.status = "PREPARED" /\ deployment'.authorized = deployment.authorized
  BY DEF Prepare, NoTraceInv, DeploymentInv, RowState
<1>1. ~deployment.authorized /\ ~Exists(Activation) /\ AsBooted
  BY <1>0 DEF NoTraceInv, RowOK, RowBooted, Decided
<1>2. RowOK' /\ RowBooted'
  BY <1>0, <1>1 DEF RowOK, RowBooted, Exists, AsBooted, Decided, vars
<1>3. Mixture' /\ SavesOriginal'
  BY <1>0 DEF NoTraceInv, Mixture, SavesOriginal, Exists, vars
<1>4. ASSUME NEW c \in Caller PROVE OperatorOK(c)' /\ TestOK(op[c], call[c])'
  <2>1. OperatorOK(c) /\ TestOK(op[c], call[c]) /\ CommandFits(op[c], call[c])
        /\ op[c] \in CommandState
    BY DEF NoTraceInv, DeploymentInv
  <2>2. op[c].at = "idle"
    BY <1>0, <1>1, <2>1 DEF OperatorOK, CommandFits, CommandState, Early
  <2>. QED BY <1>0, <2>1, <2>2 DEF OperatorOK, TestOK, Tried, Early
<1>. QED BY <1>2, <1>3, <1>4 DEF NoTraceInv

(* A command begins with what it read.                                     *)
LEMMA BeginNoTrace ==
  ASSUME OneCaller, NoTraceInv, NEW c \in Caller, CommandBegins(c)
  PROVE  NoTraceInv'
<1>1. ASSUME NEW command, NEW at, Begin(c, command, at),
             <<command, at>> \in {<<"test", "claim">>, <<"test", "recheck">>, <<"test", "apply">>,
                                  <<"activate", "claim">>, <<"activate", "apply">>,
                                  <<"rollback", "claim">>, <<"rollback", "restore">>},
             at = "recheck" => deployment.status = "FAILED",
             <<command, at>> = <<"test", "claim">> => deployment.status = "PREPARED",
             <<command, at>> = <<"test", "apply">> => deployment.status = "RECOVERY_TESTING",
             <<command, at>> = <<"activate", "claim">> => deployment.status = "RECOVERY_TESTED",
             <<command, at>> \in {<<"activate", "apply">>, <<"rollback", "claim">>,
                                  <<"rollback", "restore">>} => deployment.authorized
      PROVE  NoTraceInv'
  <2>1. /\ DeploymentInv' /\ UNCHANGED <<vars, deployment>>
        /\ op'[c].command = command /\ op'[c].at = at /\ op'[c].read = deployment.status
    <3>1. DeploymentInv /\ UNCHANGED <<vars, deployment>>
      BY <1>1 DEF NoTraceInv, Begin
    <3>. QED BY <1>1, <3>1, BeginInv
  <2>2. OperatorOK(c)'
    BY <1>1, <2>1 DEF OperatorOK, Early
  <2>3. TestOK(op[c], call[c])'
    BY <1>1, <2>1 DEF TestOK, Tried
  <2>. QED BY <2>1, <2>2, <2>3, SameRowOK, RowMoves
<1>2. deployment.status \in {"ACTIVATING", "ACTIVE", "ROLLING_BACK"} => deployment.authorized
  BY DEF NoTraceInv, RowOK, Decided
<1>3. CASE BeginTest(c)
  BY <1>1, <1>3 DEF BeginTest
<1>4. CASE BeginActivation(c)
  BY <1>1, <1>2, <1>4 DEF BeginActivation
<1>5. CASE BeginRollback(c)
  BY <1>1, <1>2, <1>5 DEF BeginRollback
<1>. QED BY <1>3, <1>4, <1>5 DEF CommandBegins

(* The status that says what is being done.  A test begins only as long as *)
(* nothing was decided, an activation only after a test that passed.       *)
LEMMA ClaimNoTrace ==
  ASSUME OneCaller, NoTraceInv, NEW c \in Caller,
         ClaimTest(c) \/ Authorize(c) \/ ClaimRollback(c)
  PROVE  NoTraceInv'
<1>0. /\ DeploymentInv' /\ UNCHANGED vars /\ op[c].at = "claim"
      /\ op[c].read = deployment.status /\ OperatorOK(c)
      /\ deployment \in RowState /\ RowOK /\ RowBooted
  BY ClaimsInv DEF NoTraceInv, DeploymentInv, ClaimTest, Authorize, ClaimRollback, ClaimRow, OperatorOK
<1>1. CASE UNCHANGED deployment /\ Leave(c)
  BY <1>0, <1>1, SameRowOK, LeavesNoTrace
<1>2. CASE ClaimTest(c)
  <2>. DEFINE row == [deployment EXCEPT !.status = "RECOVERY_TESTING", !.recovery = TRUE]
  <2>1. row.status = "RECOVERY_TESTING" /\ row.authorized = deployment.authorized
    BY <1>0 DEF RowState
  <2>2. op[c].command = "test" /\ deployment.status \in {"PREPARED", "FAILED"}
    BY <1>0, <1>2 DEF ClaimTest, OperatorOK
  <2>3. CASE deployment' = row /\ Accepted(row) /\ Proceed(c, "apply")
    <3>. HIDE DEF row
    <3>1. ~deployment.authorized
      <4>1. CASE deployment.status = "PREPARED"
        BY <1>0, <4>1 DEF RowOK, Decided
      <4>2. CASE deployment.status = "FAILED"
        <5>1. <<deployment.status, row.status>> \notin Ordinary /\ ~GiveUpActivation(row)
          BY <2>1, <4>2 DEF Ordinary, GiveUpActivation
        <5>. QED BY <2>1, <2>3, <4>2, <5>1 DEF Accepted, TestAgain
      <4>. QED BY <2>2, <4>1, <4>2
    <3>2. RowOK' /\ RowBooted'
      BY <1>0, <2>1, <2>3, <3>1 DEF RowOK, RowBooted, Exists, vars, Decided
    <3>. QED BY <1>0, <2>1, <2>2, <2>3, <3>2, ProceedsNoTrace DEF Early, Working
  <2>. QED BY <1>0, <1>1, <1>2, <2>3 DEF ClaimTest, ClaimRow
<1>3. CASE Authorize(c)
  <2>. DEFINE row == [deployment EXCEPT !.status = "ACTIVATING", !.authorized = TRUE]
  <2>1. row.status = "ACTIVATING" /\ row.authorized
    BY <1>0 DEF RowState
  <2>2. op[c].command = "activate" /\ deployment.status = "RECOVERY_TESTED"
    BY <1>0, <1>3 DEF Authorize, OperatorOK
  <2>3. CASE deployment' = row /\ Proceed(c, "apply")
    <3>. HIDE DEF row
    <3>1. AsBooted
      BY <1>0, <2>2 DEF RowBooted
    <3>2. RowOK' /\ RowBooted'
      BY <1>0, <2>1, <2>3, <3>1 DEF RowOK, RowBooted, AsBooted, vars, Decided
    <3>. QED BY <1>0, <2>1, <2>2, <2>3, <3>2, ProceedsNoTrace DEF Early, Working
  <2>. QED BY <1>0, <1>1, <1>3, <2>3 DEF Authorize, ClaimRow
<1>4. CASE ClaimRollback(c)
  <2>. DEFINE row == [deployment EXCEPT !.status = "ROLLING_BACK", !.activation = TRUE]
  <2>1. row.status = "ROLLING_BACK" /\ row.authorized = deployment.authorized
    BY <1>0 DEF RowState
  <2>2. op[c].command = "rollback" /\ deployment.authorized
    BY <1>0, <1>4 DEF ClaimRollback, OperatorOK
  <2>3. CASE deployment' = row /\ Proceed(c, "restore")
    <3>. HIDE DEF row
    <3>1. ~Exists(Activation) => AsBooted
      BY <1>0, <2>2 DEF RowBooted
    <3>2. RowOK' /\ RowBooted'
      BY <1>0, <2>1, <2>2, <2>3, <3>1 DEF RowOK, RowBooted, AsBooted, Exists, vars, Decided
    <3>. QED BY <1>0, <2>1, <2>2, <2>3, <3>2, ProceedsNoTrace DEF Early, Working
  <2>. QED BY <1>0, <1>1, <1>4, <2>3 DEF ClaimRollback, ClaimRow
<1>. QED BY <1>2, <1>3, <1>4

(* A failure goes to the handler.                                          *)
LEMMA HandlerNoTrace ==
  ASSUME OneCaller, NoTraceInv, NEW c \in Caller, UNCHANGED <<vars, deployment>>,
         op[c].at \in {"applying", "check", "restoring", "complete"},
         call[c].pc = "idle", Proceed(c, Handler(c))
  PROVE  NoTraceInv'
<1>1. Handler(c) \in {"cleanup", "mark"}
  BY DEF Handler
<1>2. DeploymentInv'
  BY HandlerProceeds DEF NoTraceInv
<1>3. IF op[c].command = "test" THEN deployment'.status = "RECOVERY_TESTING"
                                ELSE deployment'.authorized
  BY DEF NoTraceInv, OperatorOK, Early
<1>. QED BY <1>1, <1>2, <1>3, SameRowOK, ProceedsNoTrace DEF Early, Working

(* Steps that only look.                                                   *)
LEMMA LookNoTrace ==
  ASSUME OneCaller, NoTraceInv, NEW c \in Caller,
         \/ Recover(c) \/ Applied(c) \/ Check(c) \/ Restored(c) \/ Cleaned(c)
         \/ CommandRaises(c)
  PROVE  NoTraceInv'
<1>0. /\ DeploymentInv' /\ UNCHANGED <<vars, deployment>> /\ call[c].pc = "idle"
      /\ OperatorOK(c) /\ CommandFits(op[c], call[c]) /\ RowOK' /\ RowBooted'
  BY LookInv, SameRowOK
     DEF NoTraceInv, DeploymentInv, Recover, Applied, Check, Restored, Cleaned, CommandRaises,
         CallFits, Working
<1>1. CASE Recover(c)
  <2>1. CASE Proceed(c, "claim")
    <3>1. /\ op'[c].at = "claim" /\ op'[c].command = op[c].command /\ op'[c].read = op[c].read
      BY <2>1, ProceedMoves DEF NoTraceInv
    <3>2. op[c].command = "test" /\ deployment.status = "FAILED" /\ op[c].read = deployment.status
      BY <1>0, <1>1 DEF Recover, CommandFits, OperatorOK
    <3>3. OperatorOK(c)' /\ TestOK(op[c], call[c])'
      BY <1>0, <3>1, <3>2 DEF OperatorOK, TestOK, Tried, Early
    <3>. QED BY <1>0, <3>3, RowMoves
  <2>2. CASE Leave(c)
    BY <1>0, <2>2, LeavesNoTrace
  <2>. QED BY <1>1, <2>1, <2>2 DEF Recover
<1>2. ASSUME op[c].at \notin Early
      PROVE  IF op[c].command = "test" THEN deployment'.status = "RECOVERY_TESTING"
                                       ELSE deployment'.authorized
  BY <1>0, <1>2 DEF OperatorOK
<1>3. CASE Applied(c)
  <2>1. CASE call[c].result = "returned"
    <3>1. PICK r : r = [op[c] EXCEPT !.at = "check", !.applied = TRUE]
      OBVIOUS
    <3>2. op[c] \in CommandState
      BY DEF NoTraceInv, DeploymentInv
    <3>3. r.at = "check" /\ r.command = op[c].command
      BY <3>1, <3>2 DEF CommandState
    <3>4. op'[c] = r
      BY <1>3, <2>1, <3>1 DEF Applied, NoTraceInv, DeploymentInv
    <3>5. OperatorOK(c)'
      BY <1>2, <1>3, <3>3, <3>4 DEF OperatorOK, Early, Applied
    <3>6. op[c].command = "test" => Canonical /\ Settled
      BY <1>0, <1>3, <2>1 DEF NoTraceInv, TestOK, Tried, Applied
    <3>7. TestOK(op[c], call[c])'
      BY <1>0, <3>3, <3>4, <3>6 DEF TestOK, Settled, vars, targetVars
    <3>. QED BY <1>0, <3>5, <3>7, RowMoves
  <2>2. CASE call[c].result # "returned"
    BY <1>0, <1>3, <2>2, HandlerNoTrace DEF Applied
  <2>. QED BY <2>1, <2>2
<1>4. CASE Check(c)
  <2>1. CASE Proceed(c, Handler(c))
    BY <1>0, <1>4, <2>1, HandlerNoTrace DEF Check
  <2>2. ASSUME NEW at \in {"restore", "complete"}, Proceed(c, at),
               at = "complete" => op[c].command # "test"
        PROVE  NoTraceInv'
    BY <1>0, <1>2, <1>4, <2>2, ProceedsNoTrace DEF Check, Tried, Early, Working
  <2>. QED BY <1>4, <2>1, <2>2 DEF Check
<1>5. CASE Restored(c)
  <2>1. CASE Proceed(c, Handler(c))
    BY <1>0, <1>5, <2>1, HandlerNoTrace DEF Restored
  <2>2. CASE call[c].result = "returned" /\ Proceed(c, "complete")
    BY <1>0, <1>2, <1>5, <2>2, ProceedsNoTrace DEF Restored, Early, Working
  <2>. QED BY <1>5, <2>1, <2>2 DEF Restored
<1>6. CASE Cleaned(c)
  BY <1>0, <1>2, <1>6, ProceedsNoTrace DEF Cleaned, Early, Working
<1>7. CASE CommandRaises(c)
  <2>1. CASE op[c].at \in {"check", "complete"} /\ Proceed(c, Handler(c))
    BY <1>0, <2>1, HandlerNoTrace
  <2>2. CASE Leave(c)
    BY <1>0, <2>2, LeavesNoTrace
  <2>. QED BY <1>7, <2>1, <2>2 DEF CommandRaises
<1>. QED BY <1>1, <1>3, <1>4, <1>5, <1>6, <1>7

(* The last UPDATE: a test gets there with everything as it was.           *)
LEMMA CompleteNoTrace ==
  ASSUME OneCaller, NoTraceInv, NEW c \in Caller, Complete(c)
  PROVE  NoTraceInv'
<1>0. /\ DeploymentInv' /\ UNCHANGED vars /\ op[c].at = "complete" /\ call[c].pc = "idle"
      /\ op[c].command \in {"test", "activate", "rollback"}
      /\ OperatorOK(c) /\ TestOK(op[c], call[c]) /\ deployment \in RowState /\ RowOK /\ RowBooted
  BY CompleteInv
     DEF NoTraceInv, DeploymentInv, Complete, CallFits, CommandFits, CommandState, Working
<1>1. CASE UNCHANGED deployment /\ Leave(c)
  BY <1>0, <1>1, SameRowOK, LeavesNoTrace
<1>2. CASE UNCHANGED deployment /\ Proceed(c, Handler(c))
  BY <1>0, <1>2, HandlerNoTrace
<1>3. CASE deployment' = Done(c) /\ Leave(c)
  <2>1. /\ deployment'.authorized = deployment.authorized
        /\ deployment'.status = CASE op[c].command = "test" -> "RECOVERY_TESTED"
                                  [] op[c].command = "activate" -> "ACTIVE"
                                  [] op[c].command = "rollback" -> "ROLLED_BACK"
    <3>1. CASE op[c].command = "test"
      BY <1>0, <1>3, <3>1 DEF Done, RowState
    <3>2. CASE op[c].command = "activate"
      BY <1>0, <1>3, <3>2 DEF Done, RowState
    <3>3. CASE op[c].command = "rollback"
      BY <1>0, <1>3, <3>3 DEF Done, RowState
    <3>. QED BY <1>0, <3>1, <3>2, <3>3
  <2>2. CASE op[c].command = "test"
    <3>1. AsBooted /\ deployment.status = "RECOVERY_TESTING" /\ ~Exists(Activation)
          /\ ~deployment.authorized
      BY <1>0, <2>2, TestAlone DEF TestOK, Early
    <3>2. RowOK' /\ RowBooted'
      BY <1>0, <2>1, <2>2, <3>1 DEF RowOK, RowBooted, AsBooted, Exists, vars, Decided
    <3>. QED BY <1>0, <1>3, <3>2, LeavesNoTrace
  <2>3. CASE op[c].command # "test"
    <3>1. deployment.authorized /\ deployment'.status \in {"ACTIVE", "ROLLED_BACK"}
      BY <1>0, <2>1, <2>3 DEF OperatorOK, Early
    <3>2. RowOK' /\ RowBooted'
      BY <1>0, <2>1, <3>1 DEF RowOK, RowBooted, AsBooted, Exists, vars, Decided
    <3>. QED BY <1>0, <1>3, <3>2, LeavesNoTrace
  <2>. QED BY <2>2, <2>3
<1>. QED BY <1>1, <1>2, <1>3 DEF Complete

(* _mark_failed never takes a decision back.                               *)
LEMMA MarkFailedNoTrace ==
  ASSUME OneCaller, NoTraceInv, NEW c \in Caller, MarkFailed(c)
  PROVE  NoTraceInv'
<1>0. /\ DeploymentInv' /\ UNCHANGED vars /\ Leave(c)
      /\ deployment \in RowState /\ RowOK /\ RowBooted
  BY MarkFailedInv DEF NoTraceInv, DeploymentInv, MarkFailed
<1>1. CASE UNCHANGED deployment
  BY <1>0, <1>1, SameRowOK, LeavesNoTrace
<1>2. CASE deployment.status \notin {"FAILED", "ROLLED_BACK"}
  <2>1. deployment'.status = "FAILED" /\ deployment'.authorized = deployment.authorized
    BY <1>0, <1>2 DEF MarkFailed, RowState
  <2>2. RowOK' /\ RowBooted'
    BY <1>0, <2>1 DEF RowOK, RowBooted, AsBooted, Exists, vars, Decided
  <2>. QED BY <1>0, <2>2, LeavesNoTrace
<1>. QED BY <1>1, <1>2 DEF MarkFailed
-----------------------------------------------------------------------------
(* What a step of the controller does to the target.                       *)
LEMMA SetsOne ==
  ASSUME file \in [Knob -> Value], NEW c, NEW pc, NEW settings, NEW next,
         SetSystem(c, pc, settings, next)
  PROVE  \A k \in Knob : file'[k] \in {file[k], settings[k]}
BY DEF SetSystem

(* The other steps leave the target alone.                                 *)
LEMMA TargetQuiet ==
  ASSUME NEW c \in Caller, Step(c) \/ TryRaises(c) \/ CallRaises(c),
         call[c].pc \notin {"write", "activate", "rewrite", "reactivate"}
                \/ TryRaises(c) \/ CallRaises(c)
  PROVE  UNCHANGED targetVars
BY DEF Step, Discover, Lookup, Insert, Compare, Affirm, Reopen, Write, Rewrite, SetSystem,
       ActivateRequested, Reactivate, Activate, Verify, Mark, Abort, Find, Recheck, Reverify,
       Record, TryRaises, CallRaises

(* Until the activation, every write is one of the test, or of its         *)
(* rollback.                                                               *)
LEMMA MixtureStep ==
  ASSUME DeploymentInv, Mixture, NEW c \in Caller, Step(c) \/ TryRaises(c) \/ CallRaises(c),
         RowsStay
  PROVE  Mixture'
<1>. SUFFICES ASSUME ~Exists(Activation)', NEW k \in Knobs(Recovery)
              PROVE  /\ file'[k] \in {Boot[k], Wanted[k]}
                     /\ active'[k] \in {Boot[k], Shown[Wanted[k]]}
  BY DEF Mixture, Wanted, Knobs
<1>0. /\ ~Exists(Activation) /\ k \in Knob /\ TypeOK /\ CallOK(c)
      /\ file[k] \in {Boot[k], Wanted[k]} /\ active[k] \in {Boot[k], Shown[Wanted[k]]}
  BY TwoApplications, KnobsType
     DEF Mixture, RowsStay, Exists, DeploymentInv, RecoveryInv
<1>1. CASE UNCHANGED targetVars
  BY <1>0, <1>1 DEF targetVars
<1>2. ASSUME status[call[c].app] # "ABSENT", call[c].pc # "idle"
      PROVE  call[c].app = Recovery /\ snapshot[Recovery][k] = Boot[k]
  BY <1>0, <1>2, TwoApplications, TestSaves DEF CallOK, Exists
<1>3. CASE Write(c)
  <2>1. call[c].app = Recovery /\ UNCHANGED active
    BY <1>0, <1>2, <1>3 DEF Write, SetSystem, CallOK
  <2>2. file'[k] \in {file[k], Wanted[k]}
    BY <1>0, <1>3, <2>1, SetsOne DEF Write, TypeOK, Wanted
  <2>. QED BY <1>0, <2>1, <2>2
<1>4. CASE Rewrite(c)
  <2>1. call[c].app = Recovery /\ UNCHANGED active /\ snapshot[Recovery][k] = Boot[k]
    BY <1>0, <1>2, <1>4 DEF Rewrite, SetSystem, CallOK
  <2>2. file'[k] \in {file[k], snapshot[Recovery][k]}
    BY <1>0, <1>4, <2>1, SetsOne DEF Rewrite, TypeOK
  <2>. QED BY <1>0, <2>1, <2>2
<1>5. CASE ActivateRequested(c) \/ Reactivate(c)
  <2>1. UNCHANGED file /\ active' \in {Started, Reloaded}
    BY <1>5 DEF ActivateRequested, Reactivate, Activate
  <2>2. Shown[Boot[k]] = Boot[k]
    BY <1>0, ShownAssumption
  <2>3. Started[k] \in {Boot[k], Shown[Wanted[k]]} /\ Reloaded[k] \in {Boot[k], Shown[Wanted[k]]}
    BY <1>0, <2>2 DEF Started, Reloaded
  <2>. QED BY <1>0, <2>1, <2>3
<1>. QED BY <1>1, <1>3, <1>4, <1>5, TargetQuiet
         DEF Step, Discover, Lookup, Insert, Compare, Affirm, Reopen, Verify, Mark, Abort, Find,
             Recheck, Reverify, Record, TryRaises, CallRaises

(* The row still tells the truth: only an activation's command, which was  *)
(* decided on, inserts the application of the activation, and what it has  *)
(* read is the original configuration.                                     *)
LEMMA WorkRow ==
  ASSUME NoTraceInv, OneCaller, NEW c \in Caller, Work(c) \/ WorkFails(c)
  PROVE  RowOK' /\ RowBooted' /\ SavesOriginal' /\ Mixture'
<1>0. /\ op[c].at \in Working /\ call[c].app = AppOf(op[c]) /\ call[c].pc # "idle"
      /\ call'[c].pc # "idle" => call'[c].app = call[c].app
      /\ CallMoves(c) /\ RowsStay /\ TypeOK /\ CallOK(c)
      /\ UNCHANGED deployment /\ (Step(c) \/ TryRaises(c) \/ CallRaises(c))
      /\ RowOK /\ RowBooted /\ SavesOriginal /\ OperatorOK(c) /\ op[c].at \notin Early
  BY WorkInv DEF NoTraceInv, DeploymentInv, RecoveryInv, Work, WorkFails, Leads, deploymentVars,
                 Working, Early
<1>1. Mixture'
  BY <1>0, MixtureStep DEF NoTraceInv
<1>2. \A a \in Application : status'[a] # "ABSENT" /\ status[a] = "ABSENT" =>
        call[c].pc = "insert" /\ a = call[c].app /\ snapshot'[a] = call[c].seen
  BY <1>0, RowsStep DEF Fault
<1>3. CASE op[c].command = "test"
  <2>1. /\ deployment.status = "RECOVERY_TESTING" /\ ~deployment.authorized
        /\ ~Exists(Activation) /\ call[c].app = Recovery
    BY <1>0, <1>3, TestAlone DEF AppOf
  <2>2. ~Exists(Activation)'
    BY <1>2, <2>1, TwoApplications DEF Exists
  <2>3. RowOK' /\ RowBooted'
    BY <1>0, <2>1, <2>2 DEF RowOK, RowBooted, Decided
  <2>4. SavesOriginal'
    <3>1. call'[c].app # Activation \/ call'[c].pc = "idle"
      BY <1>0, <2>1, TwoApplications
    <3>. QED BY <2>2, <3>1 DEF SavesOriginal, OneCaller
  <2>. QED BY <1>1, <2>3, <2>4
<1>4. CASE op[c].command # "test"
  <2>1. deployment.authorized /\ call[c].app = Activation
    BY <1>0, <1>4 DEF OperatorOK, AppOf
  <2>2. RowOK'
    BY <1>0, <2>1 DEF RowOK
  <2>3. ASSUME ~Exists(Activation)' PROVE AsBooted /\ ~Exists(Activation) /\ AsBooted'
    <3>1. ~Exists(Activation)
      BY <1>0, <2>3, TwoApplications DEF RowsStay, Exists
    <3>2. AsBooted
      BY <1>0, <2>1, <3>1 DEF RowBooted
    <3>3. Started = Boot /\ Reloaded = Boot
      <4>1. Boot \in [Knob -> Value] /\ \A k \in Knob : Shown[Boot[k]] = Boot[k]
        BY BootAssumption, ShownAssumption
      <4>. QED BY <3>2, <4>1 DEF AsBooted, Started, Reloaded
    <3>4. AsBooted'
      BY <1>0, <2>1, <3>1, <3>2, <3>3, TargetStep DEF AsBooted, targetVars, Exists, Fault
    <3>. QED BY <3>1, <3>2, <3>4
  <2>4. RowBooted'
    BY <1>0, <2>1, <2>2, <2>3 DEF RowBooted, RowOK, Decided
  <2>5. SavesOriginal'
    <3>1. ASSUME Exists(Activation)', NEW k \in Knobs(Activation)
          PROVE  snapshot'[Activation][k] = Boot[k]
      <4>1. CASE Exists(Activation)
        BY <1>0, <3>1, <4>1, TwoApplications DEF SavesOriginal, RowsStay, Exists
      <4>2. CASE ~Exists(Activation)
        BY <1>0, <1>2, <2>1, <3>1, <4>2, TwoApplications DEF SavesOriginal, Exists
      <4>. QED BY <4>1, <4>2
    <3>2. ASSUME call'[c].pc \in {"lookup", "insert"}, call'[c].app = Activation,
                 ~Exists(Activation)', NEW k \in Knobs(Activation)
          PROVE  call'[c].seen[k] = Boot[k]
      <4>1. CASE call'[c].seen = Active(call'[c].app)
        BY <2>3, <3>2, <4>1 DEF AsBooted, Active
      <4>2. CASE call[c].pc = "lookup" /\ call'[c].seen = call[c].seen
                   /\ call'[c].app = call[c].app
        BY <1>0, <2>3, <3>2, <4>2 DEF SavesOriginal
      <4>. QED BY <1>0, <3>2, <4>1, <4>2 DEF CallMoves
    <3>. QED BY <3>1, <3>2 DEF SavesOriginal, OneCaller, Knobs
  <2>. QED BY <1>1, <2>2, <2>4, <2>5
<1>. QED BY <1>3, <1>4
-----------------------------------------------------------------------------
(* What the test has tried and undone.                                     *)

(* Looking at the settings the test asked for means that the server has    *)
(* them as they were asked for.                                            *)
LEMMA Shows ==
  ASSUME Mixture, ~Exists(Activation), Active(Recovery) = Requested[Recovery]
  PROVE  Canonical /\ \A k \in Knobs(Recovery) : active[k] = Wanted[k]
<1>1. ASSUME NEW k \in Knobs(Recovery)
      PROVE  active[k] = Wanted[k] /\ Shown[Wanted[k]] = Wanted[k]
  <2>1. Active(Recovery)[k] = active[k]
    BY DEF Active
  <2>2. active[k] = Wanted[k]
    BY <2>1 DEF Wanted
  <2>3. k \in Knob /\ Shown[Boot[k]] = Boot[k]
    BY TwoApplications, KnobsType, ShownAssumption
  <2>. QED BY <2>2, <2>3 DEF Mixture
<1>. QED BY <1>1 DEF Canonical

(* After that, seeing the snapshot's settings active means that the file   *)
(* has them too.                                                           *)
LEMMA SeenBack ==
  ASSUME DeploymentInv, Mixture, ~Exists(Activation), Exists(Recovery), Canonical, Settled,
         Active(Recovery) = snapshot[Recovery]
  PROVE  AsBooted
<1>1. snapshot[Recovery] = [k \in Knobs(Recovery) |-> Boot[k]]
  BY TestSaves
<1>2. ASSUME NEW k \in Knobs(Recovery) PROVE file[k] = Boot[k] /\ active[k] = Boot[k]
  <2>1. active[k] = Boot[k]
    <3>1. Active(Recovery)[k] = active[k]
      BY DEF Active
    <3>. QED BY <1>1, <3>1
  <2>2. k \in Knob /\ Shown[Boot[k]] = Boot[k] /\ Shown[Wanted[k]] = Wanted[k]
    BY TwoApplications, KnobsType, ShownAssumption DEF Canonical
  <2>. QED BY <2>1, <2>2 DEF Mixture, Settled
<1>. QED BY <1>2, Booted

(* So does having written the snapshot's settings and seeing them active.  *)
LEMMA BackInBoth ==
  ASSUME DeploymentInv, ~Exists(Activation), Exists(Recovery),
         InFile(Recovery, snapshot[Recovery]), Active(Recovery) = snapshot[Recovery]
  PROVE  AsBooted
<1>1. snapshot[Recovery] = [k \in Knobs(Recovery) |-> Boot[k]]
  BY TestSaves
<1>2. ASSUME NEW k \in Knobs(Recovery) PROVE file[k] = Boot[k] /\ active[k] = Boot[k]
  <2>1. Active(Recovery)[k] = active[k]
    BY DEF Active
  <2>. QED BY <1>1, <2>1 DEF InFile
<1>. QED BY <1>2, Booted

(* The rollback of the test, step by step.                                 *)
LEMMA BackStep ==
  ASSUME NoTraceInv, NEW c \in Caller, Step(c) \/ CallRaises(c),
         call[c].pc \in Undoing, call[c].after = "return", call[c].app = Recovery,
         ~Exists(Activation), Exists(Recovery), RowsStay,
         call[c].pc \in {"find", "recheck"} => Canonical /\ Settled,
         BackOK(call[c])
  PROVE  /\ call'[c].pc = "recheck" => call[c].pc = "find" /\ UNCHANGED targetVars
         /\ call'[c].pc # "find"
         /\ BackOK(call[c])'
<1>0. /\ DeploymentInv /\ Mixture /\ TypeOK /\ CallOK(c) /\ call[c] \in CallState
      /\ call \in [Caller -> CallState]
      /\ Recovery \in Application /\ snapshot'[Recovery] = snapshot[Recovery]
      /\ status[Recovery] # "ABSENT"
  BY TwoApplications DEF NoTraceInv, DeploymentInv, RecoveryInv, TypeOK, RowsStay, Exists
<1>1. ASSUME Finish(c, "raised")
      PROVE  /\ call'[c].pc = "idle" /\ BackOK(call[c])'
  <2>1. call'[c].pc = "idle" /\ call'[c].result = "raised"
    BY <1>0, <1>1, FinishSays
  <2>. QED BY <2>1 DEF BackOK, Restoring
<1>2. ASSUME Finish(c, "returned"), AsBooted, UNCHANGED targetVars
      PROVE  /\ call'[c].pc = "idle" /\ BackOK(call[c])'
  <2>1. call'[c].pc = "idle" /\ AsBooted'
    BY <1>0, <1>2, FinishSays DEF AsBooted, targetVars
  <2>. QED BY <2>1 DEF BackOK, Restoring
<1>3. ASSUME GotoWrite(c, "rewrite")
      PROVE  /\ call'[c].pc = "rewrite" /\ BackOK(call[c])'
  <2>1. call'[c].pc = "rewrite" /\ call'[c].todo = Knobs(Recovery)
    BY <1>0, <1>3, GotoWriteKeeps
  <2>. QED BY <2>1 DEF BackOK, Restoring, Knobs
<1>4. ASSUME RollbackReturns(c) PROVE Finish(c, "returned")
  BY <1>4 DEF RollbackReturns
<1>5. CASE CallRaises(c)
  BY <1>1, <1>5 DEF CallRaises
<1>6. CASE Find(c)
  <2>1. CASE Goto(c, "recheck")
    <3>1. call'[c].pc = "recheck"
      BY <1>0, <2>1, GotoKeeps
    <3>2. BackOK(call[c])'
      BY <3>1 DEF BackOK, Restoring
    <3>. QED BY <1>6, <3>1, <3>2 DEF Find
  <2>2. CASE GotoWrite(c, "rewrite")
    BY <1>3, <2>2
  <2>. QED BY <1>0, <1>6, <2>1, <2>2 DEF Find
<1>7. CASE Recheck(c)
  <2>1. CASE Active(Recovery) = snapshot[Recovery] /\ RollbackReturns(c)
    <3>1. AsBooted
      BY <1>0, <1>7, <2>1, SeenBack DEF Recheck
    <3>. QED BY <1>2, <1>4, <1>7, <2>1, <3>1 DEF Recheck
  <2>2. CASE GotoWrite(c, "rewrite")
    BY <1>3, <2>2
  <2>. QED BY <1>7, <2>1, <2>2 DEF Recheck
<1>8. CASE Rewrite(c)
  <2>1. /\ SetSystem(c, "rewrite", snapshot[Recovery], "reactivate") /\ call[c].pc = "rewrite"
        /\ call[c].todo \subseteq Knobs(call[c].app)
    BY <1>0, <1>8 DEF Rewrite, SetSystem, CallOK
  <2>2. \A k \in Knobs(Recovery) \ call[c].todo : file[k] = snapshot[Recovery][k]
    BY <2>1 DEF BackOK
  <2>3. \/ /\ call'[c].pc = "rewrite"
           /\ \A k \in Knobs(Recovery) \ call'[c].todo : file'[k] = snapshot[Recovery][k]
        \/ /\ call'[c].pc = "reactivate"
           /\ \A k \in Knobs(Recovery) : file'[k] = snapshot[Recovery][k]
    BY <1>0, <2>1, <2>2, OneKnobWritten
  <2>4. BackOK(call[c])'
    BY <1>0, <2>3 DEF BackOK, Restoring, InFile, Knobs
  <2>. QED BY <2>3, <2>4
<1>9. CASE Reactivate(c)
  <2>1. call[c].pc = "reactivate" /\ UNCHANGED file /\ Goto(c, "reverify")
    BY <1>9 DEF Reactivate, Activate
  <2>2. call'[c].pc = "reverify"
    BY <1>0, <2>1, GotoKeeps
  <2>3. InFile(Recovery, snapshot[Recovery])'
    BY <1>0, <2>1 DEF BackOK, Restoring, InFile, Knobs
  <2>4. BackOK(call[c])'
    BY <2>2, <2>3 DEF BackOK, Restoring
  <2>. QED BY <2>2, <2>4
<1>10. CASE Reverify(c)
  <2>1. CASE Finish(c, "raised")
    BY <1>1, <2>1
  <2>2. CASE Active(Recovery) = snapshot[Recovery] /\ Goto(c, "record")
    <3>1. call'[c].pc = "record" /\ UNCHANGED targetVars
      BY <1>0, <1>10, <2>2, GotoKeeps DEF Reverify
    <3>2. Active(Recovery)' = snapshot'[Recovery] /\ InFile(Recovery, snapshot[Recovery])'
      BY <1>0, <1>10, <2>2, <3>1 DEF Reverify, BackOK, Restoring, InFile, Active, Knobs, targetVars
    <3>3. BackOK(call[c])'
      BY <3>1, <3>2 DEF BackOK, Restoring
    <3>. QED BY <3>1, <3>3
  <2>. QED BY <1>10, <2>1, <2>2 DEF Reverify
<1>11. CASE Record(c)
  <2>1. AsBooted
    BY <1>0, <1>11, BackInBoth DEF Record, BackOK, Restoring
  <2>. QED BY <1>2, <1>4, <1>11, <2>1 DEF Record
<1>. QED BY <1>5, <1>6, <1>7, <1>8, <1>9, <1>10, <1>11
         DEF Undoing, Step, Discover, Lookup, Insert, Compare, Affirm, Reopen, Write, SetSystem,
             ActivateRequested, Activate, Verify, Mark, Abort

(* What the controller does for a test.                                    *)
LEMMA WorkTest ==
  ASSUME NoTraceInv, NEW c \in Caller, Work(c) \/ WorkFails(c)
  PROVE  TestOK(op[c], call[c])'
<1>0. /\ op[c].at \in Working /\ call[c].app = AppOf(op[c]) /\ UNCHANGED deploymentVars
      /\ Step(c) \/ TryRaises(c) \/ CallRaises(c)
      /\ Leads(call[c], call'[c]) /\ RowsStay /\ op[c].at \notin Early
      /\ CallFits(op[c], call[c]) /\ CommandFits(op[c], call[c]) /\ DeploymentInv
      /\ OperatorOK(c) /\ TestOK(op[c], call[c]) /\ RowOK /\ Mixture
  BY WorkInv DEF NoTraceInv, DeploymentInv, Work, WorkFails, Working, Early
<1>. SUFFICES ASSUME op[c].command = "test" PROVE TestOK(op[c], call[c])'
  BY <1>0 DEF TestOK, deploymentVars
<1>1. ~Exists(Activation) /\ call[c].app = Recovery /\ op'[c] = op[c] /\ call[c].pc # "idle"
  BY <1>0, TestAlone DEF AppOf, deploymentVars, Leads
<1>2. CASE op[c].at = "cleaning"
  BY <1>1, <1>2 DEF TestOK, Tried
<1>3. CASE op[c].at = "applying"
  <2>1. SUFFICES ASSUME Tried(op[c], call'[c]) PROVE Canonical /\ Settled'
    BY <1>1, <1>3 DEF TestOK, Tried, Canonical, Settled
  <2>2. call'[c].pc \in {"mark", "affirm"} \/ (call'[c].pc = "idle" /\ call'[c].result = "returned")
    BY <1>3, <2>1 DEF Tried
  <2>3. call[c].pc \in {"compare", "verify", "affirm", "mark"}
    BY <1>0, <1>3, <2>2 DEF Leads, CallFits, Undoing
  <2>4. UNCHANGED targetVars
    BY <1>0, <2>3, TargetQuiet
  <2>5. CASE call[c].pc \in {"affirm", "mark"}
    BY <1>0, <1>3, <2>4, <2>5 DEF TestOK, Tried, Settled, targetVars
  <2>6. CASE call[c].pc \in {"compare", "verify"}
    <3>1. Active(Recovery) = Requested[Recovery]
      BY <1>0, <1>1, <2>2, <2>6 DEF Leads
    <3>2. Canonical /\ \A k \in Knobs(Recovery) : active[k] = Wanted[k]
      BY <1>0, <1>1, <3>1, Shows
    <3>. QED BY <2>4, <3>2 DEF Settled, targetVars
  <2>. QED BY <2>3, <2>5, <2>6
<1>4. CASE op[c].at = "restoring"
  <2>1. call[c].pc \in Undoing /\ call[c].after = "return" /\ Exists(Recovery)
    BY <1>0, <1>1, <1>4 DEF CallFits, CommandFits, AppOf
  <2>2. Step(c) \/ CallRaises(c)
    BY <1>0, <2>1 DEF TryRaises, Undoing
  <2>3. BackOK(call[c]) /\ (call[c].pc \in {"find", "recheck"} => Canonical /\ Settled)
    BY <1>0, <1>4 DEF TestOK, Tried
  <2>4. /\ call'[c].pc = "recheck" => call[c].pc = "find" /\ UNCHANGED targetVars
        /\ call'[c].pc # "find" /\ BackOK(call[c])'
    BY <1>0, <1>1, <2>1, <2>2, <2>3, BackStep
  <2>5. Tried(op[c], call[c])' => Canonical /\ Settled'
    BY <1>1, <1>4, <2>3, <2>4 DEF Tried, Settled, targetVars
  <2>. QED BY <1>1, <1>4, <2>4, <2>5 DEF TestOK, Canonical
<1>. QED BY <1>0, <1>2, <1>3, <1>4 DEF Working
-----------------------------------------------------------------------------
(* Every step of the controller.                                           *)
LEMMA WorkNoTrace ==
  ASSUME OneCaller, NoTraceInv, NEW c \in Caller, Work(c) \/ WorkFails(c)
  PROVE  NoTraceInv'
<1>1. DeploymentInv' /\ RowOK' /\ RowBooted' /\ SavesOriginal' /\ Mixture'
      /\ TestOK(op[c], call[c])'
  BY WorkInv, WorkRow, WorkTest DEF NoTraceInv
<1>2. OperatorOK(c)'
  BY DEF NoTraceInv, OperatorOK, Work, WorkFails, deploymentVars
<1>3. \A d \in Caller : OperatorOK(d)' /\ TestOK(op[d], call[d])'
  BY <1>1, <1>2 DEF OneCaller
<1>. QED BY <1>1, <1>3 DEF NoTraceInv

(* A step that leaves target and rows alone and starts or drops a call.    *)
LEMMA CallsNoTrace ==
  ASSUME OneCaller, NoTraceInv, DeploymentInv', NEW c \in Caller,
         UNCHANGED <<targetVars, rowVars, deployment>>,
         call'[c].pc \notin {"lookup", "insert"},
         OperatorOK(c)', TestOK(op[c], call[c])'
  PROVE  NoTraceInv'
<1>1. RowOK' /\ RowBooted' /\ Mixture'
  BY DEF NoTraceInv, RowOK, RowBooted, Mixture, Exists, AsBooted, targetVars, rowVars
<1>2. SavesOriginal'
  BY DEF NoTraceInv, SavesOriginal, Exists, OneCaller, rowVars
<1>3. \A d \in Caller : OperatorOK(d)' /\ TestOK(op[d], call[d])'
  BY DEF OneCaller
<1>. QED BY <1>1, <1>2, <1>3 DEF NoTraceInv

(* A command calls the controller.                                         *)
LEMMA CallNoTrace ==
  ASSUME OneCaller, NoTraceInv, NEW c \in Caller, CallApply(c) \/ Restore(c) \/ CleanUp(c)
  PROVE  NoTraceInv'
<1>0. /\ DeploymentInv' /\ op'[c].command = op[c].command
      /\ call'[c].pc \in {"discover", "find"} /\ OperatorOK(c) /\ TestOK(op[c], call[c])
      /\ UNCHANGED <<targetVars, rowVars, deployment>>
  BY CallInv DEF NoTraceInv, CallApply, Restore, CleanUp, CallRollback, Apply, Rollback
<1>1. ASSUME NEW at, NEW next, NEW pc, op[c].at = at, Proceed(c, next), call'[c].pc = pc,
             <<at, next, pc>> \in {<<"apply", "applying", "discover">>,
                                   <<"restore", "restoring", "find">>,
                                   <<"cleanup", "cleaning", "find">>}
      PROVE  NoTraceInv'
  <2>1. op'[c].at = next
    BY <1>1, ProceedMoves DEF NoTraceInv
  <2>2. OperatorOK(c)'
    BY <1>0, <1>1, <2>1 DEF OperatorOK, Early
  <2>3. op[c].command = "test" /\ at = "restore" => Canonical /\ Settled
    BY <1>0, <1>1 DEF TestOK, Tried
  <2>4. TestOK(op[c], call[c])'
    BY <1>0, <1>1, <2>1, <2>3 DEF TestOK, Tried, BackOK, Restoring, Settled, targetVars
  <2>. QED BY <1>0, <2>2, <2>4, CallsNoTrace
<1>2. CASE CallApply(c)
  <2>1. PICK l : l = [Idle EXCEPT !.pc = "discover", !.app = App(c), !.force = TRUE]
    OBVIOUS
  <2>2. l.pc = "discover"
    BY <2>1 DEF Idle
  <2>3. call'[c] = l
    BY <1>2, <2>1 DEF CallApply, Apply, NoTraceInv, DeploymentInv, RecoveryInv, TypeOK
  <2>. QED BY <1>1, <1>2, <2>2, <2>3 DEF CallApply
<1>3. ASSUME NEW at, NEW next, CallRollback(c, at, next) PROVE call'[c].pc = "find"
  <2>1. PICK l : l = [Idle EXCEPT !.pc = "find", !.app = App(c)]
    OBVIOUS
  <2>2. l.pc = "find"
    BY <2>1 DEF Idle
  <2>3. call'[c] = l
    BY <1>3, <2>1 DEF CallRollback, Rollback, NoTraceInv, DeploymentInv, RecoveryInv, TypeOK
  <2>. QED BY <2>2, <2>3
<1>4. CASE Restore(c)
  BY <1>1, <1>3, <1>4 DEF Restore, CallRollback
<1>5. CASE CleanUp(c)
  BY <1>1, <1>3, <1>5 DEF CleanUp, CallRollback
<1>. QED BY <1>2, <1>4, <1>5

(* The process of a command dies.                                          *)
LEMMA DiesNoTrace ==
  ASSUME OneCaller, NoTraceInv, NEW c \in Caller, CommandDies(c)
  PROVE  NoTraceInv'
<1>1. DeploymentInv' /\ op'[c].at = "idle" /\ op'[c].command = "none"
  BY DiesInv, LeaveMoves DEF NoTraceInv, CommandDies
<1>2. call'[c].pc = "idle" /\ UNCHANGED <<targetVars, rowVars, deployment>>
  BY DEF CommandDies, Idle, NoTraceInv, DeploymentInv, RecoveryInv, TypeOK
<1>3. OperatorOK(c)' /\ TestOK(op[c], call[c])'
  BY <1>1 DEF OperatorOK, TestOK, Early
<1>. QED BY <1>1, <1>2, <1>3, CallsNoTrace

(* A restart of the target activates what is in the file.                  *)
LEMMA RestartNoTrace ==
  ASSUME NoTraceInv, TargetRestartsAlone
  PROVE  NoTraceInv'
<1>0. /\ DeploymentInv' /\ UNCHANGED <<file, rowVars, call, deployment, op>>
      /\ active' = Started
  BY RestartInv DEF NoTraceInv, TargetRestartsAlone, TargetRestarts, deploymentVars
<1>1. ASSUME NEW k \in Knob, file[k] = Boot[k] PROVE active'[k] = Boot[k]
  BY <1>0, <1>1, ShownAssumption DEF Started
<1>2. AsBooted => AsBooted'
  <2>1. SUFFICES ASSUME AsBooted PROVE active' = Boot
    BY <1>0 DEF AsBooted
  <2>2. active' \in [Knob -> Value] /\ Boot \in [Knob -> Value]
    BY <1>0, BootAssumption DEF DeploymentInv, RecoveryInv, TypeOK
  <2>. QED BY <1>1, <2>1, <2>2 DEF AsBooted
<1>3. RowOK' /\ RowBooted' /\ SavesOriginal'
  BY <1>0, <1>2 DEF NoTraceInv, RowOK, RowBooted, SavesOriginal, Exists, rowVars
<1>4. Knobs(Recovery) \subseteq Knob
  BY TwoApplications, KnobsType
<1>5. Mixture'
  <2>1. SUFFICES ASSUME ~Exists(Activation), NEW k \in Knobs(Recovery)
                 PROVE  file[k] \in {Boot[k], Wanted[k]} /\ active'[k] \in {Boot[k], Shown[Wanted[k]]}
    BY <1>0 DEF Mixture, Exists, Wanted, Knobs, rowVars
  <2>2. file[k] \in {Boot[k], Wanted[k]} /\ k \in Knob
    BY <1>4, <2>1 DEF NoTraceInv, Mixture
  <2>. QED BY <1>0, <1>1, <2>2 DEF Started
<1>6. ASSUME NEW c \in Caller PROVE OperatorOK(c)' /\ TestOK(op[c], call[c])'
  <2>1. OperatorOK(c)'
    BY <1>0 DEF NoTraceInv, OperatorOK
  <2>2. SUFFICES ASSUME op[c].command = "test" PROVE TestOK(op[c], call[c])'
    BY <1>0, <2>1 DEF TestOK
  <2>3. TestOK(op[c], call[c])
    BY DEF NoTraceInv
  <2>4. Settled'
    BY <1>0, <1>4 DEF Settled, Started
  <2>5. op[c].at = "restoring" => BackOK(call[c])'
    <3>1. SUFFICES ASSUME op[c].at = "restoring", BackOK(call[c]) PROVE BackOK(call[c])'
      BY <2>2, <2>3 DEF TestOK
    <3>2. ~Exists(Activation) /\ Exists(Recovery)
      BY <2>2, <3>1, TestAlone DEF NoTraceInv, DeploymentInv, CommandFits, AppOf, Early
    <3>3. snapshot[Recovery] = [k \in Knobs(Recovery) |-> Boot[k]]
      BY <3>2, TestSaves DEF NoTraceInv
    <3>4. InFile(Recovery, snapshot[Recovery]) => Active(Recovery)' = snapshot[Recovery]
      BY <1>1, <1>4, <3>3 DEF InFile, Active, Knobs
    <3>. QED BY <1>0, <1>2, <3>1, <3>4 DEF BackOK, InFile, Restoring, Knobs, rowVars
  <2>. QED BY <1>0, <1>2, <2>1, <2>2, <2>3, <2>4, <2>5 DEF TestOK, Tried, Canonical
<1>. QED BY <1>0, <1>3, <1>5, <1>6 DEF NoTraceInv

(* Every step of one operator keeps the invariant.                         *)
LEMMA NoTraceStep ==
  ASSUME OneCaller, NoTraceInv, [NextDeployment]_allVars
  PROVE  NoTraceInv'
<1>1. CASE UNCHANGED allVars
  <2>1. UNCHANGED <<file, active, snapshot, status, call, deployment, op>> /\ DeploymentInv'
    BY <1>1, DeploymentInvStep DEF NoTraceInv, allVars, vars, deploymentVars
  <2>2. RowOK' /\ RowBooted' /\ SavesOriginal' /\ Mixture'
    BY <2>1 DEF NoTraceInv, RowOK, RowBooted, SavesOriginal, Mixture, Exists, AsBooted
  <2>3. ASSUME NEW c \in Caller PROVE OperatorOK(c)' /\ TestOK(op[c], call[c])'
    <3>1. OperatorOK(c)'
      BY <2>1 DEF NoTraceInv, OperatorOK
    <3>2. TestOK(op[c], call[c])'
      BY <2>1 DEF NoTraceInv, TestOK, Tried, Settled, BackOK, InFile, AsBooted, Active
    <3>. QED BY <3>1, <3>2
  <2>. QED BY <2>1, <2>2, <2>3 DEF NoTraceInv
<1>2. ASSUME NEW c \in Caller, CommandStep(c)
      PROVE  NoTraceInv'
  BY <1>2, LookNoTrace, ClaimNoTrace, CompleteNoTrace, MarkFailedNoTrace, CallNoTrace, WorkNoTrace
     DEF CommandStep
<1>3. ASSUME NEW c \in Caller,
             CommandBegins(c) \/ WorkFails(c) \/ CommandRaises(c) \/ CommandDies(c)
      PROVE  NoTraceInv'
  BY <1>3, BeginNoTrace, WorkNoTrace, LookNoTrace, DiesNoTrace
<1>4. CASE Prepare
  BY <1>4, PrepareInv, PrepareNoTrace DEF NoTraceInv
<1>. QED BY <1>1, <1>2, <1>3, <1>4, RestartNoTrace DEF NextDeployment

(* For one operator, whatever the champion is and however often the test   *)
(* is cut off, fails and is repeated: a recovery test that passed left     *)
(* file and server as they were, and the snapshot of the activation is the *)
(* original configuration.  (run_apply_best_recovery_test applies,         *)
(* verifies and rolls back before it writes RECOVERY_TESTED, and           *)
(* rollback_configuration's shortcut cannot be taken on top of a file with *)
(* other settings, because the apply before it was verified.)              *)
THEOREM TestsLeaveNoTrace == OneCaller /\ SpecDeployment => []TestLeavesNoTrace
<1>1. OneCaller /\ InitDeployment => OneCaller /\ NoTraceInv
  BY InitNoTrace
<1>2. OneCaller /\ NoTraceInv /\ [NextDeployment]_allVars => (OneCaller /\ NoTraceInv)'
  BY NoTraceStep DEF OneCaller
<1>3. OneCaller /\ NoTraceInv => TestLeavesNoTrace
  BY DEF NoTraceInv, RowBooted, SavesOriginal, AsBooted, TestLeavesNoTrace
<1>. QED BY <1>1, <1>2, <1>3, PTL DEF SpecDeployment
=============================================================================
