----------------------------- MODULE Controller -----------------------------
(***************************************************************************)
(* apply_configuration and rollback_configuration of controller.py, one    *)
(* action per statement that touches the target or the control database.   *)
(*                                                                         *)
(* ALTER SYSTEM writes postgresql.auto.conf one setting at a time and each *)
(* is durable at once; a restart (or, for settings that allow it, a        *)
(* reload) makes the file's settings the active ones; the rows of the      *)
(* control database say what is being done.  None of the three changes     *)
(* together with another.                                                  *)
(*                                                                         *)
(* The position of a call:                                                 *)
(*   apply     discover, lookup, insert, compare, affirm, reopen, write,   *)
(*             activate, verify, mark, abort                               *)
(*   rollback  find, recheck, rewrite, reactivate, reverify, record        *)
(***************************************************************************)
EXTENDS Naturals, FiniteSets, TLC

CONSTANTS
  Caller,       \* processes that call the controller
  Application,  \* application ids
  Knob,         \* ALLOWED_KNOBS
  Static,       \* the knobs with context postmaster: they need a restart
  Value,
  Boot,         \* the settings the target starts out with
  Shown,        \* the value pg_settings shows for a value in the file
  Requested,    \* per application, the settings it asks for
  None          \* no snapshot, no call

ASSUME StaticAssumption == Static \subseteq Knob
ASSUME BootAssumption == Boot \in [Knob -> Value]
ASSUME ShownAssumption ==
  /\ Shown \in [Value -> Value]
  /\ \A k \in Knob : Shown[Boot[k]] = Boot[k]
ASSUME RequestedAssumption ==
  \A a \in Application : /\ DOMAIN Requested[a] \subseteq Knob
                         /\ DOMAIN Requested[a] # {}
                         /\ Requested[a] \in [DOMAIN Requested[a] -> Value]
ASSUME NoneIsNot == None \notin Application

VARIABLES
  file,      \* postgresql.auto.conf
  active,    \* what pg_settings shows
  snapshot,  \* configuration_snapshots.settings of each application
  status,    \* configuration_applications.status, ABSENT without a row
  reverted,  \* applications with a verified row in rollbacks
  call       \* each caller's local variables

targetVars == <<file, active>>
rowVars == <<snapshot, status, reverted>>
vars == <<file, active, snapshot, status, reverted, call>>
-----------------------------------------------------------------------------
Knobs(a) == DOMAIN Requested[a]
RequiresRestart(a) == Knobs(a) \cap Static # {}

(* The active values of an application's knobs.                            *)
Active(a) == [k \in Knobs(a) |-> active[k]]

Idle == [pc |-> "idle", app |-> None, todo |-> {}, seen |-> None,
         force |-> FALSE, after |-> "return", result |-> "none"]

Goto(c, pc) == call' = [call EXCEPT ![c].pc = pc]

(* _set_system is about to write every knob of the application; what       *)
(* discover_knobs saw is not used any more.                                *)
GotoWrite(c, pc) ==
  call' = [call EXCEPT ![c].pc = pc, ![c].todo = Knobs(call[c].app),
                       ![c].seen = None]

(* The call ends: its caller sees a result or an exception.                *)
Finish(c, result) ==
  call' = [call EXCEPT ![c] = [Idle EXCEPT !.result = result]]

(* Where rollback_configuration was called from: by a caller of its own,   *)
(* by an apply that found the settings neither old nor new, or by the      *)
(* handler of a failed apply, which raises whatever the rollback did.      *)
RollbackReturns(c) ==
  CASE call[c].after = "return" -> Finish(c, "returned")
    [] call[c].after = "reopen" -> Goto(c, "reopen")
    [] call[c].after = "raise"  -> Finish(c, "raised")

Init ==
  /\ file = Boot
  /\ active = Boot
  /\ snapshot = [a \in Application |-> None]
  /\ status = [a \in Application |-> "ABSENT"]
  /\ reverted = {}
  /\ call = [c \in Caller |-> Idle]
-----------------------------------------------------------------------------
(* apply_configuration(candidate, application_id, force_restart)           *)

Apply(c, a, force) ==
  /\ call[c].pc = "idle"
  /\ call' = [call EXCEPT ![c] =
                [Idle EXCEPT !.pc = "discover", !.app = a, !.force = force]]
  /\ UNCHANGED <<targetVars, rowVars>>

(* discover_knobs: the settings a snapshot would hold.                     *)
Discover(c) ==
  /\ call[c].pc = "discover"
  /\ call' = [call EXCEPT ![c].pc = "lookup", ![c].seen = Active(call[c].app)]
  /\ UNCHANGED <<targetVars, rowVars>>

(* Mutant: the row is written when the settings have been changed.         *)
LookupUnrecorded(c) ==
  /\ call[c].pc = "lookup"
  /\ IF status[call[c].app] = "ABSENT" THEN GotoWrite(c, "write")
                                       ELSE Goto(c, "compare")
  /\ UNCHANGED <<targetVars, rowVars>>

Lookup(c) ==
  /\ call[c].pc = "lookup"
  /\ \/ status[call[c].app] = "ABSENT" /\ Goto(c, "insert")
     \/ /\ status[call[c].app] # "ABSENT"
        /\ call' = [call EXCEPT ![c].pc = "compare", ![c].seen = None]
  /\ UNCHANGED <<targetVars, rowVars>>

(* Mutant: the settings are read when the row is written, and the rows of  *)
(* a concurrent call are replaced (ON CONFLICT DO UPDATE).                 *)
InsertOverwrites(c) ==
  LET a == call[c].app IN
  /\ call[c].pc = "insert"
  /\ snapshot' = [snapshot EXCEPT ![a] = Active(a)]
  /\ status' = [status EXCEPT ![a] = "APPLYING"]
  /\ GotoWrite(c, "write")
  /\ UNCHANGED <<targetVars, reverted>>

(* Snapshot and application are inserted in one transaction before the     *)
(* target is touched; the row of a concurrent call violates the key.       *)
Insert(c) ==
  LET a == call[c].app IN
  /\ call[c].pc = "insert"
  /\ \/ /\ status[a] = "ABSENT"
        /\ snapshot' = [snapshot EXCEPT ![a] = call[c].seen]
        /\ status' = [status EXCEPT ![a] = "APPLYING"]
        /\ GotoWrite(c, "write")
     \/ /\ status[a] # "ABSENT"
        /\ Finish(c, "raised")
        /\ UNCHANGED <<snapshot, status>>
  /\ UNCHANGED <<targetVars, reverted>>

(* A repeated call reconciles with what it finds active: the requested     *)
(* settings, the previous ones, or anything else, which it rolls back.     *)
Compare(c) ==
  LET a == call[c].app IN
  /\ call[c].pc = "compare"
  /\ \/ /\ Active(a) = Requested[a]
        /\ Goto(c, "affirm")
     \/ /\ Active(a) # Requested[a] /\ Active(a) = snapshot[a]
        /\ Goto(c, "reopen")
     \/ /\ Active(a) \notin {Requested[a], snapshot[a]}
        /\ call' = [call EXCEPT ![c].pc = "find", ![c].after = "reopen"]
  /\ UNCHANGED <<targetVars, rowVars>>

Affirm(c) ==
  /\ call[c].pc = "affirm"
  /\ status' = [status EXCEPT ![call[c].app] = "VERIFIED"]
  /\ Finish(c, "returned")
  /\ UNCHANGED <<targetVars, snapshot, reverted>>

(* Mutant: the row keeps the status the last call left.                    *)
ReopenSilently(c) ==
  /\ call[c].pc = "reopen"
  /\ GotoWrite(c, "write")
  /\ UNCHANGED <<targetVars, rowVars>>

(* Mutant: what an interrupted call wrote is activated as it is.           *)
ReopenResumes(c) ==
  /\ call[c].pc = "reopen"
  /\ Goto(c, IF status[call[c].app] = "APPLYING" THEN "activate" ELSE "write")
  /\ status' = [status EXCEPT ![call[c].app] = "APPLYING"]
  /\ UNCHANGED <<targetVars, snapshot, reverted>>

Reopen(c) ==
  /\ call[c].pc = "reopen"
  /\ status' = [status EXCEPT ![call[c].app] = "APPLYING"]
  /\ GotoWrite(c, "write")
  /\ UNCHANGED <<targetVars, snapshot, reverted>>
-----------------------------------------------------------------------------
(* What apply and rollback do to the target.                               *)

(* One ALTER SYSTEM SET.                                                   *)
SetSystem(c, pc, settings, next) ==
  /\ call[c].pc = pc
  /\ \E k \in call[c].todo :
       /\ file' = [file EXCEPT ![k] = settings[k]]
       /\ call' = [call EXCEPT ![c].todo = @ \ {k},
                     ![c].pc = IF call[c].todo = {k} THEN next ELSE pc]
  /\ UNCHANGED <<active, rowVars>>

Started == [k \in Knob |-> Shown[file[k]]]
Reloaded == [k \in Knob |-> IF k \in Static THEN active[k] ELSE Shown[file[k]]]

(* _activate: restart the target and wait for it, or reload.               *)
Activate(c, pc, restart, next) ==
  /\ call[c].pc = pc
  /\ active' = IF restart THEN Started ELSE Reloaded
  /\ Goto(c, next)
  /\ UNCHANGED <<file, rowVars>>

Write(c) == SetSystem(c, "write", Requested[call[c].app], "activate")

(* Mutant: an apply only reloads unless a restart is forced.               *)
ActivateByReload(c) == Activate(c, "activate", FALSE, "verify")

ActivateRequested(c) ==
  Activate(c, "activate",
           RequiresRestart(call[c].app) \/ call[c].force, "verify")

(* settings_equivalent(requested, verified)                                *)
Verify(c) ==
  /\ call[c].pc = "verify"
  /\ Goto(c, IF Active(call[c].app) = Requested[call[c].app] THEN "mark"
                                                             ELSE "abort")
  /\ UNCHANGED <<targetVars, rowVars>>

Mark(c) ==
  /\ call[c].pc = "mark"
  /\ status' = [status EXCEPT ![call[c].app] = "VERIFIED"]
  /\ Finish(c, "returned")
  /\ UNCHANGED <<targetVars, snapshot, reverted>>

(* The handler: FAILED first, then the automatic rollback.                 *)
Abort(c) ==
  /\ call[c].pc = "abort"
  /\ status' = [status EXCEPT ![call[c].app] = "FAILED"]
  /\ call' = [call EXCEPT ![c].pc = "find", ![c].after = "raise"]
  /\ UNCHANGED <<targetVars, snapshot, reverted>>
-----------------------------------------------------------------------------
(* rollback_configuration(application_id)                                  *)

Rollback(c, a) ==
  /\ call[c].pc = "idle"
  /\ call' = [call EXCEPT ![c] = [Idle EXCEPT !.pc = "find", !.app = a]]
  /\ UNCHANGED <<targetVars, rowVars>>

Find(c) ==
  LET a == call[c].app IN
  /\ call[c].pc = "find"
  /\ \/ status[a] = "ABSENT" /\ Finish(c, "raised")
     \/ status[a] # "ABSENT" /\ a \in reverted /\ Goto(c, "recheck")
     \/ status[a] # "ABSENT" /\ a \notin reverted /\ GotoWrite(c, "rewrite")
  /\ UNCHANGED <<targetVars, rowVars>>

(* A rollback that was verified before and whose settings are still active *)
(* returns without writing anything.                                       *)
Recheck(c) ==
  LET a == call[c].app IN
  /\ call[c].pc = "recheck"
  /\ \/ Active(a) = snapshot[a] /\ RollbackReturns(c)
     \/ Active(a) # snapshot[a] /\ GotoWrite(c, "rewrite")
  /\ UNCHANGED <<targetVars, rowVars>>

Rewrite(c) == SetSystem(c, "rewrite", snapshot[call[c].app], "reactivate")

(* Mutant: a rollback never restarts the target.                           *)
ReactivateByReload(c) == Activate(c, "reactivate", FALSE, "reverify")

Reactivate(c) ==
  Activate(c, "reactivate", RequiresRestart(call[c].app), "reverify")

Reverify(c) ==
  LET a == call[c].app IN
  /\ call[c].pc = "reverify"
  /\ \/ Active(a) = snapshot[a] /\ Goto(c, "record")
     \/ Active(a) # snapshot[a] /\ Finish(c, "raised")
  /\ UNCHANGED <<targetVars, rowVars>>

(* The rollbacks row and the status, in one transaction.                   *)
Record(c) ==
  LET a == call[c].app IN
  /\ call[c].pc = "record"
  /\ reverted' = reverted \cup {a}
  /\ status' = [status EXCEPT ![a] = "ROLLED_BACK"]
  /\ RollbackReturns(c)
  /\ UNCHANGED <<targetVars, snapshot>>
-----------------------------------------------------------------------------
(* Failures.                                                               *)

(* A statement of the try block fails: apply goes to its handler.  A       *)
(* restart or an ALTER SYSTEM whose answer is lost may have been done.     *)
TryRaises(c) ==
  /\ call[c].pc \in {"write", "activate", "verify", "mark"}
  /\ Goto(c, "abort")
  /\ UNCHANGED <<targetVars, rowVars>>

(* Elsewhere an error ends the call.                                       *)
CallRaises(c) ==
  /\ call[c].pc \notin {"idle", "write", "activate", "verify", "mark"}
  /\ Finish(c, "raised")
  /\ UNCHANGED <<targetVars, rowVars>>

(* The calling process dies.                                               *)
Crash(c) ==
  /\ call[c].pc # "idle"
  /\ call' = [call EXCEPT ![c] = Idle]
  /\ UNCHANGED <<targetVars, rowVars>>

(* The target's container is restarted from outside (its restart policy is *)
(* unless-stopped).                                                        *)
TargetRestarts ==
  /\ active # Started
  /\ active' = Started
  /\ UNCHANGED <<file, rowVars, call>>

Step(c) ==
  \/ Discover(c) \/ Lookup(c) \/ Insert(c) \/ Compare(c) \/ Affirm(c)
  \/ Reopen(c) \/ Write(c) \/ ActivateRequested(c) \/ Verify(c) \/ Mark(c)
  \/ Abort(c) \/ Find(c) \/ Recheck(c) \/ Rewrite(c) \/ Reactivate(c)
  \/ Reverify(c) \/ Record(c)

Fault(c) == TryRaises(c) \/ CallRaises(c) \/ Crash(c)

Request(c) ==
  \E a \in Application : \/ Rollback(c, a)
                         \/ \E force \in BOOLEAN : Apply(c, a, force)

Next == \/ \E c \in Caller : Request(c) \/ Step(c) \/ Fault(c)
        \/ TargetRestarts

Spec == Init /\ [][Next]_vars

(* Faults stop at some time, calls in progress run to their end, and the   *)
(* callers keep asking for both operations.                                *)
Fairness ==
  /\ <>[][\A c \in Caller : Request(c) \/ Step(c) \/ UNCHANGED call[c]]_vars
  /\ \A c \in Caller : WF_vars(Step(c))
  /\ \A c \in Caller, a \in Application :
       /\ SF_vars(Rollback(c, a))
       /\ SF_vars(\E force \in BOOLEAN : Apply(c, a, force))

FairSpec == Spec /\ Fairness
-----------------------------------------------------------------------------
Settings(a) == [Knobs(a) -> Value]

Position ==
  {"idle", "discover", "lookup", "insert", "compare", "affirm", "reopen",
   "write", "activate", "verify", "mark", "abort", "find", "recheck",
   "rewrite", "reactivate", "reverify", "record"}

CallState ==
  [pc : Position,
   app : Application \cup {None}, todo : SUBSET Knob,
   seen : {None} \cup UNION {Settings(a) : a \in Application},
   force : BOOLEAN, after : {"return", "reopen", "raise"},
   result : {"none", "returned", "raised"}]

(* Every variable has its type; an application has a row exactly when its  *)
(* snapshot exists.                                                        *)
TypeOK ==
  /\ file \in [Knob -> Value]
  /\ active \in [Knob -> Value]
  /\ snapshot = [a \in Application |-> snapshot[a]]
  /\ \A a \in Application :
       IF status[a] = "ABSENT" THEN snapshot[a] = None
                               ELSE snapshot[a] \in Settings(a)
  /\ status \in [Application -> {"ABSENT", "APPLYING", "VERIFIED", "FAILED",
                                 "ROLLED_BACK"}]
  /\ reverted \subseteq Application
  /\ call \in [Caller -> CallState]

(* Whatever callers interleave, crash or retry, and whatever applications  *)
(* overlap, a knob that has left its original value has that value in some *)
(* application's snapshot: the way back is never overwritten and is        *)
(* written before the target is touched.                                   *)
LastKnownGoodSurvives ==
  \A k \in Knob : file[k] # Boot[k] \/ active[k] # Boot[k] =>
    \E a \in Application : /\ status[a] # "ABSENT"
                           /\ k \in Knobs(a)
                           /\ snapshot[a][k] = Boot[k]

(* The inductive invariant behind it: what the position of a call says     *)
(* about its application's row ...                                         *)
CallOK(c) ==
  LET a == call[c].app IN
  /\ call[c].pc # "idle" => a \in Application
  /\ call[c].pc = "lookup" => call[c].seen \in Settings(a)
  /\ call[c].pc = "insert" => call[c].seen \in Settings(a)
  /\ call[c].pc \notin {"lookup", "insert"} => call[c].seen = None
  /\ call[c].pc \in {"write", "rewrite"} => call[c].todo \subseteq Knobs(a)
  /\ call[c].pc \notin {"idle", "discover", "lookup", "insert", "find"} =>
       status[a] # "ABSENT"

(* ... and that a knob is either as it was, for everyone who looked, or    *)
(* saved.                                                                  *)
Pristine(k) ==
  /\ file[k] = Boot[k] /\ active[k] = Boot[k]
  /\ \A c \in Caller :
       call[c].pc \in {"lookup", "insert"} /\ k \in Knobs(call[c].app) =>
         call[c].seen[k] = Boot[k]
  /\ \A a \in Application :
       status[a] # "ABSENT" /\ k \in Knobs(a) => snapshot[a][k] = Boot[k]

Saved(k) ==
  \E a \in Application :
    status[a] # "ABSENT" /\ k \in Knobs(a) /\ snapshot[a][k] = Boot[k]

RecoveryInv ==
  /\ TypeOK
  /\ \A c \in Caller : CallOK(c)
  /\ \A k \in Knob : Pristine(k) \/ Saved(k)

(* Retries of one application, after a crash or error anywhere and by any  *)
(* number of callers, all roll back to what it found when it was new: its  *)
(* own half-applied settings never become the last-known-good.             *)
SnapshotIsOriginal ==
  \A a \in Application : status[a] # "ABSENT" =>
    snapshot[a] = [k \in Knobs(a) |-> Boot[k]]

(* With one caller and one application a call never makes the target run   *)
(* with a mixture: what failed calls left half-written only becomes active *)
(* together with the rest.                                                 *)
ActivatesWhole ==
  [][active' # active /\ call' # call =>
       \A a \in Application :
         Active(a)' \in {snapshot[a],
                        [k \in Knobs(a) |-> Shown[Requested[a][k]]]}]_vars

(* A status of ROLLED_BACK can be relied on after a restart: file and      *)
(* active settings are the snapshot's, and stay so until the application   *)
(* is reopened.                                                            *)
RolledBackIsDurable ==
  \A a \in Application : status[a] = "ROLLED_BACK" =>
    /\ Active(a) = snapshot[a]
    /\ \A k \in Knobs(a) : file[k] = snapshot[a][k]

(* Once faults stop, repeated calls get through whatever the faults left:  *)
(* a rollback restores the snapshot, ...                                   *)
RollbackConverges ==
  \A a \in Application :
    []<>(status[a] # "ABSENT" => Active(a) = snapshot[a])

(* ... and an apply ends VERIFIED with the requested settings active.      *)
ApplyConverges ==
  \A a \in Application :
    []<>(status[a] = "VERIFIED" /\ Active(a) = Requested[a])
=============================================================================
