-------------------------- MODULE CandidateRestore --------------------------
(***************************************************************************)
(* The restore of one trial's dataset (restore/candidate.py) with its      *)
(* ledger of attempts (migration 026).  Several processes may ask for it:  *)
(* the worker that runs the trial, a worker that took the trial over, an   *)
(* operator's command.  A session advisory lock, keyed by the trial,       *)
(* serialises them as long as its connection lives, and a trigger lets an  *)
(* attempt only move forward.                                              *)
(*                                                                         *)
(* A logical restore is one pg_restore transaction.  A physical restore    *)
(* stops the target, lets a container empty the volume and unpack an       *)
(* archive into it, and starts the target again.  The container belongs    *)
(* to the Docker daemon: it goes on when its client is killed or gives up  *)
(* waiting, and it can then overlap with the container of a later attempt. *)
(***************************************************************************)
EXTENDS Naturals, Sequences, FiniteSets

CONSTANTS Caller,      \* processes that may ask for the restore
          Mechanism,   \* the mechanisms they may ask for
          MaxAttempts, \* bound: attempts in the ledger
          MaxFaults,   \* bound: errors, crashes and lost connections
          None

ASSUME BoundsAssumption == MaxAttempts \in Nat \ {0} /\ MaxFaults \in Nat

ASSUME MechanismAssumption == Mechanism \subseteq {"logical", "physical"}

ASSUME NoneAssumption == None \notin Caller

VARIABLES rows,     \* the attempts: status and mechanism of each
          link,     \* trials.candidate_dataset_restore_id, 0 when NULL
          lock,     \* the caller whose session holds the advisory lock
          up,       \* the target serves connections
          data,     \* the dataset: "frozen", "dirty" after a workload, or
                    \* "broken" when relations or files are missing
          writers,  \* attempts whose container is at work on the volume
          mixed,    \* the volume's latest restore met another one, or a
                    \* running target
          call,     \* what each caller is doing
          faults    \* faults so far

vars == <<rows, link, lock, up, data, writers, mixed, call, faults>>
target == <<up, data, writers, mixed>>
ledger == <<rows, link>>

Open  == {"RESTORING", "VERIFYING"}
Final == {"PASSED", "FAILED", "INTERRUPTED"}
Attempt == 1 .. MaxAttempts

Position ==
  {"idle", "locking", "opening", "preparing", "loading", "emptying", "filling",
   "validating", "comparing", "passing", "mismatched", "failing", "returning"}

(* The positions at which the operation of an attempt runs and may raise.  *)
Working ==
  {"preparing", "loading", "emptying", "filling", "validating", "comparing",
   "passing", "mismatched"}

NoCall == [at |-> "idle", attempt |-> 0, mechanism |-> None, ok |-> FALSE]

TypeOK ==
  /\ rows \in Seq([status : Open \cup Final, mechanism : Mechanism])
  /\ Len(rows) <= MaxAttempts
  /\ link \in 0 .. Len(rows)
  /\ lock \in Caller \cup {None}
  /\ up \in BOOLEAN
  /\ data \in {"frozen", "dirty", "broken"}
  /\ writers \subseteq 1 .. Len(rows)
  /\ mixed \in BOOLEAN
  /\ call \in [Caller -> [at : Position, attempt : 0 .. Len(rows),
                          mechanism : Mechanism \cup {None}, ok : BOOLEAN]]
  /\ faults \in 0 .. MaxFaults

Init ==
  /\ rows = <<>>
  /\ link = 0
  /\ lock = None
  /\ up = TRUE
  /\ data = "dirty"
  /\ writers = {}
  /\ mixed = FALSE
  /\ call = [c \in Caller |-> NoCall]
  /\ faults = 0

Goto(c, p) == call' = [call EXCEPT ![c].at = p]

Return(c, n, result) ==
  call' = [call EXCEPT ![c].at = "returning", ![c].attempt = n, ![c].ok = result]

(* Mutant: the trigger does not protect an attempt that was given up.      *)
AllowedAfterInterruption(from, to) ==
  \/ from \in Open \cup {"INTERRUPTED"} /\ to \in {"VERIFYING", "FAILED", "INTERRUPTED"}
  \/ from = "VERIFYING" /\ to \in Final

(* The transitions the trigger on the ledger lets through.                 *)
Allowed(from, to) ==
  \/ from = "RESTORING" /\ to \in {"VERIFYING", "FAILED", "INTERRUPTED"}
  \/ from = "VERIFYING" /\ to \in Final

-----------------------------------------------------------------------------
(* Asking for the restore and waiting for the advisory lock.               *)
Ask(c, m) ==
  /\ call[c].at = "idle"
  /\ call' = [call EXCEPT ![c] = [NoCall EXCEPT !.at = "locking", !.mechanism = m]]
  /\ UNCHANGED <<ledger, lock, target, faults>>

Lock(c) ==
  /\ call[c].at = "locking"
  /\ lock = None
  /\ lock' = c
  /\ Goto(c, "opening")
  /\ UNCHANGED <<ledger, target, faults>>

(* pg_advisory_unlock and the end of the session.  When the connection was *)
(* lost the unlock raises: the caller gets an error.                       *)
Unlock(c) ==
  /\ call[c].at = "returning"
  /\ lock' = IF lock = c THEN None ELSE lock
  /\ call' = [call EXCEPT ![c] = NoCall]
  /\ UNCHANGED <<ledger, target, faults>>

-----------------------------------------------------------------------------
(* Mutant: any attempt that is over is reused.                             *)
HasEnded == rows # <<>> /\ rows[Len(rows)].status \in Final

(* The transaction that reuses a passed restore or opens an attempt.       *)
HasPassed == rows # <<>> /\ rows[Len(rows)].status = "PASSED"

Reuse(c) ==
  /\ call[c].at = "opening"
  /\ HasPassed
  /\ Return(c, Len(rows), rows[Len(rows)].mechanism = call[c].mechanism)
  /\ UNCHANGED <<ledger, lock, target, faults>>

(* Mutants: the attempt left behind stays open, or is given a status that  *)
(* the ledger does not know.                                               *)
LeftOpen == rows

Abandoned ==
  [n \in DOMAIN rows |->
     IF n = Len(rows) /\ rows[n].status \in Open
     THEN [rows[n] EXCEPT !.status = "ABANDONED"]
     ELSE rows[n]]

(* An attempt found open was left behind by a caller that is gone.         *)
Superseded ==
  [n \in DOMAIN rows |->
     IF n = Len(rows) /\ rows[n].status \in Open
     THEN [rows[n] EXCEPT !.status = "INTERRUPTED"]
     ELSE rows[n]]

(* An error before there is an attempt to close.                           *)
Withdraw(c) ==
  /\ call[c].at = "opening"
  /\ faults < MaxFaults
  /\ faults' = faults + 1
  /\ Return(c, 0, FALSE)
  /\ UNCHANGED <<ledger, lock, target>>

Begin(c) ==
  /\ call[c].at = "opening"
  /\ ~HasPassed
  /\ Len(rows) < MaxAttempts
  /\ rows' = Append(Superseded,
                    [status |-> "RESTORING", mechanism |-> call[c].mechanism])
  /\ call' = [call EXCEPT ![c].at = "preparing", ![c].attempt = Len(rows) + 1]
  /\ UNCHANGED <<link, lock, target, faults>>

-----------------------------------------------------------------------------
(* The fingerprint before the restore and the safety check.  The logical   *)
(* restore needs a serving target with all its relations; the physical one *)
(* also accepts a stopped target, and stops a running one.                 *)
Prepare(c) ==
  /\ call[c].at = "preparing"
  /\ \/ /\ call[c].mechanism = "logical"
        /\ up /\ data # "broken"
        /\ Goto(c, "loading")
        /\ UNCHANGED up
     \/ /\ call[c].mechanism = "physical"
        /\ up => data # "broken"
        /\ up' = FALSE
        /\ Goto(c, "emptying")
  /\ UNCHANGED <<ledger, lock, data, writers, mixed, faults>>

(* pg_restore --single-transaction.  A restore whose parent died commits   *)
(* or rolls back before anyone else reads the tables it has locked: its    *)
(* effect falls before the death or never happens.                         *)
Load(c) ==
  /\ call[c].at = "loading"
  /\ up /\ data # "broken"
  /\ data' = "frozen"
  /\ Goto(c, "validating")
  /\ UNCHANGED <<ledger, lock, up, writers, mixed, faults>>

(* docker run: the container empties the volume, then unpacks the archive. *)
Empty(c) ==
  /\ call[c].at = "emptying"
  /\ writers' = writers \cup {call[c].attempt}
  /\ mixed' = (writers # {} \/ up \/ \E d \in Caller : call[d].at = "filling")
  /\ data' = "broken"
  /\ Goto(c, "filling")
  /\ UNCHANGED <<ledger, lock, up, faults>>

(* The container ends, whether or not somebody still waits for it.         *)
Filled(n) ==
  /\ n \in writers
  /\ writers' = writers \ {n}
  /\ data' \in IF mixed \/ writers # {n} THEN {"frozen", "broken"} ELSE {"frozen"}
  /\ UNCHANGED <<ledger, lock, up, mixed, call, faults>>

FillFailed(n) ==
  /\ n \in writers
  /\ faults < MaxFaults
  /\ faults' = faults + 1
  /\ writers' = writers \ {n}
  /\ data' = "broken"
  /\ call' = [c \in Caller |->
                IF call[c].at = "filling" /\ call[c].attempt = n
                THEN [call[c] EXCEPT !.at = "failing"] ELSE call[c]]
  /\ UNCHANGED <<ledger, lock, up, mixed>>

(* docker compose up --wait, only after the volume was restored.  Over a   *)
(* damaged cluster the wait fails, with the target serving or not.         *)
Start(c) ==
  /\ call[c].at = "filling"
  /\ call[c].attempt \notin writers
  /\ \/ data # "broken" /\ up' = TRUE /\ Goto(c, "validating")
     \/ data = "broken" /\ up' \in BOOLEAN /\ Goto(c, "failing")
  /\ mixed' = (mixed \/ writers # {})
  /\ UNCHANGED <<ledger, lock, data, writers, faults>>

-----------------------------------------------------------------------------
(* The schema and content of the restored database against the frozen      *)
(* evidence, then RESTORING -> VERIFYING.                                  *)
Validate(c) ==
  LET n == call[c].attempt IN
  /\ call[c].at = "validating"
  /\ up /\ data = "frozen"
  /\ Allowed(rows[n].status, "VERIFYING")
  /\ rows' = [rows EXCEPT ![n].status = "VERIFYING"]
  /\ Goto(c, "comparing")
  /\ UNCHANGED <<link, lock, target, faults>>

(* The live fingerprint against the approved baseline: sizes and planner   *)
(* statistics may differ by more than the tolerance.                       *)
Compare(c) ==
  /\ call[c].at = "comparing"
  /\ up /\ data = "frozen"
  /\ \/ Goto(c, "passing") /\ UNCHANGED faults
     \/ faults < MaxFaults /\ faults' = faults + 1 /\ Goto(c, "mismatched")
  /\ UNCHANGED <<ledger, lock, target>>

(* One transaction: the verdict and, for a pass, the link if still NULL.   *)
Pass(c) ==
  LET n == call[c].attempt IN
  /\ call[c].at = "passing"
  /\ Allowed(rows[n].status, "PASSED")
  /\ rows' = [rows EXCEPT ![n].status = "PASSED"]
  /\ link' = IF link = 0 THEN n ELSE link
  /\ Return(c, n, TRUE)
  /\ UNCHANGED <<lock, target, faults>>

(* A mismatch is recorded as FAILED and raised; the handler that catches   *)
(* it finds nothing more to do.                                            *)
Mismatch(c) ==
  LET n == call[c].attempt IN
  /\ call[c].at = "mismatched"
  /\ Allowed(rows[n].status, "FAILED")
  /\ rows' = [rows EXCEPT ![n].status = "FAILED"]
  /\ Goto(c, "failing")
  /\ UNCHANGED <<link, lock, target, faults>>

-----------------------------------------------------------------------------
(* What makes the operation at a position raise without any fault: the     *)
(* target is down or damaged, or the trigger refuses the transition.       *)
Refused(c) ==
  LET p == call[c].at
      s == rows[call[c].attempt].status
  IN
  \/ p = "preparing" /\ (up => data = "broken")
       /\ (call[c].mechanism = "physical" => up)
  \/ p = "loading" /\ (up => data = "broken")
  \/ p = "validating" /\ ((up => data # "frozen") \/ ~Allowed(s, "VERIFYING"))
  \/ p = "comparing" /\ (up => data # "frozen")
  \/ p = "passing" /\ ~Allowed(s, "PASSED")
  \/ p = "mismatched" /\ ~Allowed(s, "FAILED")

(* Mutant: the target is started whatever became of the volume.            *)
RaiseAndStart(c) ==
  /\ call[c].at \in Working
  /\ \/ Refused(c) /\ UNCHANGED faults
     \/ faults < MaxFaults /\ faults' = faults + 1
  /\ Goto(c, "failing")
  /\ up' = (up \/ call[c].at = "filling")
  /\ UNCHANGED <<ledger, lock, data, writers, mixed>>

(* An exception at a working position.  While the container runs it is a   *)
(* timeout of its client; the container goes on.                           *)
Raise(c) ==
  /\ call[c].at \in Working
  /\ \/ Refused(c) /\ UNCHANGED faults
     \/ faults < MaxFaults /\ faults' = faults + 1
  /\ Goto(c, "failing")
  /\ UNCHANGED <<ledger, lock, target>>

(* The handler closes the caller's attempt if it is still open.            *)
Fail(c) ==
  LET n == call[c].attempt IN
  /\ call[c].at = "failing"
  /\ rows' = IF rows[n].status \in Open
             THEN [rows EXCEPT ![n].status = "FAILED"] ELSE rows
  /\ Return(c, n, FALSE)
  /\ UNCHANGED <<link, lock, target, faults>>

-----------------------------------------------------------------------------
(* The process is killed: its session and its lock go, its container does  *)
(* not.  A handler that cannot reach the control database ends the same    *)
(* way.                                                                    *)
Crash(c) ==
  /\ call[c].at # "idle"
  /\ faults < MaxFaults
  /\ faults' = faults + 1
  /\ call' = [call EXCEPT ![c] = NoCall]
  /\ lock' = IF lock = c THEN None ELSE lock
  /\ UNCHANGED <<ledger, target>>

(* The connection that holds the lock is cut while the caller works on.    *)
LoseLock(c) ==
  /\ lock = c
  /\ faults < MaxFaults
  /\ faults' = faults + 1
  /\ lock' = None
  /\ UNCHANGED <<ledger, target, call>>

Step(c) ==
  \/ \E m \in Mechanism : Ask(c, m)
  \/ Lock(c) \/ Unlock(c)
  \/ Reuse(c) \/ Withdraw(c) \/ Begin(c)
  \/ Prepare(c) \/ Load(c) \/ Empty(c) \/ Start(c)
  \/ Validate(c) \/ Compare(c) \/ Pass(c) \/ Mismatch(c)
  \/ Raise(c) \/ Fail(c)
  \/ Crash(c) \/ LoseLock(c)

Next ==
  \/ \E c \in Caller : Step(c)
  \/ \E n \in Attempt : Filled(n) \/ FillFailed(n)

Spec == Init /\ [][Next]_vars

-----------------------------------------------------------------------------
(* Properties.                                                             *)

(* At most the latest attempt is open, at most one passed, and the trial   *)
(* is linked exactly when one has: an attempt that others took over never  *)
(* stays half done in the ledger, and no pass goes unrecorded.             *)
LedgerConsistent ==
  /\ \A n \in DOMAIN rows : n < Len(rows) => rows[n].status \in Final \ {"PASSED"}
  /\ link # 0 => link = Len(rows)
  /\ \A n \in DOMAIN rows : rows[n].status = "PASSED" <=> n = link

(* A caller that is told the dataset is restored has been told so of the   *)
(* passed attempt the trial is linked to.                                  *)
ReturnedIsPassed ==
  \A c \in Caller :
    call[c].ok => /\ call[c].attempt = link
                  /\ rows[link].status = "PASSED"
                  /\ rows[link].mechanism = call[c].mechanism

(* Whatever failed or crashed, the target is left in a state from which a  *)
(* physical restore can be tried again: a damaged volume belongs to a      *)
(* stopped target, unless two writers met on it.                           *)
RestoreCanRetry ==
  (writers = {} /\ ~mixed) => ~(up /\ data = "broken")

(* An attempt that was superseded, because its caller was taken for gone,  *)
(* is never concluded by that caller.                                      *)
OnlyTheLatestMoves ==
  [][\A n \in DOMAIN rows :
       rows'[n] # rows[n] => n = Len(rows) /\ rows[n].status \in Open]_vars
=============================================================================
