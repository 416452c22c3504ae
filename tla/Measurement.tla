---------------------------- MODULE Measurement ----------------------------
(***************************************************************************)
(* The measurement of one trial: _execute_or_recover_measurement of        *)
(* worker.py and the pgbench clients of workload.py.  TrialWorker takes it *)
(* as one step; here an attempt looks for the marker of an earlier one,    *)
(* cuts off clients that outlived their worker, runs a client per stage of *)
(* the plan, counts the logs and leaves a marker.  A plan has one stage,   *)
(* or two: a prefix (F2) and, when it is promoted, its continuation (F3).  *)
(*                                                                         *)
(* The worker of an attempt may die anywhere, which its client survives,   *)
(* or oversleep: its lease expires and the next attempt begins although it *)
(* is still there.  Sessions of a client are open as soon as it is started *)
(* (a lease is longer than that takes), and a file of the log is in the    *)
(* order of its records.                                                   *)
(***************************************************************************)
EXTENDS LogWindows

CONSTANTS
  None,
  MaxAttempts,  \* attempts of a measurement of one stage
  Floor,        \* transactions a prefix needs to be promoted
  Logs,         \* what a client can leave: sequences of files
  Partial       \* what a client can have left when it is cut off

ASSUME MaxAttemptsAssumption == MaxAttempts \in Nat \ {0}
ASSUME LogsAssumption == Logs \subseteq Seq(Seq(Line)) /\ Partial \subseteq Logs
ASSUME LogsAreInOrder ==
  \A files \in Logs : \A file \in DOMAIN files : \A i, j \in DOMAIN files[file] :
    i <= j => files[file][i].at <= files[file][j].at

Plan == {<<"measurement">>, <<"f2", "f3">>}
Attempt == 1..MaxAttempts
Stage == 1..2
Marker == [transactions : Nat, failures : Nat, stages : Stage]

ASSUME NoneAssumption == None \notin Marker

VARIABLES
  plan,       \* the stages of this trial's measurement
  claimed,    \* number of attempts so far
  live,       \* the lease of the latest one is valid
  worker,     \* position of each attempt's worker
  client,     \* its pgbench process for a stage
  log,        \* the files that process has left
  marker,     \* measurement-attempt-<n>.json of each attempt
  action,     \* row of RUNNING_FULL_EVALUATION: the attempt whose token it
              \* has, and the attempt whose marker is its result
  beside,     \* pairs of clients that ran at the same time (history)
  late        \* attempts that started a client without a lease (history)

vars == <<plan, claimed, live, worker, client, log, marker, action, beside, late>>

Run == Attempt \X Stage
Running == {r \in Run : client[r] = "running"}
Holds(a) == live /\ claimed = a
Over(pc) == [pc |-> pc, stage |-> 1, found |-> None]
Working(a) == worker[a].pc \notin {"absent", "done", "gone"}

(* A trial with a promotion rule is created with one attempt.              *)
Limit == IF Len(plan) = 1 THEN MaxAttempts ELSE 1

TypeOK ==
  /\ plan \in Plan
  /\ claimed \in 0..MaxAttempts
  /\ live \in BOOLEAN
  /\ worker \in [Attempt -> [pc : {"absent", "begin", "search", "clean", "start", "wait",
                                   "combine", "record", "done", "gone"},
                             stage : Stage, found : Attempt \cup {None}]]
  /\ client \in [Run -> {"absent", "running", "cut", "over"}]
  /\ log \in [Run -> Logs \cup {<<>>}]
  /\ marker \in [Attempt -> Marker \cup {None}]
  /\ action \in [token : Attempt \cup {None}, result : Attempt \cup {None}]
  /\ beside \subseteq Run \X Run
  /\ late \subseteq Attempt

Init ==
  /\ plan \in Plan
  /\ claimed = 0
  /\ live = FALSE
  /\ worker = [a \in Attempt |-> Over("absent")]
  /\ client = [r \in Run |-> "absent"]
  /\ log = [r \in Run |-> <<>>]
  /\ marker = [a \in Attempt |-> None]
  /\ action = [token |-> None, result |-> None]
  /\ beside = {}
  /\ late = {}

-----------------------------------------------------------------------------
(* claim_next_trial: the previous attempt failed, or its lease ran out     *)
(* because its worker is dead or asleep.  What is claimed for the sake of  *)
(* later states, with the result there, is left out.                       *)
Claim(a) ==
  /\ a = claimed + 1 /\ a <= Limit
  /\ ~live /\ action.result = None
  /\ claimed' = a
  /\ live' = TRUE
  /\ worker' = [worker EXCEPT ![a].pc = "begin"]
  /\ UNCHANGED <<plan, client, log, marker, action, beside, late>>

Expire ==
  /\ live
  /\ live' = FALSE
  /\ UNCHANGED <<plan, claimed, worker, client, log, marker, action, beside, late>>

(* _record_action_start takes the row over, unless the action is complete  *)
(* already; then there is nothing left to do.  It asks for no lease.       *)
Begin(a) ==
  /\ worker[a].pc = "begin"
  /\ IF action.result = None
       THEN /\ action' = [action EXCEPT !.token = a]
            /\ worker' = [worker EXCEPT ![a].pc = "search"]
       ELSE /\ worker' = [worker EXCEPT ![a] = Over("done")]
            /\ UNCHANGED action
  /\ UNCHANGED <<plan, claimed, live, client, log, marker, beside, late>>

(* The marker of an earlier attempt is taken over, the last one if there   *)
(* are several.                                                            *)
Search(a) ==
  /\ worker[a].pc = "search" /\ Holds(a)
  /\ LET left == {b \in Attempt : marker[b] # None} IN
     worker' = [worker EXCEPT ![a] =
       IF left = {} THEN [@ EXCEPT !.pc = "clean"]
                    ELSE [@ EXCEPT !.pc = "record", !.found = Max(left)]]
  /\ UNCHANGED <<plan, claimed, live, client, log, marker, action, beside, late>>

(* _terminate_orphan_workload_sessions ends every session of this trial's  *)
(* measurement, whoever opened it, and does not return before they are     *)
(* gone.  It asks for no lease.                                            *)
CutOff(runs) ==
  \E left \in [runs -> Partial] :
    /\ client' = [r \in Run |-> IF r \in runs THEN "cut" ELSE client[r]]
    /\ log' = [r \in Run |-> IF r \in runs THEN left[r] ELSE log[r]]

(* Mutant: only the sessions of a prefix are looked for.                   *)
OrphansOfThePrefix == {r \in Running : Len(plan) = 2 /\ r[2] = 1}

Orphans == Running

Clean(a) ==
  /\ worker[a].pc = "clean"
  /\ CutOff(Orphans)
  /\ worker' = [worker EXCEPT ![a].pc = "start"]
  /\ UNCHANGED <<plan, claimed, live, marker, action, beside, late>>

StartClient(a) ==
  LET run == <<a, worker[a].stage>> IN
  /\ worker[a].pc = "start"
  /\ client' = [client EXCEPT ![run] = "running"]
  /\ beside' = beside \cup ({run} \X Running)
  /\ late' = IF Holds(a) THEN late ELSE late \cup {a}
  /\ worker' = [worker EXCEPT ![a].pc = "wait"]
  /\ UNCHANGED <<plan, claimed, live, log, marker, action>>

(* pgbench reaches the end of its time, with or without its worker.        *)
ClientEnds(run) ==
  /\ client[run] = "running"
  /\ client' = [client EXCEPT ![run] = "over"]
  /\ \E left \in Logs : log' = [log EXCEPT ![run] = left]
  /\ UNCHANGED <<plan, claimed, live, worker, marker, action, beside, late>>

(* Mutant: every log of the directory is counted.                          *)
FilesOfTheDirectory(a, s) ==
  FlattenSeq([b \in 1..claimed |-> log[<<b, s>>]])

(* The files one client has left: its prefix names the attempt and the     *)
(* moment it was started.  The two stages have a directory each.           *)
Files(a, s) == log[<<a, s>>]

Promoted(counts) == counts.failures = 0 /\ counts.transactions >= Floor

Marked(counts, stages) ==
  [transactions |-> counts.transactions, failures |-> counts.failures,
   stages |-> stages]

(* run_pgbench_measurement behind the client: the logs are counted and the *)
(* marker replaced in one piece; a prefix is promoted or not.              *)
ReadLogs(a) ==
  LET s == worker[a].stage
      lines == Lines(Files(a, s))
      counts == Count(lines)
  IN
  /\ worker[a].pc = "wait" /\ client[<<a, s>>] = "over"
  /\ Usable(lines)
  /\ \/ /\ Len(plan) = 1
        /\ marker' = [marker EXCEPT ![a] = Marked(counts, 1)]
        /\ worker' = [worker EXCEPT ![a].pc = "record", ![a].found = a]
     \/ /\ Len(plan) = 2 /\ s = 1 /\ Promoted(counts)
        /\ worker' = [worker EXCEPT ![a].pc = "start", ![a].stage = 2]
        /\ UNCHANGED marker
     \/ /\ Len(plan) = 2 /\ (s = 2 \/ ~Promoted(counts))
        /\ worker' = [worker EXCEPT ![a].pc = "combine"]
        /\ UNCHANGED marker
  /\ UNCHANGED <<plan, claimed, live, client, log, action, beside, late>>

(* The aggregate of the stages that were run.                              *)
Combine(a) ==
  LET s == worker[a].stage
      files == IF s = 1 THEN Files(a, 1) ELSE Files(a, 1) \o Files(a, 2)
  IN
  /\ worker[a].pc = "combine"
  /\ marker' = [marker EXCEPT ![a] = Marked(Count(Lines(files)), s)]
  /\ worker' = [worker EXCEPT ![a].pc = "record", ![a].found = a]
  /\ UNCHANGED <<plan, claimed, live, client, log, action, beside, late>>

(* _record_action_complete asks for the token of the row, not for the      *)
(* lease; without it the attempt fails.                                    *)
RecordResult(a) ==
  /\ worker[a].pc = "record" /\ action.token = a
  /\ action' = [action EXCEPT !.result = worker[a].found]
  /\ worker' = [worker EXCEPT ![a] = Over("done")]
  /\ live' = (live /\ claimed # a)
  /\ UNCHANGED <<plan, claimed, client, log, marker, beside, late>>

(* An error, a lease found lost by a heartbeat, a client that was cut off, *)
(* took too long or left nothing to count: the client is killed and the    *)
(* attempt given up.                                                       *)
Fail(a) ==
  /\ Working(a)
  /\ CutOff({r \in Running : r[1] = a})
  /\ worker' = [worker EXCEPT ![a] = Over("gone")]
  /\ live' = (live /\ claimed # a)
  /\ UNCHANGED <<plan, claimed, marker, action, beside, late>>

Crash(a) ==
  /\ Working(a)
  /\ worker' = [worker EXCEPT ![a] = Over("gone")]
  /\ UNCHANGED <<plan, claimed, live, client, log, marker, action, beside, late>>

Next ==
  \/ Expire
  \/ \E a \in Attempt :
       \/ Claim(a) \/ Begin(a) \/ Search(a) \/ Clean(a) \/ StartClient(a)
       \/ ReadLogs(a) \/ Combine(a) \/ RecordResult(a)
       \/ Fail(a) \/ Crash(a)
  \/ \E run \in Run : ClientEnds(run)

Spec == Init /\ [][Next]_vars

-----------------------------------------------------------------------------
(* A measurement has the target to itself, although clients survive their  *)
(* workers and leases expire under sleeping ones: of two clients that ran  *)
(* at once, one belongs to an attempt that started a client after its own  *)
(* lease was gone.                                                         *)
LoadIsItsOwn == \A pair \in beside : {pair[1][1], pair[2][1]} \cap late # {}

(* What makes it so: an attempt has at most one client, while its worker   *)
(* waits or when it is gone; and the only clients left beside an attempt   *)
(* that has cleaned up belong to later or to late attempts.                *)
OneClient ==
  \A r \in Running :
    LET w == worker[r[1]] IN w.pc \in {"wait", "gone"} /\ (w.pc = "wait" => w.stage = r[2])

AfterCleaning ==
  \A a \in Attempt : worker[a].pc \in {"start", "wait"} =>
    \A r \in Running : r[1] = a \/ r[1] > a \/ r[1] \in late

Claimed == \A a \in Attempt : worker[a].pc # "absent" => a <= claimed

(* A marker counts every transaction of its own clients once and no other  *)
(* attempt's, over the stages it says it ran: the continuation exactly     *)
(* when the prefix was fast enough without a failure.  The stored result   *)
(* is a marker's.                                                          *)
MarkerCountsItsOwn ==
  /\ \A a \in Attempt : marker[a] # None =>
       LET stages == 1..marker[a].stages
           own(s) == IF s \in stages THEN Count(Lines(log[<<a, s>>])) ELSE Count({})
       IN
       /\ marker[a].transactions = own(1).transactions + own(2).transactions
       /\ marker[a].failures = own(1).failures + own(2).failures
       /\ \A s \in stages : client[<<a, s>>] = "over"
       /\ marker[a].stages = 2 <=> Len(plan) = 2 /\ Promoted(own(1))
  /\ action.result # None => marker[action.result] # None

(* Both readers of the logs of the stored measurement agree on every       *)
(* window, though one of them stops early in each file; the halves and the *)
(* rolling windows partition the whole, so no transaction on a boundary is *)
(* lost or counted twice; and what the marker counts beyond the whole are  *)
(* the transactions logged after its end and, as failures, the lines       *)
(* without a latency, which the windows do not see.                        *)
WindowsAgree ==
  action.result # None /\ Len(plan) = 1 =>
    LET result == action.result
        lines == Lines(Files(result, 1))
        halves == Halves(lines, 1)
        rolling == RollingWindows(lines, 2)
        prefix == PrefixWindows(lines, 1..2)
        after == Count({l \in Records(lines) : l.at >= 2})
    IN
    /\ prefix[1] = halves.first /\ prefix[2] = halves.full
    /\ rolling = <<halves.first, halves.second>>
    /\ Unusable \notin {halves.first, halves.second} =>
         /\ halves.full.transactions =
              halves.first.transactions + halves.second.transactions
         /\ halves.full.failures = halves.first.failures + halves.second.failures
    /\ halves.full # Unusable =>
         /\ marker[result].transactions =
              halves.full.transactions + after.transactions
         /\ marker[result].failures =
              halves.full.failures + after.failures + With(lines, {"none"})
=============================================================================
