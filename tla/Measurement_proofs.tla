------------------------- MODULE Measurement_proofs -------------------------
(***************************************************************************)
(* A measurement has the target to itself, for any number of attempts and  *)
(* any logs.  The argument: cleaning up leaves no client of this trial;    *)
(* whoever starts one afterwards either has lost the lease, and is late,   *)
(* or has it, and then it is the latest attempt and the one that cleaned   *)
(* up has lost its own.                                                    *)
(*                                                                         *)
(* What is stored of it is the count of its own logs.  Lines are counted as*)
(* finite sets, so that a count over two parts is the sum of the counts; a *)
(* client that is over leaves its log alone, and CountInv says of each     *)
(* position of a worker which of its clients are over and what they came   *)
(* to.  That the readers agree is then a fact about one log.               *)
(***************************************************************************)
EXTENDS Measurement, FiniteSetTheorems, WellFoundedInduction, TLAPS

Pc == {"absent", "begin", "search", "clean", "start", "wait", "combine",
       "record", "done", "gone"}

(* What the argument needs of the types; which attempt's marker a worker   *)
(* has found is not part of it.                                            *)
Shaped(w) == /\ w = [pc |-> w.pc, stage |-> w.stage, found |-> w.found]
             /\ w.pc \in Pc /\ w.stage \in Stage

Typed ==
  /\ claimed \in Nat
  /\ live \in BOOLEAN
  /\ worker = [a \in Attempt |-> worker[a]]
  /\ \A a \in Attempt : Shaped(worker[a])
  /\ client = [r \in Run |-> client[r]]

Inv == Typed /\ Claimed /\ OneClient /\ AfterCleaning /\ LoadIsItsOwn

(* The initial state.                                                      *)
LEMMA InitInv == Init => Inv
<1> SUFFICES ASSUME Init PROVE Inv
  OBVIOUS
<1>1. \A a \in Attempt : worker[a] = [pc |-> "absent", stage |-> 1, found |-> None]
  BY DEF Init, Over
<1>2. Typed
  <2>1. \A a \in Attempt : Shaped(worker[a])
    BY <1>1 DEF Shaped, Pc, Stage
  <2>2. worker = [a \in Attempt |-> worker[a]] /\ client = [r \in Run |-> client[r]]
    BY DEF Init
  <2> QED
    BY <2>1, <2>2 DEF Init, Typed
<1>3. Running = {}
  BY DEF Init, Running
<1> QED
  BY <1>1, <1>2, <1>3
  DEF Inv, Init, Claimed, OneClient, AfterCleaning, LoadIsItsOwn

(* A step of the worker of one attempt that changes where it is.           *)
Moves(a, pc, stage) ==
  /\ worker' = [b \in Attempt |-> worker'[b]]
  /\ \A b \in Attempt \ {a} : worker'[b] = worker[b]
  /\ Shaped(worker'[a]) /\ worker'[a].pc = pc /\ worker'[a].stage = stage

(* Clients that are cut off run no more, and no other client changes.      *)
LEMMA CutOffRunning ==
  ASSUME NEW runs \in SUBSET Run, CutOff(runs)
  PROVE  Running' = Running \ runs /\ client' = [r \in Run |-> client'[r]]
BY DEF CutOff, Running

(* A worker that starts no client, and is not put behind its cleaning up,  *)
(* keeps the invariant, whatever clients end.                              *)
LEMMA QuietStep ==
  ASSUME Inv, NEW a \in Attempt, NEW pc \in Pc, NEW stage \in Stage,
         Moves(a, pc, stage),
         claimed' \in Nat, claimed' >= claimed, a <= claimed', live' \in BOOLEAN,
         client' = [r \in Run |-> client'[r]], Running' \subseteq Running,
         UNCHANGED <<beside, late>>,
         pc \in {"wait", "gone"} \/ \A r \in Running' : r[1] # a,
         pc \notin {"start", "wait"} \/ worker[a].pc \in {"start", "wait"}
           \/ \A r \in Running' : r[1] = a,
         pc = "wait" => worker[a].pc = "wait" /\ stage = worker[a].stage
  PROVE  Inv'
<1>1. Typed'
  BY DEF Typed, Inv, Moves
<1>2. Claimed'
  BY DEF Typed, Inv, Moves, Claimed, Attempt
<1>3. OneClient'
  <2> SUFFICES ASSUME NEW r \in Running'
               PROVE  /\ worker'[r[1]].pc \in {"wait", "gone"}
                      /\ worker'[r[1]].pc = "wait" => worker'[r[1]].stage = r[2]
    BY DEF OneClient
  <2>1. r \in Running /\ r[1] \in Attempt
    BY DEF Running, Run
  <2> QED
    BY <2>1 DEF Inv, OneClient, Moves
<1>4. AfterCleaning'
  BY DEF Inv, AfterCleaning, Moves, Attempt
<1>5. LoadIsItsOwn'
  BY DEF Inv, LoadIsItsOwn
<1> QED
  BY <1>1, <1>2, <1>3, <1>4, <1>5 DEF Inv

(* Where the worker of an attempt is after a step of its own.              *)
LEMMA WorkerGoesTo ==
  ASSUME Typed, NEW a \in Attempt, NEW pc \in Pc,
         worker' = [worker EXCEPT ![a].pc = pc]
  PROVE  Moves(a, pc, worker[a].stage)
BY DEF Typed, Moves, Shaped

(* A worker whose measurement is over.                                     *)
LEMMA WorkerIsOver ==
  ASSUME Typed, NEW a \in Attempt, NEW pc \in {"done", "gone"},
         worker' = [worker EXCEPT ![a] = Over(pc)]
  PROVE  Moves(a, pc, 1)
BY DEF Typed, Moves, Shaped, Over, Pc, Stage

(* An attempt's local state changes on its own.                            *)
LEMMA WorkerBecomes ==
  ASSUME Typed, NEW a \in Attempt, NEW w, Shaped(w),
         worker' = [worker EXCEPT ![a] = w]
  PROVE  Moves(a, w.pc, w.stage)
<1>1. worker'[a] = w /\ \A b \in Attempt \ {a} : worker'[b] = worker[b]
  BY DEF Typed
<1>2. worker' = [b \in Attempt |-> worker'[b]]
  BY DEF Typed
<1> QED
  BY <1>1, <1>2 DEF Moves

(* A worker record keeps its type when fields get values of theirs.        *)
LEMMA Reshaped ==
  ASSUME NEW w, Shaped(w)
  PROVE  /\ \A pc \in Pc : LET v == [w EXCEPT !.pc = pc] IN
              Shaped(v) /\ v.pc = pc /\ v.stage = w.stage
         /\ \A stage \in Stage : LET v == [w EXCEPT !.stage = stage] IN
              Shaped(v) /\ v.pc = w.pc /\ v.stage = stage
         /\ \A found : LET v == [w EXCEPT !.found = found] IN
              Shaped(v) /\ v.pc = w.pc /\ v.stage = w.stage
BY DEF Shaped

(* What a search for the marker can return.                                *)
LEMMA FoundMarker ==
  ASSUME NEW w, Shaped(w), NEW found
  PROVE  LET v == [w EXCEPT !.pc = "record", !.found = found]
         IN  Shaped(v) /\ v.pc = "record" /\ v.stage = w.stage
<1>1. [w EXCEPT !.pc = "record", !.found = found]
        = [[w EXCEPT !.pc = "record"] EXCEPT !.found = found]
  OBVIOUS
<1> DEFINE u == [w EXCEPT !.pc = "record"]
<1>2. Shaped(u) /\ u.pc = "record" /\ u.stage = w.stage
  BY Reshaped DEF Pc
<1> HIDE DEF u
<1>3. LET v == [u EXCEPT !.found = found] IN
      Shaped(v) /\ v.pc = u.pc /\ v.stage = u.stage
  BY <1>2, Reshaped
<1> QED
  BY <1>1, <1>2, <1>3 DEF u

(* The stage after a stage.                                                *)
LEMMA NextStage ==
  ASSUME NEW w, Shaped(w)
  PROVE  LET v == [w EXCEPT !.pc = "start", !.stage = 2]
         IN  Shaped(v) /\ v.pc = "start" /\ v.stage = 2
<1>1. [w EXCEPT !.pc = "start", !.stage = 2]
        = [[w EXCEPT !.pc = "start"] EXCEPT !.stage = 2]
  OBVIOUS
<1> DEFINE u == [w EXCEPT !.pc = "start"]
<1>2. Shaped(u) /\ u.pc = "start" /\ u.stage = w.stage
  BY Reshaped DEF Pc
<1> HIDE DEF u
<1> 2 \in Stage
  BY DEF Stage
<1>3. LET v == [u EXCEPT !.stage = 2] IN
      Shaped(v) /\ v.pc = u.pc /\ v.stage = 2
  BY <1>2, Reshaped
<1> QED
  BY <1>1, <1>2, <1>3 DEF u

(* A worker that files what it found.                                      *)
LEMMA WorkerFound ==
  ASSUME Typed, NEW a \in Attempt, NEW found,
         worker' = [worker EXCEPT ![a] = [worker[a] EXCEPT !.pc = "record", !.found = found]]
  PROVE  Moves(a, "record", worker[a].stage)
<1> DEFINE v == [worker[a] EXCEPT !.pc = "record", !.found = found]
<1>1. Shaped(v) /\ v.pc = "record" /\ v.stage = worker[a].stage
  BY FoundMarker DEF Typed
<1>2. worker' = [worker EXCEPT ![a] = v]
  OBVIOUS
<1> HIDE DEF v
<1>3. Moves(a, v.pc, v.stage)
  BY <1>1, <1>2, WorkerBecomes
<1> QED
  BY <1>1, <1>3

(* A worker that goes on to another stage.                                 *)
LEMMA WorkerGoesOn ==
  ASSUME Typed, NEW a \in Attempt,
         worker' = [worker EXCEPT ![a] = [worker[a] EXCEPT !.pc = "start", !.stage = 2]]
  PROVE  Moves(a, "start", 2)
<1> DEFINE v == [worker[a] EXCEPT !.pc = "start", !.stage = 2]
<1>1. Shaped(v) /\ v.pc = "start" /\ v.stage = 2
  BY NextStage DEF Typed
<1>2. worker' = [worker EXCEPT ![a] = v]
  OBVIOUS
<1> HIDE DEF v
<1>3. Moves(a, v.pc, v.stage)
  BY <1>1, <1>2, WorkerBecomes
<1> QED
  BY <1>1, <1>3

(* The stage of a worker is one of the stages.                             *)
LEMMA StageOf == ASSUME Typed, NEW a \in Attempt PROVE worker[a].stage \in Stage
BY DEF Typed, Shaped

(* An attempt whose worker is still there and does not wait has no client. *)
LEMMA NoClient ==
  ASSUME Inv, NEW a \in Attempt, worker[a].pc \notin {"wait", "gone"}
  PROVE  \A r \in Running : r[1] # a
BY DEF Inv, OneClient

(* The attempt of a worker that is there has been claimed.                 *)
LEMMA ClaimedBefore ==
  ASSUME Inv, NEW a \in Attempt, worker[a].pc # "absent"
  PROVE  a <= claimed /\ claimed \in Nat
BY DEF Inv, Claimed, Typed

(* The client starts.                                                      *)
LEMMA StartInv == ASSUME Inv, NEW a \in Attempt, StartClient(a) PROVE Inv'
<1> DEFINE run == <<a, worker[a].stage>>
<1>1. /\ worker[a].pc = "start"
      /\ client' = [client EXCEPT ![run] = "running"]
      /\ beside' = beside \cup ({run} \X Running)
      /\ late' = IF Holds(a) THEN late ELSE late \cup {a}
      /\ UNCHANGED <<claimed, live>>
  BY DEF StartClient
<1>2. Moves(a, "wait", worker[a].stage)
  BY WorkerGoesTo DEF StartClient, Inv, Pc
<1>3. Running' = Running \cup {run} /\ run \in Run /\ client' = [r \in Run |-> client'[r]]
  BY <1>1, StageOf DEF Running, Inv, Typed, Run
<1>4. \A r \in Running : r[1] > a \/ r[1] \in late
  BY <1>1, NoClient DEF Inv, AfterCleaning
<1>5. late \subseteq late' /\ (a \notin late' => claimed = a)
  BY <1>1 DEF Holds
<1>6. \A r \in Running : r[1] \in Attempt /\ r[1] <= claimed
  BY DEF Inv, OneClient, Claimed, Running, Run
<1>7. Typed'
  BY <1>1, <1>2, <1>3 DEF Inv, Typed, Moves
<1>8. Claimed'
  BY <1>1, <1>2 DEF Inv, Claimed, Moves
<1>9. OneClient'
  BY <1>2, <1>3, NoClient, <1>1, <1>6 DEF Inv, OneClient, Moves
<1>10. AfterCleaning'
  <2> SUFFICES ASSUME NEW b \in Attempt, worker'[b].pc \in {"start", "wait"},
                      NEW r \in Running', r[1] # b
               PROVE  r[1] > b \/ r[1] \in late'
    BY DEF AfterCleaning
  <2>1. CASE r \in Running
    BY <2>1, <1>1, <1>2, <1>5 DEF Inv, AfterCleaning, Moves
  <2>2. CASE r = run
    <3>1. b # a /\ worker[b].pc \in {"start", "wait"} /\ r[1] = a
      BY <2>2, <1>2 DEF Moves
    <3>2. b <= claimed
      BY <3>1, ClaimedBefore
    <3> QED
      BY <3>1, <3>2, <1>5 DEF Attempt
  <2> QED
    BY <2>1, <2>2, <1>3
<1>11. LoadIsItsOwn'
  <2> SUFFICES ASSUME NEW pair \in beside'
               PROVE  {pair[1][1], pair[2][1]} \cap late' # {}
    BY DEF LoadIsItsOwn
  <2>1. CASE pair \in beside
    BY <2>1, <1>5 DEF Inv, LoadIsItsOwn
  <2>2. CASE pair \in {run} \X Running
    <3>1. pair[1][1] = a /\ pair[2] \in Running
      BY <2>2
    <3>2. a \in late' \/ pair[2][1] \in late
      <4>1. pair[2][1] <= claimed /\ (pair[2][1] > a \/ pair[2][1] \in late)
        BY <3>1, <1>4, <1>6
      <4>2. pair[2][1] \in Attempt
        BY <3>1, <1>6
      <4> QED
        BY <4>1, <4>2, <1>5 DEF Attempt
    <3> QED
      BY <3>1, <3>2, <1>5
  <2> QED
    BY <2>1, <2>2, <1>1
<1> QED
  BY <1>7, <1>8, <1>9, <1>10, <1>11 DEF Inv

(* The logs are read.                                                      *)
LEMMA ReadLogsInv == ASSUME Inv, NEW a \in Attempt, ReadLogs(a) PROVE Inv'
<1>1. /\ worker[a].pc = "wait" /\ client[<<a, worker[a].stage>>] = "over"
      /\ UNCHANGED <<claimed, live, client, beside, late>>
  BY DEF ReadLogs
<1>2. \A r \in Running : r[1] # a
  <2> SUFFICES ASSUME NEW r \in Running, r[1] = a PROVE FALSE
    OBVIOUS
  <2>1. r = <<a, r[2]>> /\ client[r] = "running"
    BY DEF Running, Run
  <2>2. r[2] = worker[a].stage
    BY <1>1 DEF Inv, OneClient
  <2> QED
    BY <1>1, <2>1, <2>2
<1>3. Running' = Running
  BY <1>1 DEF Running
<1>4. \E pc \in {"record", "start", "combine"}, stage \in Stage : Moves(a, pc, stage)
  <2>1. CASE worker' = [worker EXCEPT ![a].pc = "record", ![a].found = a]
    <3>1. worker' = [worker EXCEPT ![a] = [worker[a] EXCEPT !.pc = "record", !.found = a]]
      BY <2>1 DEF Inv, Typed
    <3>2. Moves(a, "record", worker[a].stage)
      BY <3>1, WorkerFound DEF Inv
    <3> QED
      BY <3>2, StageOf DEF Inv
  <2>2. CASE worker' = [worker EXCEPT ![a].pc = "start", ![a].stage = 2]
    <3>1. worker' = [worker EXCEPT ![a] = [worker[a] EXCEPT !.pc = "start", !.stage = 2]]
      BY <2>2 DEF Inv, Typed
    <3>2. Moves(a, "start", 2)
      BY <3>1, WorkerGoesOn DEF Inv
    <3> QED
      BY <3>2 DEF Stage
  <2>3. CASE worker' = [worker EXCEPT ![a].pc = "combine"]
    <3>1. Moves(a, "combine", worker[a].stage)
      BY <2>3, WorkerGoesTo DEF Inv, Pc
    <3> QED
      BY <3>1, StageOf DEF Inv
  <2> QED
    BY <2>1, <2>2, <2>3 DEF ReadLogs
<1>5. client = [r \in Run |-> client[r]] /\ live \in BOOLEAN
  BY DEF Inv, Typed
<1>6. a <= claimed /\ claimed \in Nat
  BY <1>1, ClaimedBefore
<1> QED
  BY <1>1, <1>2, <1>3, <1>4, <1>5, <1>6, QuietStep DEF Pc

(* The logs are combined.                                                  *)
LEMMA CombineInv == ASSUME Inv, NEW a \in Attempt, Combine(a) PROVE Inv'
<1>1. /\ worker[a].pc = "combine"
      /\ worker' = [worker EXCEPT ![a].pc = "record", ![a].found = a]
      /\ UNCHANGED <<claimed, live, client, beside, late>>
  BY DEF Combine
<1>2. Moves(a, "record", worker[a].stage)
  <2>1. worker' = [worker EXCEPT ![a] = [worker[a] EXCEPT !.pc = "record", !.found = a]]
    BY <1>1 DEF Inv, Typed
  <2> QED
    BY <2>1, WorkerFound DEF Inv
<1>3. Running' = Running
  BY <1>1 DEF Running
<1>4. \A r \in Running : r[1] # a
  BY <1>1, NoClient
<1>5. client = [r \in Run |-> client[r]] /\ live \in BOOLEAN
  BY DEF Inv, Typed
<1>6. a <= claimed /\ claimed \in Nat
  BY <1>1, ClaimedBefore
<1> QED
  BY <1>1, <1>2, <1>3, <1>4, <1>5, <1>6, StageOf, QuietStep DEF Pc, Inv

(* The marker is searched for.                                             *)
LEMMA SearchInv == ASSUME Inv, NEW a \in Attempt, Search(a) PROVE Inv'
<1>1. /\ worker[a].pc = "search"
      /\ UNCHANGED <<claimed, live, client, beside, late>>
  BY DEF Search
<1>2. PICK pc \in {"clean", "record"} : Moves(a, pc, worker[a].stage)
  <2> DEFINE left == {b \in Attempt : marker[b] # None}
  <2>1. CASE left = {}
    <3>1. worker' = [worker EXCEPT ![a] = [@ EXCEPT !.pc = "clean"]]
      BY <2>1 DEF Search
    <3> QED
      BY <3>1, WorkerGoesTo DEF Inv, Pc
  <2>2. CASE left # {}
    <3> DEFINE found == Max(left)
    <3>1. worker' = [worker EXCEPT ![a] = [@ EXCEPT !.pc = "record", !.found = found]]
      BY <2>2 DEF Search
    <3> HIDE DEF found
    <3>2. Moves(a, "record", worker[a].stage)
      BY <3>1, WorkerFound DEF Inv
    <3> QED
      BY <3>2
  <2> QED
    BY <2>1, <2>2
<1>3. Running' = Running
  BY <1>1 DEF Running
<1>4. \A r \in Running : r[1] # a
  BY <1>1, NoClient
<1>5. client = [r \in Run |-> client[r]] /\ live \in BOOLEAN
  BY DEF Inv, Typed
<1>6. a <= claimed /\ claimed \in Nat
  BY <1>1, ClaimedBefore
<1> QED
  BY <1>1, <1>2, <1>3, <1>4, <1>5, <1>6, StageOf, QuietStep DEF Pc, Inv

(* The files are removed.                                                  *)
LEMMA CleanInv == ASSUME Inv, NEW a \in Attempt, Clean(a) PROVE Inv'
<1>1. /\ worker[a].pc = "clean" /\ CutOff(Running)
      /\ worker' = [worker EXCEPT ![a].pc = "start"]
      /\ UNCHANGED <<claimed, live, beside, late>>
  BY DEF Clean, Orphans
<1>2. Running' = {} /\ client' = [r \in Run |-> client'[r]]
  BY <1>1, CutOffRunning DEF Running
<1>3. Moves(a, "start", worker[a].stage)
  BY <1>1, WorkerGoesTo DEF Inv, Pc
<1>4. a <= claimed /\ claimed \in Nat
  BY <1>1, ClaimedBefore
<1>5. live \in BOOLEAN
  BY DEF Inv, Typed
<1> QED
  BY <1>1, <1>2, <1>3, <1>4, <1>5, StageOf, QuietStep DEF Pc, Inv

(* A measurement fails.                                                    *)
LEMMA FailInv == ASSUME Inv, NEW a \in Attempt, Fail(a) PROVE Inv'
<1> DEFINE own == {r \in Running : r[1] = a}
<1>1. /\ worker[a].pc # "absent" /\ CutOff(own)
      /\ worker' = [worker EXCEPT ![a] = Over("gone")]
      /\ live' \in BOOLEAN /\ UNCHANGED <<claimed, beside, late>>
  BY DEF Fail, Working
<1>2. Running' \subseteq Running /\ client' = [r \in Run |-> client'[r]]
  <2>1. own \in SUBSET Run
    BY DEF Running
  <2> QED
    BY <1>1, <2>1, CutOffRunning
<1>3. Moves(a, "gone", 1)
  BY <1>1, WorkerIsOver DEF Inv
<1>4. a <= claimed /\ claimed \in Nat
  BY <1>1, ClaimedBefore
<1> QED
  BY <1>1, <1>2, <1>3, <1>4, QuietStep DEF Pc, Stage

(* A client that reaches its end leaves every worker where it is.          *)
LEMMA ClientEndsInv == ASSUME Inv, NEW run \in Run, ClientEnds(run) PROVE Inv'
<1>1. Running' \subseteq Running /\ client' = [r \in Run |-> client'[r]]
  BY DEF ClientEnds, Running, Inv, Typed
<1>2. UNCHANGED <<claimed, live, worker, beside, late>>
  BY DEF ClientEnds
<1> QED
  BY <1>1, <1>2
  DEF Inv, Typed, Claimed, OneClient, AfterCleaning, LoadIsItsOwn, Shaped

(* Every step keeps the invariant, one case per action.                    *)
LEMMA StepInv == Inv /\ [Next]_vars => Inv'
<1> SUFFICES ASSUME Inv, [Next]_vars PROVE Inv'
  OBVIOUS
<1> client = [r \in Run |-> client[r]] /\ live \in BOOLEAN
  BY DEF Inv, Typed
<1>1. ASSUME NEW a \in Attempt, Claim(a) PROVE Inv'
  <2>1. Moves(a, "begin", worker[a].stage)
    BY <1>1, WorkerGoesTo DEF Claim, Inv, Pc
  <2>2. /\ claimed' \in Nat /\ claimed' >= claimed /\ a <= claimed' /\ live' = TRUE
        /\ UNCHANGED <<client, beside, late>>
    BY <1>1 DEF Claim, Inv, Typed, Attempt
  <2>3. worker[a].pc = "absent"
    BY <1>1 DEF Claim, Claimed, Inv, Typed, Attempt
  <2>4. \A r \in Running : r[1] # a
    BY <2>3, NoClient
  <2>5. Running' = Running
    BY <2>2 DEF Running
  <2> QED
    BY <2>1, <2>2, <2>4, <2>5, StageOf, QuietStep DEF Inv, Pc
<1>2. ASSUME NEW a \in Attempt, Begin(a) PROVE Inv'
  <2>1. /\ worker[a].pc = "begin"
        /\ UNCHANGED <<client, claimed, live, beside, late>>
    BY <1>2 DEF Begin
  <2>2. a <= claimed /\ claimed \in Nat /\ \A r \in Running : r[1] # a
    BY <2>1, ClaimedBefore, NoClient
  <2>3. Moves(a, "search", worker[a].stage) \/ Moves(a, "done", 1)
    BY <1>2, WorkerGoesTo, WorkerIsOver DEF Begin, Inv, Pc
  <2>4. Running' = Running
    BY <2>1 DEF Running
  <2> QED
    BY <2>1, <2>2, <2>3, <2>4, StageOf, QuietStep DEF Inv, Pc, Stage
<1>3. ASSUME NEW a \in Attempt, RecordResult(a) PROVE Inv'
  <2>1. /\ worker[a].pc = "record" /\ live' \in BOOLEAN
        /\ UNCHANGED <<client, claimed, beside, late>>
    BY <1>3 DEF RecordResult
  <2>2. a <= claimed /\ claimed \in Nat /\ \A r \in Running : r[1] # a
    BY <2>1, ClaimedBefore, NoClient
  <2>3. Moves(a, "done", 1)
    BY <1>3, WorkerIsOver DEF RecordResult, Inv
  <2>4. Running' = Running
    BY <2>1 DEF Running
  <2> QED
    BY <2>1, <2>2, <2>3, <2>4, QuietStep DEF Pc, Stage
<1>4. ASSUME NEW a \in Attempt, Crash(a) PROVE Inv'
  <2>1. /\ worker[a].pc # "absent"
        /\ UNCHANGED <<client, claimed, live, beside, late>>
    BY <1>4 DEF Crash, Working
  <2>2. a <= claimed /\ claimed \in Nat
    BY <2>1, ClaimedBefore
  <2>3. Moves(a, "gone", 1)
    BY <1>4, WorkerIsOver DEF Crash, Inv
  <2>4. Running' = Running
    BY <2>1 DEF Running
  <2> QED
    BY <2>1, <2>2, <2>3, <2>4, QuietStep DEF Pc, Stage
<1>5. CASE Expire
  BY <1>5 DEF Expire, Inv, Typed, Claimed, OneClient, AfterCleaning,
     LoadIsItsOwn, Shaped, Running
<1>6. CASE UNCHANGED vars
  BY <1>6 DEF vars, Inv, Typed, Claimed, OneClient, AfterCleaning,
     LoadIsItsOwn, Shaped, Running
<1> QED
  BY <1>1, <1>2, <1>3, <1>4, <1>5, <1>6, StartInv, ReadLogsInv, CombineInv,
     SearchInv, CleanInv, FailInv, ClientEndsInv DEF Next

(* For any number of attempts, whatever clients leave behind, and wherever *)
(* workers die or oversleep: of two clients that loaded the target at      *)
(* once, one was started by a worker after its own lease was gone.         *)
THEOREM MeasuredAlone == Spec => []LoadIsItsOwn
<1>1. Inv => LoadIsItsOwn
  BY DEF Inv
<1> QED
  BY <1>1, InitInv, StepInv, PTL DEF Spec

-----------------------------------------------------------------------------
(* The lines of one file.                                                  *)
File(files, i) == {LineOf(files, i, j) : j \in DOMAIN files[i]}

(* What lines are there: for each position in the files, one.              *)
LEMMA LinesAre ==
  ASSUME NEW files, NEW l
  PROVE  l \in Lines(files) <=>
           \E i \in DOMAIN files : \E j \in DOMAIN files[i] : l = LineOf(files, i, j)
BY DEF Lines

(* The images of the finite many positions in a file are finitely many.    *)
LEMMA ImageFinite ==
  ASSUME NEW S, IsFiniteSet(S), NEW f, f = [x \in S |-> f[x]]
  PROVE  IsFiniteSet({f[x] : x \in S})
<1>1. f \in Surjection(S, {f[x] : x \in S})
  BY DEF Surjection
<1> QED
  BY <1>1, FS_Surjection

(* Of finitely many lines there are finitely many.                         *)
LEMMA LinesFinite ==
  ASSUME NEW files \in Seq(Seq(Line))
  PROVE  IsFiniteSet(Lines(files))
<1>1. ASSUME NEW i \in DOMAIN files PROVE IsFiniteSet(File(files, i))
  <2>1. files[i] \in Seq(Line)
    OBVIOUS
  <2>2. IsFiniteSet(DOMAIN files[i])
    <3>1. PICK n \in Nat : DOMAIN files[i] = 1..n
      BY <2>1
    <3>2. IsFiniteSet(1..n)
      BY FS_Interval
    <3> QED
      BY <3>1, <3>2
  <2> DEFINE f == [j \in DOMAIN files[i] |-> LineOf(files, i, j)]
  <2>3. IsFiniteSet({f[j] : j \in DOMAIN files[i]})
    <3>1. f = [j \in DOMAIN files[i] |-> f[j]]
      OBVIOUS
    <3> HIDE DEF f
    <3> QED
      BY <2>2, <3>1, ImageFinite
  <2>4. {f[j] : j \in DOMAIN files[i]} = File(files, i)
    BY DEF File
  <2> QED
    BY <2>3, <2>4
<1>2. IsFiniteSet({File(files, i) : i \in DOMAIN files})
  <2>1. IsFiniteSet(DOMAIN files)
    <3>1. DOMAIN files = 1..Len(files) /\ Len(files) \in Nat
      OBVIOUS
    <3> QED
      BY <3>1, FS_Interval
  <2> DEFINE f == [i \in DOMAIN files |-> File(files, i)]
  <2>2. IsFiniteSet({f[i] : i \in DOMAIN files})
    <3>1. f = [i \in DOMAIN files |-> f[i]]
      OBVIOUS
    <3> HIDE DEF f
    <3> QED
      BY <2>1, <3>1, ImageFinite
  <2>3. {f[i] : i \in DOMAIN files} = {File(files, i) : i \in DOMAIN files}
    OBVIOUS
  <2> QED
    BY <2>2, <2>3
<1>3. IsFiniteSet(UNION {File(files, i) : i \in DOMAIN files})
  BY <1>1, <1>2, FS_UNION
<1> QED
  BY <1>3 DEF Lines, File

(* The lines and the number of them that have such a latency.              *)
LEMMA WithIsNat ==
  ASSUME NEW S, IsFiniteSet(S), NEW latencies
  PROVE  With(S, latencies) \in Nat /\ IsFiniteSet({l \in S : l.latency \in latencies})
<1>1. IsFiniteSet({l \in S : l.latency \in latencies})
  BY FS_Subset
<1> QED
  BY <1>1, FS_CardinalityType DEF With

(* Of no lines none has such a latency.                                    *)
LEMMA WithOfNothing == ASSUME NEW latencies PROVE With({}, latencies) = 0
BY FS_EmptySet DEF With

(* Some lines that are divided in two.                                     *)
Divides(S, T, U) == IsFiniteSet(S) /\ T \cup U = S /\ T \cap U = {}

(* The number of those with such a latency is the sum of the two.          *)
LEMMA WithDivided ==
  ASSUME NEW S, NEW T, NEW U, Divides(S, T, U), NEW latencies
  PROVE  With(S, latencies) = With(T, latencies) + With(U, latencies)
<1> DEFINE Sel(X) == {l \in X : l.latency \in latencies}
<1>1. IsFiniteSet(Sel(T)) /\ IsFiniteSet(Sel(U))
  <2>1. Sel(T) \subseteq S /\ Sel(U) \subseteq S /\ IsFiniteSet(S)
    BY DEF Divides
  <2> QED
    BY <2>1, FS_Subset
<1>2. Sel(T) \cap Sel(U) = {} /\ Sel(T) \cup Sel(U) = Sel(S)
  BY DEF Divides
<1>3. Cardinality(Sel(S)) = Cardinality(Sel(T)) + Cardinality(Sel(U)) - Cardinality(Sel(T) \cap Sel(U))
  BY <1>1, <1>2, FS_Union
<1>4. Cardinality(Sel(T) \cap Sel(U)) = 0
  BY <1>2, FS_EmptySet
<1>5. Cardinality(Sel(T)) \in Nat /\ Cardinality(Sel(U)) \in Nat
  BY <1>1, FS_CardinalityType
<1>6. With(S, latencies) = Cardinality(Sel(S)) /\ With(T, latencies) = Cardinality(Sel(T))
      /\ With(U, latencies) = Cardinality(Sel(U))
  BY DEF With
<1> HIDE DEF Sel
<1> QED
  BY <1>3, <1>4, <1>5, <1>6

(* A count of finitely many lines, field by field.                         *)
LEMMA CountIs ==
  ASSUME NEW S, IsFiniteSet(S)
  PROVE  /\ Count(S).transactions = With(S, {"some", "negative"})
         /\ Count(S).failures = With(S, {"negative", "none"})
         /\ Count(S).transactions \in Nat /\ Count(S).failures \in Nat
         /\ Count(S) = [transactions |-> Count(S).transactions, failures |-> Count(S).failures]
BY WithIsNat DEF Count

(* What is divided in two is counted in two.                               *)
LEMMA CountDivided ==
  ASSUME NEW S, NEW T, NEW U, Divides(S, T, U)
  PROVE  /\ Count(S).transactions = Count(T).transactions + Count(U).transactions
         /\ Count(S).failures = Count(T).failures + Count(U).failures
<1>1. IsFiniteSet(S) /\ IsFiniteSet(T) /\ IsFiniteSet(U)
  <2>1. IsFiniteSet(S) /\ T \subseteq S /\ U \subseteq S
    BY DEF Divides
  <2> QED
    BY <2>1, FS_Subset
<1> QED
  BY <1>1, CountIs, WithDivided

(* The files of one directory behind those of another.                     *)
Behind(files, l) == [file |-> Len(files) + l.file, number |-> l.number, at |-> l.at,
                     latency |-> l.latency]

(* Joined directories hold the lines of both, and none twice.              *)
LEMMA LinesJoined ==
  ASSUME NEW A \in Seq(Seq(Line)), NEW B \in Seq(Seq(Line))
  PROVE  /\ Lines(A \o B) = Lines(A) \cup {Behind(A, l) : l \in Lines(B)}
         /\ Lines(A) \cap {Behind(A, l) : l \in Lines(B)} = {}
         /\ \A l, m \in Lines(B) : Behind(A, l) = Behind(A, m) => l = m
<1> DEFINE C == A \o B
<1>1. /\ DOMAIN A = 1..Len(A) /\ DOMAIN B = 1..Len(B) /\ Len(A) \in Nat /\ Len(B) \in Nat
      /\ DOMAIN C = 1..(Len(A) + Len(B))
      /\ \A i \in DOMAIN A : C[i] = A[i]
      /\ \A i \in DOMAIN B : Len(A) + i \in DOMAIN C /\ C[Len(A) + i] = B[i]
      /\ \A i \in DOMAIN C : 
           i \in DOMAIN A \/ (i - Len(A) \in DOMAIN B /\ i = Len(A) + (i - Len(A)))
  OBVIOUS
<1> HIDE DEF C
<1>2. ASSUME NEW l \in Lines(C) PROVE l \in Lines(A) \cup {Behind(A, m) : m \in Lines(B)}
  <2>1. PICK i \in DOMAIN C : \E j \in DOMAIN C[i] : l = LineOf(C, i, j)
    BY <1>2, LinesAre
  <2>2. PICK j \in DOMAIN C[i] : l = LineOf(C, i, j)
    BY <2>1
  <2>3. CASE i \in DOMAIN A
    <3>1. C[i] = A[i] /\ l = LineOf(A, i, j)
      BY <2>2, <2>3, <1>1 DEF LineOf
    <3> QED
      BY <2>3, <3>1, LinesAre
  <2>4. CASE i \notin DOMAIN A
    <3>1. PICK k \in DOMAIN B : i = Len(A) + k
      BY <2>4, <1>1
    <3>2. C[i] = B[k] /\ j \in DOMAIN B[k]
      BY <3>1, <1>1
    <3>3. l = Behind(A, LineOf(B, k, j))
      BY <2>2, <3>1, <3>2 DEF LineOf, Behind
    <3>4. LineOf(B, k, j) \in Lines(B)
      BY <3>2, LinesAre
    <3> QED
      BY <3>3, <3>4
  <2> QED
    BY <2>3, <2>4
<1>3. ASSUME NEW l \in Lines(A) PROVE l \in Lines(C)
  <2>1. PICK i \in DOMAIN A : \E j \in DOMAIN A[i] : l = LineOf(A, i, j)
    BY <1>3, LinesAre
  <2>2. PICK j \in DOMAIN A[i] : l = LineOf(A, i, j)
    BY <2>1
  <2>3. i \in DOMAIN C /\ C[i] = A[i] /\ l = LineOf(C, i, j)
    BY <2>2, <1>1 DEF LineOf
  <2> QED
    BY <2>3, LinesAre
<1>4. ASSUME NEW m \in Lines(B) PROVE Behind(A, m) \in Lines(C)
  <2>1. PICK i \in DOMAIN B : \E j \in DOMAIN B[i] : m = LineOf(B, i, j)
    BY <1>4, LinesAre
  <2>2. PICK j \in DOMAIN B[i] : m = LineOf(B, i, j)
    BY <2>1
  <2>3. Len(A) + i \in DOMAIN C /\ C[Len(A) + i] = B[i]
    BY <1>1
  <2>4. Behind(A, m) = LineOf(C, Len(A) + i, j)
    BY <2>2, <2>3 DEF LineOf, Behind
  <2> QED
    BY <2>3, <2>4, LinesAre
<1>5. \A l \in Lines(A) : l.file \in 1..Len(A)
  BY LinesAre, <1>1 DEF LineOf
<1>6. ASSUME NEW l \in Lines(B)
      PROVE  /\ l.file \in 1..Len(B)
             /\ l = [file |-> l.file, number |-> l.number, at |-> l.at, latency |-> l.latency]
  BY LinesAre, <1>1 DEF LineOf
<1>7. Lines(A) \cap {Behind(A, l) : l \in Lines(B)} = {}
  BY <1>1, <1>5, <1>6 DEF Behind
<1>8. ASSUME NEW l \in Lines(B), NEW m \in Lines(B), Behind(A, l) = Behind(A, m)
      PROVE  l = m
  <2>1. /\ Len(A) + l.file = Len(A) + m.file /\ l.number = m.number
        /\ l.at = m.at /\ l.latency = m.latency
    BY <1>8 DEF Behind
  <2>2. l.file = m.file
    BY <2>1, <1>6, <1>1
  <2> QED
    BY <2>1, <2>2, <1>6
<1>9. Lines(C) = Lines(A) \cup {Behind(A, l) : l \in Lines(B)}
  BY <1>2, <1>3, <1>4
<1> QED
  BY <1>7, <1>8, <1>9 DEF C

(* Numbering its files on does not change what a directory counts.         *)
LEMMA WithBehind ==
  ASSUME NEW A \in Seq(Seq(Line)), NEW B \in Seq(Seq(Line)), NEW latencies
  PROVE  With({Behind(A, l) : l \in Lines(B)}, latencies) = With(Lines(B), latencies)
<1> DEFINE S == {l \in Lines(B) : l.latency \in latencies}
           T == {m \in {Behind(A, l) : l \in Lines(B)} : m.latency \in latencies}
           f == [l \in S |-> Behind(A, l)]
<1>1. f \in Bijection(S, T)
  <2>1. \A l \in S : f[l] \in T
    BY DEF Behind
  <2>2. \A m \in T : \E l \in S : f[l] = m
    <3> SUFFICES ASSUME NEW m \in T PROVE \E l \in S : f[l] = m
      OBVIOUS
    <3>1. PICK l \in Lines(B) : m = Behind(A, l)
      OBVIOUS
    <3>2. l \in S
      BY <3>1 DEF Behind
    <3> QED
      BY <3>1, <3>2
  <2>3. \A l, m \in S : f[l] = f[m] => l = m
    BY LinesJoined
  <2>4. f \in [S -> T]
    BY <2>1
  <2> HIDE DEF f, S, T
  <2> QED
    BY <2>2, <2>3, <2>4 DEF Bijection, Injection, Surjection, IsInjective
<1>2. IsFiniteSet(S)
  BY LinesFinite, FS_Subset
<1>3. ExistsBijection(S, T)
  BY <1>1 DEF ExistsBijection
<1>4. Cardinality(T) = Cardinality(S)
  <2> HIDE DEF S, T, f
  <2> QED
    BY <1>2, <1>3, FS_Bijection
<1> QED
  BY <1>4 DEF With

(* Two directories count what each of them counts.                         *)
LEMMA CountJoined ==
  ASSUME NEW A \in Seq(Seq(Line)), NEW B \in Seq(Seq(Line))
  PROVE  /\ Count(Lines(A \o B)).transactions =
              Count(Lines(A)).transactions + Count(Lines(B)).transactions
         /\ Count(Lines(A \o B)).failures =
              Count(Lines(A)).failures + Count(Lines(B)).failures
<1> DEFINE Rest == {Behind(A, l) : l \in Lines(B)}
<1>1. A \o B \in Seq(Seq(Line))
  OBVIOUS
<1>2. IsFiniteSet(Lines(A \o B)) /\ IsFiniteSet(Lines(B))
  BY <1>1, LinesFinite
<1>3. Lines(A \o B) = Lines(A) \cup Rest /\ Lines(A) \cap Rest = {}
  BY LinesJoined
<1>4. IsFiniteSet(Rest)
  BY <1>2, <1>3, FS_Subset
<1>5. With(Rest, {"some", "negative"}) = With(Lines(B), {"some", "negative"})
      /\ With(Rest, {"negative", "none"}) = With(Lines(B), {"negative", "none"})
  BY WithBehind
<1> DEFINE All == Lines(A \o B)
<1> HIDE DEF Rest, All
<1>6. Count(Rest).transactions = Count(Lines(B)).transactions
      /\ Count(Rest).failures = Count(Lines(B)).failures
  BY <1>2, <1>4, <1>5, CountIs
<1>7. /\ Count(All).transactions = Count(Lines(A)).transactions + Count(Rest).transactions
      /\ Count(All).failures = Count(Lines(A)).failures + Count(Rest).failures
  <2>1. Divides(All, Lines(A), Rest)
    BY <1>2, <1>3 DEF All, Divides
  <2> QED
    BY <2>1, CountDivided
<1> QED
  BY <1>6, <1>7 DEF All
-----------------------------------------------------------------------------
(* The readers.                                                            *)
InOrder(files) ==
  \A i \in DOMAIN files : \A j, k \in DOMAIN files[i] :
    j <= k => files[i][j].at <= files[i][k].at

(* A line has its types and is where it says it is.                        *)
LEMMA LineTypes ==
  ASSUME NEW files \in Seq(Seq(Line)), NEW l \in Lines(files)
  PROVE  /\ l.at \in Nat /\ l.latency \in {"some", "negative", "none"}
         /\ l.file \in DOMAIN files /\ l.number \in DOMAIN files[l.file]
         /\ l.at = files[l.file][l.number].at /\ l.number \in Nat
<1>1. PICK i \in DOMAIN files : \E j \in DOMAIN files[i] : l = LineOf(files, i, j)
  BY LinesAre
<1>2. PICK j \in DOMAIN files[i] : l = LineOf(files, i, j)
  BY <1>1
<1>3. files[i] \in Seq(Line)
  OBVIOUS
<1>4. files[i][j] \in Line /\ j \in Nat
  BY <1>3
<1>5. /\ l.file = i /\ l.number = j /\ l.at = files[i][j].at
      /\ l.latency = files[i][j].latency
  BY <1>2 DEF LineOf
<1>6. files[i][j].at \in Nat /\ files[i][j].latency \in {"some", "negative", "none"}
  BY <1>4 DEF Line
<1>7. l.file \in DOMAIN files /\ l.number \in DOMAIN files[l.file]
  BY <1>5
<1>8. l.at = files[l.file][l.number].at /\ l.number \in Nat
  BY <1>4, <1>5
<1>9. l.at \in Nat /\ l.latency \in {"some", "negative", "none"}
  BY <1>5, <1>6
<1> QED
  BY <1>7, <1>8, <1>9

(* Where files are in order, stopping at the first record behind the       *)
(* windows skips nothing that lies within them.                            *)
LEMMA StopsInTime ==
  ASSUME NEW files \in Seq(Seq(Line)), InOrder(files), NEW end \in Nat
  PROVE  ReadFiles(Records(Lines(files)), end) = {r \in Records(Lines(files)) : r.at < end}
<1> DEFINE R == Records(Lines(files))
<1>1. \A r \in R : r \in Lines(files)
  BY DEF Records
<1>2. ASSUME NEW r \in R, \A q \in R : q.file = r.file /\ q.number <= r.number => q.at < end
      PROVE  r.at < end
  <2>1. r.number <= r.number
    BY <1>1, LineTypes
  <2> HIDE DEF R
  <2> QED
    BY <1>2, <2>1
<1>3. ASSUME NEW r \in R, r.at < end, NEW q \in R, q.file = r.file, q.number <= r.number
      PROVE  q.at < end
  <2>1. /\ q.at = files[r.file][q.number].at /\ r.at = files[r.file][r.number].at
        /\ q.number \in DOMAIN files[r.file] /\ r.number \in DOMAIN files[r.file]
        /\ r.file \in DOMAIN files /\ q.at \in Nat /\ r.at \in Nat
    BY <1>1, <1>3, LineTypes
  <2>2. q.at <= r.at
    BY <2>1, <1>3 DEF InOrder
  <2>3. q.at \in Nat /\ r.at \in Nat /\ r.at < end
    BY <2>1, <1>3
  <2> QED
    BY <2>2, <2>3
<1> HIDE DEF R
<1>4. ReadFiles(R, end) = {r \in R : r.at < end}
  BY <1>2, <1>3 DEF ReadFiles
<1> QED
  BY <1>4 DEF R

(* The records within a window.                                            *)
Within(records, from, to) == {l \in records : from <= l.at /\ l.at < to}

(* A window that is not Unusable is what its lines count.                  *)
LEMMA WindowCounts ==
  ASSUME NEW records, NEW from, NEW to
  PROVE  /\ CalculateWindow(records, from, to) # Unusable =>
              /\ Usable(Within(records, from, to))
              /\ CalculateWindow(records, from, to) = Count(Within(records, from, to))
         /\ Usable(Within(records, from, to)) =>
              CalculateWindow(records, from, to) = Count(Within(records, from, to))
BY DEF CalculateWindow, Within

(* Two windows are equal if the same lines lie in them.                    *)
LEMMA SameWindow ==
  ASSUME NEW R, NEW S, NEW from, NEW to, Within(R, from, to) = Within(S, from, to)
  PROVE  CalculateWindow(R, from, to) = CalculateWindow(S, from, to)
BY DEF CalculateWindow, Within

(* The whole is usable if a half is.                                       *)
LEMMA UsableWhole ==
  ASSUME NEW S, NEW T, NEW U, Divides(S, T, U), Usable(T)
  PROVE  Usable(S)
<1>1. With(S, {"some"}) = With(T, {"some"}) + With(U, {"some"})
  BY WithDivided
<1>2. With(T, {"some"}) \in Nat /\ With(U, {"some"}) \in Nat
  <2>1. IsFiniteSet(S) /\ T \subseteq S /\ U \subseteq S
    BY DEF Divides
  <2>2. IsFiniteSet(T) /\ IsFiniteSet(U)
    BY <2>1, FS_Subset
  <2> QED
    BY <2>2, WithIsNat
<1> QED
  BY <1>1, <1>2 DEF Usable

(* The longest of the two windows.                                         *)
LEMMA LongestWindow == Max(1..2) = 2
<1>1. \A y \in 1..2 : 2 >= y
  OBVIOUS
<1>2. \A x \in 1..2 : (\A y \in 1..2 : x >= y) => x = 2
  OBVIOUS
<1> QED
  BY <1>1, <1>2 DEF Max

(* What the readers say of the files of one client.                        *)
Agree(lines) ==
  LET halves == Halves(lines, 1)
      rolling == RollingWindows(lines, 2)
      prefix == PrefixWindows(lines, 1..2)
      after == Count({l \in Records(lines) : l.at >= 2})
  IN
  /\ prefix[1] = halves.first /\ prefix[2] = halves.full
  /\ rolling = <<halves.first, halves.second>>
  /\ Unusable \notin {halves.first, halves.second} =>
       /\ halves.full.transactions =
            halves.first.transactions + halves.second.transactions
       /\ halves.full.failures = halves.first.failures + halves.second.failures
  /\ halves.full # Unusable =>
       /\ Count(lines).transactions = halves.full.transactions + after.transactions
       /\ Count(lines).failures =
            halves.full.failures + after.failures + With(lines, {"none"})

(* If its files are in order, the readers of a log agree.                  *)
LEMMA ReadersAgree ==
  ASSUME NEW files \in Seq(Seq(Line)), InOrder(files)
  PROVE  Agree(Lines(files))
<1> DEFINE L == Lines(files)
           R == Records(L)
           First == CalculateWindow(R, 0, 1)
           Second == CalculateWindow(R, 1, 2)
           Full == CalculateWindow(R, 0, 2)
           After == {l \in R : l.at >= 2}
           Silent == {l \in L : l.latency = "none"}
<1>1. Halves(L, 1) = [first |-> First, second |-> Second, full |-> Full]
  BY DEF Halves
<1>2. RollingWindows(L, 2) = <<First, Second>>
  <2>1. RollingWindows(L, 2) = [i \in 1..2 |-> CalculateWindow(R, i - 1, i)]
    BY DEF RollingWindows
  <2> HIDE DEF L, R
  <2> QED
    BY <2>1
<1>3. \A l \in L : l.at \in Nat
  BY LineTypes
<1>4. IsFiniteSet(L)
  BY LinesFinite
<1>5. PrefixWindows(L, 1..2)[1] = First /\ PrefixWindows(L, 1..2)[2] = Full
  <2> DEFINE S == {r \in R : r.at < 2}
  <2>1. PrefixWindows(L, 1..2) = [w \in 1..2 |-> CalculateWindow(S, 0, w)]
    BY LongestWindow, StopsInTime DEF PrefixWindows
  <2>2. Within(S, 0, 1) = Within(R, 0, 1) /\ Within(S, 0, 2) = Within(R, 0, 2)
    BY <1>3 DEF Within, Records
  <2> HIDE DEF S, R, L
  <2>3. CalculateWindow(S, 0, 1) = First /\ CalculateWindow(S, 0, 2) = Full
    BY <2>2, SameWindow
  <2> QED
    BY <2>1, <2>3
<1>6. Divides(Within(R, 0, 2), Within(R, 0, 1), Within(R, 1, 2))
  <2>1. IsFiniteSet(Within(R, 0, 2))
    <3>1. Within(R, 0, 2) \subseteq L
      BY DEF Within, Records
    <3> QED
      BY <3>1, <1>4, FS_Subset
  <2>2. /\ Within(R, 0, 1) \cup Within(R, 1, 2) = Within(R, 0, 2)
        /\ Within(R, 0, 1) \cap Within(R, 1, 2) = {}
    BY <1>3 DEF Within, Records
  <2> QED
    BY <2>1, <2>2 DEF Divides
<1>7. Divides(R, Within(R, 0, 2), After)
  <2>1. R \subseteq L
    BY DEF Records
  <2>2. Within(R, 0, 2) \cup After = R /\ Within(R, 0, 2) \cap After = {}
    BY <1>3 DEF Within, Records
  <2> QED
    BY <2>1, <2>2, <1>4, FS_Subset DEF Divides
<1>8. Divides(L, R, Silent)
  BY <1>4 DEF Divides, Records
<1>9. /\ Count(Silent).transactions = 0
      /\ Count(Silent).failures = With(L, {"none"})
  <2>1. /\ {l \in Silent : l.latency \in {"some", "negative"}} = {}
        /\ {l \in Silent : l.latency \in {"negative", "none"}}
             = {l \in L : l.latency \in {"none"}}
    OBVIOUS
  <2>2. /\ With(Silent, {"some", "negative"}) = 0
        /\ With(Silent, {"negative", "none"}) = With(L, {"none"})
    <3> HIDE DEF L, Silent
    <3> QED
      BY <2>1, FS_EmptySet DEF With
  <2> QED
    BY <2>2 DEF Count
<1>10. /\ Count(After).transactions \in Nat /\ Count(After).failures \in Nat
       /\ Count(Within(R, 0, 2)).transactions \in Nat
       /\ Count(Within(R, 0, 2)).failures \in Nat
       /\ With(L, {"none"}) \in Nat
  <2>1. After \subseteq L /\ Within(R, 0, 2) \subseteq L
    BY DEF Within, Records
  <2>2. IsFiniteSet(After) /\ IsFiniteSet(Within(R, 0, 2))
    BY <2>1, <1>4, FS_Subset
  <2> HIDE DEF After, L
  <2> QED
    BY <2>2, <1>4, CountIs, WithIsNat
<1> HIDE DEF L, R, After, Silent
<1>11. ASSUME First # Unusable, Second # Unusable
       PROVE  /\ Full.transactions = First.transactions + Second.transactions
              /\ Full.failures = First.failures + Second.failures
  <2>1. /\ First = Count(Within(R, 0, 1)) /\ Usable(Within(R, 0, 1))
        /\ Second = Count(Within(R, 1, 2))
    BY <1>11, WindowCounts
  <2>2. Full = Count(Within(R, 0, 2))
    BY <2>1, <1>6, UsableWhole, WindowCounts
  <2> HIDE DEF First, Second, Full
  <2> QED
    BY <2>1, <2>2, <1>6, CountDivided
<1>12. ASSUME Full # Unusable
       PROVE  /\ Count(L).transactions = Full.transactions + Count(After).transactions
              /\ Count(L).failures =
                   Full.failures + Count(After).failures + With(L, {"none"})
  <2>1. Full = Count(Within(R, 0, 2))
    BY <1>12, WindowCounts
  <2>2. /\ Count(R).transactions =
             Count(Within(R, 0, 2)).transactions + Count(After).transactions
        /\ Count(R).failures = Count(Within(R, 0, 2)).failures + Count(After).failures
    BY <1>7, CountDivided
  <2>3. /\ Count(L).transactions = Count(R).transactions + Count(Silent).transactions
        /\ Count(L).failures = Count(R).failures + Count(Silent).failures
    BY <1>8, CountDivided
  <2> HIDE DEF Full
  <2> QED
    BY <2>1, <2>2, <2>3, <1>9, <1>10
<1> HIDE DEF First, Second, Full
<1> QED
  BY <1>1, <1>2, <1>5, <1>11, <1>12 DEF Agree, L, R, After

-----------------------------------------------------------------------------
(* A set of numbers has a least element.                                   *)
LEMMA NatMin ==
  ASSUME NEW S \in SUBSET Nat, S # {}
  PROVE  \E x \in S : \A y \in S : x <= y
<1>. DEFINE R == {p \in Nat \X Nat : p[1] < p[2]}
<1>1. IsWellFoundedOn(R, Nat)
  BY NatLessThanWellFounded, Zenon DEF OpToRel
<1>2. \E x \in S : \A y \in S : ~ (<<y, x>> \in R)
  <2>. HIDE DEF R
  <2>. QED BY <1>1, WFMin, Zenon
<1>3. \A x, y \in Nat : y < x => <<y, x>> \in R
  OBVIOUS
<1>. HIDE DEF R
<1>4. PICK x \in S : \A y \in S : ~ (<<y, x>> \in R)
  BY <1>2
<1>5. ASSUME NEW y \in S PROVE x <= y
  <2>1. ~ (y < x)
    BY <1>3, <1>4
  <2>. QED BY <2>1
<1>. QED BY <1>5

(* The counts of the lines that one client has left.                       *)
Own(a, s) == Count(Lines(log[<<a, s>>]))

(* A client that has run to its end.                                       *)
Has(r) == client[r] = "over"

(* What a marker says of the clients of its attempt.                       *)
Counted(a) ==
  /\ marker[a] \in Marker
  /\ Has(<<a, 1>>)
  /\ marker[a].stages = 1 =>
       /\ ~(Len(plan) = 2 /\ Promoted(Own(a, 1)))
       /\ marker[a].transactions = Own(a, 1).transactions
       /\ marker[a].failures = Own(a, 1).failures
  /\ marker[a].stages = 2 =>
       /\ Len(plan) = 2 /\ Promoted(Own(a, 1)) /\ Has(<<a, 2>>)
       /\ marker[a].transactions = Own(a, 1).transactions + Own(a, 2).transactions
       /\ marker[a].failures = Own(a, 1).failures + Own(a, 2).failures

(* What the position of a worker says of its clients, its marker and the   *)
(* one it has found.                                                       *)
Before == {"absent", "begin", "search", "clean"}

Placed(a) ==
  LET w == worker[a] IN
  /\ w.pc \in Before => w.stage = 1
  /\ w.pc \in Before \cup {"start", "wait", "combine"} => marker[a] = None
  /\ w.pc \in {"start", "wait"} /\ w.stage = 2 =>
       Len(plan) = 2 /\ Has(<<a, 1>>) /\ Promoted(Own(a, 1))
  /\ w.pc = "combine" =>
       /\ Len(plan) = 2 /\ Has(<<a, 1>>)
       /\ w.stage = 1 => ~Promoted(Own(a, 1))
       /\ w.stage = 2 => Promoted(Own(a, 1)) /\ Has(<<a, 2>>)
  /\ w.pc = "record" => w.found \in Attempt /\ marker[w.found] # None

(* What is kept of the types, and what the result of the action refers to. *)
Kept ==
  /\ plan \in Plan
  /\ log = [r \in Run |-> log[r]]
  /\ \A r \in Run : log[r] \in Logs \cup {<<>>}
  /\ marker = [a \in Attempt |-> marker[a]]
  /\ action = [token |-> action.token, result |-> action.result]
  /\ action.result # None => action.result \in Attempt /\ marker[action.result] # None

(* The inductive invariant of the counts.                                  *)
CountInv ==
  /\ Kept
  /\ \A a \in Attempt : Placed(a)
  /\ \A a \in Attempt : marker[a] # None => Counted(a)

(* What a client has left can be counted, and each file is in order.       *)
LEMMA LogTypes ==
  ASSUME Kept, NEW r \in Run
  PROVE  log[r] \in Seq(Seq(Line)) /\ InOrder(log[r])
<1>1. CASE log[r] = <<>>
  BY <1>1 DEF InOrder
<1>2. CASE log[r] \in Logs
  <2>1. \A file \in DOMAIN log[r] : \A i, j \in DOMAIN log[r][file] :
          i <= j => log[r][file][i].at <= log[r][file][j].at
    BY <1>2, LogsAreInOrder
  <2>2. log[r] \in Seq(Seq(Line))
    BY <1>2, LogsAssumption
  <2> QED
    BY <2>1, <2>2 DEF InOrder
<1> QED
  BY <1>1, <1>2 DEF Kept

(* The clients of an attempt that are over stay so, and so do their logs.  *)
OversStay(b) ==
  \A s \in Stage : Has(<<b, s>>) => Has(<<b, s>>)' /\ log'[<<b, s>>] = log[<<b, s>>]

(* A client that is over keeps its count.                                  *)
LEMMA OwnStays ==
  ASSUME NEW b, NEW s \in Stage, OversStay(b), Has(<<b, s>>)
  PROVE  Has(<<b, s>>)' /\ Own(b, s)' = Own(b, s)
BY DEF OversStay, Own

(* What a marker says of its clients stays true.                           *)
LEMMA CountedStays ==
  ASSUME NEW b, OversStay(b), plan' = plan, marker'[b] = marker[b], Counted(b)
  PROVE  Counted(b)'
<1>1. 1 \in Stage /\ 2 \in Stage
  BY DEF Stage
<1>2. Has(<<b, 1>>)' /\ Own(b, 1)' = Own(b, 1)
  BY <1>1, OwnStays DEF Counted
<1>3. Has(<<b, 2>>) => Has(<<b, 2>>)' /\ Own(b, 2)' = Own(b, 2)
  BY <1>1, OwnStays
<1> QED
  BY <1>2, <1>3 DEF Counted, Promoted

(* What a position says of its clients stays true.                         *)
LEMMA PlacedStays ==
  ASSUME NEW b, OversStay(b), plan' = plan, marker'[b] = marker[b],
         worker'[b] = worker[b],
         \A c \in Attempt : marker[c] # None => marker'[c] # None,
         Placed(b)
  PROVE  Placed(b)'
<1>1. 1 \in Stage /\ 2 \in Stage
  BY DEF Stage
<1>2. Has(<<b, 1>>) => Has(<<b, 1>>)' /\ Own(b, 1)' = Own(b, 1)
  BY <1>1, OwnStays
<1>3. Has(<<b, 2>>) => Has(<<b, 2>>)'
  BY <1>1, OwnStays
<1> QED
  BY <1>2, <1>3 DEF Placed, Promoted

(* A step of the worker of one attempt that leaves the others' clients be. *)
LEMMA CountStep ==
  ASSUME CountInv, Kept', plan' = plan, NEW a \in Attempt,
         \A b \in Attempt \ {a} :
           OversStay(b) /\ worker'[b] = worker[b] /\ marker'[b] = marker[b],
         marker[a] # None => marker'[a] # None,
         Placed(a)', marker'[a] # None => Counted(a)'
  PROVE  CountInv'
<1>1. \A c \in Attempt : marker[c] # None => marker'[c] # None
  OBVIOUS
<1>2. ASSUME NEW b \in Attempt PROVE Placed(b)'
  BY <1>1, PlacedStays DEF CountInv
<1>3. ASSUME NEW b \in Attempt, marker'[b] # None PROVE Counted(b)'
  BY <1>3, CountedStays DEF CountInv
<1> QED
  BY <1>2, <1>3 DEF CountInv

(* One that leaves all clients and markers be.                             *)
LEMMA CountMove ==
  ASSUME CountInv, Kept', UNCHANGED <<plan, marker>>, NEW a \in Attempt,
         \A b \in Attempt : OversStay(b),
         \A b \in Attempt \ {a} : worker'[b] = worker[b],
         Placed(a)'
  PROVE  CountInv'
<1>1. marker'[a] # None => Counted(a)'
  BY CountedStays DEF CountInv
<1> QED
  BY <1>1, CountStep

(* Where no client and no log changes, what is over stays.                 *)
LEMMA OversSame ==
  ASSUME UNCHANGED <<client, log>>, NEW b PROVE OversStay(b)
BY DEF OversStay, Has

(* Where no log and no marker changes, what is kept stays.                 *)
LEMMA KeptSame ==
  ASSUME Kept, UNCHANGED <<plan, log, marker, action>>
  PROVE  Kept'
BY DEF Kept

(* Clients that are cut off were not over.                                 *)
LEMMA CutOffCounts ==
  ASSUME Kept, NEW runs \in SUBSET Running, CutOff(runs), UNCHANGED <<plan, marker, action>>
  PROVE  Kept' /\ \A b \in Attempt : OversStay(b)
<1>1. PICK left \in [runs -> Partial] :
        /\ client' = [r \in Run |-> IF r \in runs THEN "cut" ELSE client[r]]
        /\ log' = [r \in Run |-> IF r \in runs THEN left[r] ELSE log[r]]
  BY DEF CutOff
<1>2. \A r \in Run : log'[r] \in Logs \cup {<<>>}
  BY <1>1, LogsAssumption DEF Kept
<1>3. ASSUME NEW b \in Attempt, NEW s \in Stage, Has(<<b, s>>)
      PROVE  Has(<<b, s>>)' /\ log'[<<b, s>>] = log[<<b, s>>]
  <2>1. <<b, s>> \in Run /\ <<b, s>> \notin runs
    BY <1>3 DEF Run, Running, Has
  <2> QED
    BY <1>1, <1>3, <2>1 DEF Has
<1> QED
  BY <1>1, <1>2, <1>3 DEF Kept, OversStay

(* Nothing is counted at first.                                            *)
LEMMA InitCounts == Init => CountInv
<1> SUFFICES ASSUME Init PROVE CountInv
  OBVIOUS
<1>1. Kept
  BY DEF Init, Kept
<1>2. \A a \in Attempt : worker[a] = Over("absent") /\ marker[a] = None
  BY DEF Init
<1>3. \A a \in Attempt : Placed(a)
  BY <1>2 DEF Placed, Before, Over
<1> QED
  BY <1>1, <1>2, <1>3 DEF CountInv

(* One lemma per action.                                                   *)
LEMMA ClaimCounts == ASSUME Inv, CountInv, NEW a \in Attempt, Claim(a) PROVE CountInv'
<1>1. /\ worker' = [worker EXCEPT ![a].pc = "begin"]
      /\ UNCHANGED <<plan, client, log, marker, action>>
  BY DEF Claim
<1>2. worker[a].pc = "absent"
  BY DEF Claim, Claimed, Inv, Typed, Attempt
<1>3. Moves(a, "begin", worker[a].stage)
  BY <1>1, WorkerGoesTo DEF Inv, Pc
<1>4. Placed(a)'
  BY <1>1, <1>2, <1>3 DEF CountInv, Placed, Before, Moves
<1> QED
  BY <1>1, <1>3, <1>4, OversSame, KeptSame, CountMove DEF CountInv, Moves

(* The row of the action is taken over.                                    *)
LEMMA BeginCounts == ASSUME Inv, CountInv, NEW a \in Attempt, Begin(a) PROVE CountInv'
<1>1. worker[a].pc = "begin" /\ UNCHANGED <<plan, client, log, marker>>
  BY DEF Begin
<1>2. Kept'
  BY DEF Begin, CountInv, Kept
<1>3. Moves(a, "search", worker[a].stage) \/ Moves(a, "done", 1)
  BY WorkerGoesTo, WorkerIsOver DEF Begin, Inv, Pc
<1>4. Placed(a)'
  BY <1>1, <1>3 DEF CountInv, Placed, Before, Moves
<1> QED
  BY <1>1, <1>2, <1>3, <1>4, OversSame, CountMove DEF Moves

(* The last of the attempts with a marker is one of them.                  *)
LEMMA LastOf ==
  ASSUME NEW S \in SUBSET Attempt, S # {}
  PROVE  Max(S) \in S
<1> DEFINE T == {MaxAttempts - b : b \in S}
<1> MaxAttempts \in Nat
  BY MaxAttemptsAssumption
<1>1. T \in SUBSET Nat /\ T # {}
  <2>1. \A b \in S : MaxAttempts - b \in Nat
    BY DEF Attempt
  <2> QED
    BY <2>1
<1>2. PICK m \in T : \A n \in T : m <= n
  <2> HIDE DEF T
  <2> QED
    BY <1>1, NatMin
<1>3. PICK b \in S : m = MaxAttempts - b
  OBVIOUS
<1>4. \A c \in S : b >= c
  <2> SUFFICES ASSUME NEW c \in S PROVE b >= c
    OBVIOUS
  <2>1. MaxAttempts - c \in T
    OBVIOUS
  <2> QED
    BY <1>2, <1>3, <2>1 DEF Attempt
<1> QED
  BY <1>4 DEF Max

(* A worker that has found a marker knows whose it is.                     *)
LEMMA FoundIs ==
  ASSUME Inv, NEW a \in Attempt, NEW found,
         worker' = [worker EXCEPT ![a] = [worker[a] EXCEPT !.pc = "record", !.found = found]]
  PROVE  Moves(a, "record", worker[a].stage) /\ worker'[a].found = found
<1>1. PICK w : w = worker[a]
  OBVIOUS
<1>2. w = [pc |-> w.pc, stage |-> w.stage, found |-> w.found]
  BY <1>1 DEF Inv, Typed, Shaped
<1>3. PICK v : v = [w EXCEPT !.pc = "record", !.found = found]
  OBVIOUS
<1>4. v.found = found
  BY <1>2, <1>3
<1>5. worker'[a] = v
  BY <1>1, <1>3 DEF Inv, Typed
<1> QED
  BY <1>4, <1>5, WorkerFound DEF Inv

(* The marker that is found is one.                                        *)
LEMMA SearchCounts == ASSUME Inv, CountInv, NEW a \in Attempt, Search(a) PROVE CountInv'
<1> DEFINE left == {b \in Attempt : marker[b] # None}
<1>1. worker[a].pc = "search" /\ UNCHANGED <<plan, client, log, marker, action>>
  BY DEF Search
<1>2. CASE left = {}
  <2>1. worker' = [worker EXCEPT ![a] = [@ EXCEPT !.pc = "clean"]]
    BY <1>2 DEF Search
  <2>2. Moves(a, "clean", worker[a].stage)
    BY <2>1, WorkerGoesTo DEF Inv, Pc
  <2>3. Placed(a)'
    BY <1>1, <2>2 DEF CountInv, Placed, Before, Moves
  <2> QED
    BY <1>1, <2>2, <2>3, OversSame, KeptSame, CountMove DEF CountInv, Moves
<1>3. CASE left # {}
  <2> DEFINE found == Max(left)
  <2>1. worker' = [worker EXCEPT ![a] = [@ EXCEPT !.pc = "record", !.found = found]]
    BY <1>3 DEF Search
  <2>2. found \in Attempt /\ marker[found] # None
    BY <1>3, LastOf
  <2> HIDE DEF found
  <2>3. Moves(a, "record", worker[a].stage) /\ worker'[a].found = found
    BY <2>1, FoundIs
  <2>4. Placed(a)'
    BY <1>1, <2>2, <2>3 DEF Placed, Before, Moves
  <2> QED
    BY <1>1, <2>3, <2>4, OversSame, KeptSame, CountMove DEF CountInv, Moves
<1> QED
  BY <1>2, <1>3

(* The clients that are cut off had not ended.                             *)
LEMMA CleanCounts == ASSUME Inv, CountInv, NEW a \in Attempt, Clean(a) PROVE CountInv'
<1>1. /\ worker[a].pc = "clean" /\ CutOff(Running)
      /\ worker' = [worker EXCEPT ![a].pc = "start"]
      /\ UNCHANGED <<plan, marker, action>>
  BY DEF Clean, Orphans
<1>2. Kept' /\ \A b \in Attempt : OversStay(b)
  BY <1>1, CutOffCounts DEF CountInv
<1>3. Moves(a, "start", worker[a].stage)
  BY <1>1, WorkerGoesTo DEF Inv, Pc
<1>4. Placed(a)'
  BY <1>1, <1>3 DEF CountInv, Placed, Before, Moves
<1> QED
  BY <1>1, <1>2, <1>3, <1>4, CountMove DEF Moves

(* The client that starts is not one that is over.                         *)
LEMMA StartCounts == ASSUME Inv, CountInv, NEW a \in Attempt, StartClient(a) PROVE CountInv'
<1> DEFINE run == <<a, worker[a].stage>>
<1>1. /\ worker[a].pc = "start" /\ client' = [client EXCEPT ![run] = "running"]
      /\ worker' = [worker EXCEPT ![a].pc = "wait"]
      /\ UNCHANGED <<plan, log, marker, action>>
  BY DEF StartClient
<1>2. Moves(a, "wait", worker[a].stage) /\ worker[a].stage \in Stage
  BY <1>1, WorkerGoesTo, StageOf DEF Inv, Pc
<1>3. \A r \in Run : r # run => client'[r] = client[r]
  BY <1>1 DEF Inv, Typed
<1>4. ASSUME NEW b \in Attempt \ {a} PROVE OversStay(b)
  BY <1>1, <1>3 DEF OversStay, Has, Run
<1>5. marker[a] = None
  BY <1>1 DEF CountInv, Placed
<1>6. Placed(a)'
  <2>1. CASE worker[a].stage = 2
    <3>1. Len(plan) = 2 /\ Has(<<a, 1>>) /\ Promoted(Own(a, 1))
      BY <1>1, <2>1 DEF CountInv, Placed
    <3>2. Has(<<a, 1>>)'
      BY <3>1, <2>1, <1>3 DEF Has, Run, Stage
    <3>3. Own(a, 1)' = Own(a, 1)
      BY <1>1 DEF Own
    <3> QED
      BY <1>1, <1>2, <1>5, <3>1, <3>2, <3>3 DEF Placed, Before, Moves, Promoted
  <2>2. CASE worker[a].stage # 2
    BY <1>1, <1>2, <1>5, <2>2 DEF Placed, Before, Moves
  <2> QED
    BY <2>1, <2>2
<1>7. Kept'
  BY <1>1, KeptSame DEF CountInv
<1> QED
  BY <1>1, <1>2, <1>4, <1>5, <1>6, <1>7, CountStep DEF Moves

(* A client that ends was not over.                                        *)
LEMMA ClientEndsCounts ==
  ASSUME Inv, CountInv, NEW run \in Run, ClientEnds(run) PROVE CountInv'
<1>1. PICK left \in Logs : log' = [log EXCEPT ![run] = left]
  BY DEF ClientEnds
<1>2. /\ client[run] = "running" /\ client' = [client EXCEPT ![run] = "over"]
      /\ UNCHANGED <<plan, worker, marker, action>>
  BY DEF ClientEnds
<1>3. \A r \in Run \ {run} : client'[r] = client[r] /\ log'[r] = log[r]
  BY <1>1, <1>2 DEF Inv, Typed, CountInv, Kept
<1>4. ASSUME NEW b \in Attempt PROVE OversStay(b)
  BY <1>2, <1>3 DEF OversStay, Has, Run
<1>5. Kept'
  BY <1>1, <1>2 DEF CountInv, Kept
<1>6. ASSUME NEW b \in Attempt PROVE Placed(b)'
  BY <1>2, <1>4, PlacedStays DEF CountInv
<1>7. ASSUME NEW b \in Attempt, marker'[b] # None PROVE Counted(b)'
  BY <1>2, <1>4, <1>7, CountedStays DEF CountInv
<1> QED
  BY <1>5, <1>6, <1>7 DEF CountInv

(* Counts have their types.                                                *)
LEMMA OwnTypes ==
  ASSUME Kept, NEW a \in Attempt, NEW s \in Stage
  PROVE  /\ Own(a, s) = [transactions |-> Own(a, s).transactions,
                         failures |-> Own(a, s).failures]
         /\ Own(a, s).transactions \in Nat /\ Own(a, s).failures \in Nat
<1>1. log[<<a, s>>] \in Seq(Seq(Line))
  BY LogTypes DEF Run
<1>2. IsFiniteSet(Lines(log[<<a, s>>]))
  BY <1>1, LinesFinite
<1> QED
  BY <1>2, CountIs DEF Own

(* A marker is written, by the attempt whose it is.                        *)
LEMMA MarkerWritten ==
  ASSUME CountInv, NEW a \in Attempt, NEW counts, NEW stages \in Stage,
         marker' = [marker EXCEPT ![a] = Marked(counts, stages)],
         counts.transactions \in Nat, counts.failures \in Nat,
         UNCHANGED <<plan, log, action>>
  PROVE  /\ Kept' /\ marker'[a] = Marked(counts, stages) /\ marker'[a] \in Marker
         /\ marker'[a] # None
         /\ \A b \in Attempt \ {a} : marker'[b] = marker[b]
<1>1. marker'[a] = Marked(counts, stages)
  BY DEF CountInv, Kept
<1>2. Marked(counts, stages) \in Marker
  BY DEF Marked, Marker
<1>3. marker'[a] # None
  BY <1>1, <1>2, NoneAssumption
<1>4. \A b \in Attempt \ {a} : marker'[b] = marker[b]
  BY DEF CountInv, Kept
<1>5. Kept'
  BY <1>3, <1>4 DEF CountInv, Kept
<1> QED
  BY <1>1, <1>2, <1>3, <1>4, <1>5

(* What is read is what the client has left, and all of it.                *)
LEMMA ReadLogsCounts == ASSUME Inv, CountInv, NEW a \in Attempt, ReadLogs(a) PROVE CountInv'
<1> DEFINE s == worker[a].stage
<1>1. /\ worker[a].pc = "wait" /\ Has(<<a, s>>)
      /\ UNCHANGED <<plan, client, log, action>>
  BY DEF ReadLogs, Has
<1>2. s \in Stage /\ Count(Lines(Files(a, s))) = Own(a, s)
  BY StageOf DEF Inv, Own, Files
<1>3. \A b : OversStay(b)
  BY <1>1, OversSame
<1>4. marker[a] = None
  BY <1>1 DEF CountInv, Placed
<1>5. CASE /\ Len(plan) = 1
           /\ marker' = [marker EXCEPT ![a] = Marked(Own(a, s), 1)]
           /\ worker' = [worker EXCEPT ![a].pc = "record", ![a].found = a]
  <2>1. s = 1
    <3>1. s # 2
      BY <1>1, <1>5 DEF CountInv, Placed
    <3> QED
      BY <1>2, <3>1 DEF Stage
  <2>2. worker' = [worker EXCEPT ![a] = [worker[a] EXCEPT !.pc = "record", !.found = a]]
    BY <1>5 DEF Inv, Typed
  <2>3. Moves(a, "record", s) /\ worker'[a].found = a
    BY <2>2, FoundIs
  <2>4. Own(a, s).transactions \in Nat /\ Own(a, s).failures \in Nat
    BY <1>2, OwnTypes DEF CountInv
  <2>5. /\ Kept' /\ marker'[a] = Marked(Own(a, s), 1) /\ marker'[a] \in Marker
        /\ marker'[a] # None /\ \A b \in Attempt \ {a} : marker'[b] = marker[b]
    <3>1. 1 \in Stage
      BY DEF Stage
    <3> QED
      BY <1>1, <1>5, <2>4, <3>1, MarkerWritten
  <2>6. Placed(a)'
    BY <2>3, <2>5 DEF Placed, Before, Moves
  <2>7. Own(a, 1)' = Own(a, 1) /\ Has(<<a, 1>>)'
    BY <1>1, <2>1 DEF Own, Has
  <2>8. Counted(a)'
    BY <1>1, <1>5, <2>1, <2>5, <2>7 DEF Counted, Marked
  <2> QED
    BY <1>1, <1>3, <1>4, <2>3, <2>5, <2>6, <2>8, CountStep DEF Moves
<1>6. CASE /\ Len(plan) = 2 /\ s = 1 /\ Promoted(Own(a, s))
           /\ worker' = [worker EXCEPT ![a].pc = "start", ![a].stage = 2]
           /\ UNCHANGED marker
  <2>1. worker' = [worker EXCEPT ![a] = [worker[a] EXCEPT !.pc = "start", !.stage = 2]]
    BY <1>6 DEF Inv, Typed
  <2>2. Moves(a, "start", 2)
    BY <2>1, WorkerGoesOn DEF Inv
  <2>3. Own(a, 1)' = Own(a, 1) /\ Has(<<a, 1>>)'
    BY <1>1, <1>6 DEF Own, Has
  <2>4. Placed(a)'
    BY <1>1, <1>4, <1>6, <2>2, <2>3 DEF Placed, Before, Moves, Promoted
  <2> QED
    BY <1>1, <1>3, <1>6, <2>2, <2>4, KeptSame, CountMove DEF CountInv, Moves
<1>7. CASE /\ Len(plan) = 2 /\ (s = 2 \/ ~Promoted(Own(a, s)))
           /\ worker' = [worker EXCEPT ![a].pc = "combine"]
           /\ UNCHANGED marker
  <2>1. Moves(a, "combine", s)
    BY <1>7, WorkerGoesTo DEF Inv, Pc
  <2>2. /\ s = 1 => ~Promoted(Own(a, 1))
        /\ s = 2 => Has(<<a, 1>>) /\ Promoted(Own(a, 1))
    BY <1>1, <1>7 DEF CountInv, Placed
  <2>3. Has(<<a, 1>>)
    BY <1>1, <1>2, <2>2 DEF Stage
  <2>4. /\ Own(a, 1)' = Own(a, 1) /\ Has(<<a, 1>>)'
        /\ Has(<<a, 2>>) => Has(<<a, 2>>)'
    BY <1>1, <2>3 DEF Own, Has
  <2>5. Placed(a)'
    BY <1>1, <1>4, <1>7, <2>1, <2>2, <2>4 DEF Placed, Before, Moves, Promoted
  <2> QED
    BY <1>1, <1>3, <1>7, <2>1, <2>5, KeptSame, CountMove DEF CountInv, Moves
<1> QED
  BY <1>2, <1>5, <1>6, <1>7 DEF ReadLogs

(* The aggregate counts both stages, or the one there was.                 *)
LEMMA CombineCounts == ASSUME Inv, CountInv, NEW a \in Attempt, Combine(a) PROVE CountInv'
<1> DEFINE s == worker[a].stage
           files == IF s = 1 THEN Files(a, 1) ELSE Files(a, 1) \o Files(a, 2)
           counts == Count(Lines(files))
<1>1. /\ worker[a].pc = "combine" /\ marker' = [marker EXCEPT ![a] = Marked(counts, s)]
      /\ worker' = [worker EXCEPT ![a].pc = "record", ![a].found = a]
      /\ UNCHANGED <<plan, client, log, action>>
  BY DEF Combine
<1>2. s \in Stage /\ 1 \in Stage /\ 2 \in Stage
  BY StageOf DEF Inv, Stage
<1>3. /\ Len(plan) = 2 /\ Has(<<a, 1>>)
      /\ s = 1 => ~Promoted(Own(a, 1))
      /\ s = 2 => Promoted(Own(a, 1)) /\ Has(<<a, 2>>)
  BY <1>1 DEF CountInv, Placed
<1>4. /\ Own(a, 1).transactions \in Nat /\ Own(a, 1).failures \in Nat
      /\ Own(a, 2).transactions \in Nat /\ Own(a, 2).failures \in Nat
  BY <1>2, OwnTypes DEF CountInv
<1>5. s = 1 => counts = Own(a, 1)
  BY DEF Own, Files
<1>6. s = 2 => /\ counts.transactions = Own(a, 1).transactions + Own(a, 2).transactions
               /\ counts.failures = Own(a, 1).failures + Own(a, 2).failures
  <2>1. log[<<a, 1>>] \in Seq(Seq(Line)) /\ log[<<a, 2>>] \in Seq(Seq(Line))
    BY <1>2, LogTypes DEF CountInv, Run
  <2> DEFINE joined == Count(Lines(log[<<a, 1>>] \o log[<<a, 2>>]))
  <2>2. /\ joined.transactions = Own(a, 1).transactions + Own(a, 2).transactions
        /\ joined.failures = Own(a, 1).failures + Own(a, 2).failures
    BY <2>1, CountJoined DEF Own
  <2>3. s = 2 => counts = joined
    BY DEF Files
  <2> HIDE DEF joined, counts
  <2> QED
    BY <2>2, <2>3
<1> HIDE DEF counts, files
<1>7. counts.transactions \in Nat /\ counts.failures \in Nat
  BY <1>2, <1>4, <1>5, <1>6 DEF Stage
<1>8. /\ Kept' /\ marker'[a] = Marked(counts, s) /\ marker'[a] \in Marker
      /\ marker'[a] # None /\ \A b \in Attempt \ {a} : marker'[b] = marker[b]
  BY <1>1, <1>2, <1>7, MarkerWritten
<1>9. worker' = [worker EXCEPT ![a] = [worker[a] EXCEPT !.pc = "record", !.found = a]]
  BY <1>1 DEF Inv, Typed
<1>10. Moves(a, "record", s) /\ worker'[a].found = a
  BY <1>9, FoundIs
<1>11. Placed(a)'
  BY <1>8, <1>10 DEF Placed, Before, Moves
<1>12. /\ Own(a, 1)' = Own(a, 1) /\ Own(a, 2)' = Own(a, 2)
       /\ Has(<<a, 1>>)' /\ Has(<<a, 2>>)' = Has(<<a, 2>>)
  BY <1>1, <1>3 DEF Own, Has
<1>13. Counted(a)'
  BY <1>1, <1>3, <1>5, <1>6, <1>8, <1>12 DEF Counted, Marked, Promoted
<1>14. marker[a] = None /\ \A b : OversStay(b)
  BY <1>1, OversSame DEF CountInv, Placed
<1> QED
  BY <1>1, <1>8, <1>10, <1>11, <1>13, <1>14, CountStep DEF Moves

(* The result that is filed has a marker.                                  *)
LEMMA RecordCounts ==
  ASSUME Inv, CountInv, NEW a \in Attempt, RecordResult(a) PROVE CountInv'
<1>1. /\ worker[a].pc = "record" /\ action' = [action EXCEPT !.result = worker[a].found]
      /\ worker' = [worker EXCEPT ![a] = Over("done")]
      /\ UNCHANGED <<plan, client, log, marker>>
  BY DEF RecordResult
<1>2. worker[a].found \in Attempt /\ marker[worker[a].found] # None
  BY <1>1 DEF CountInv, Placed
<1>3. action'.result = worker[a].found
      /\ action' = [token |-> action'.token, result |-> action'.result]
  BY <1>1 DEF CountInv, Kept
<1>4. Kept'
  BY <1>1, <1>2, <1>3 DEF CountInv, Kept
<1>5. Moves(a, "done", 1)
  BY <1>1, WorkerIsOver DEF Inv
<1>6. Placed(a)'
  BY <1>5 DEF Placed, Before, Moves
<1> QED
  BY <1>1, <1>4, <1>5, <1>6, OversSame, CountMove DEF Moves

(* Only the clients of the attempt that fails are cut off.                 *)
LEMMA FailCounts == ASSUME Inv, CountInv, NEW a \in Attempt, Fail(a) PROVE CountInv'
<1> DEFINE own == {r \in Running : r[1] = a}
<1>1. /\ CutOff(own) /\ worker' = [worker EXCEPT ![a] = Over("gone")]
      /\ UNCHANGED <<plan, marker, action>>
  BY DEF Fail
<1>2. Kept' /\ \A b \in Attempt : OversStay(b)
  <2>1. own \in SUBSET Running
    OBVIOUS
  <2> HIDE DEF own
  <2> QED
    BY <1>1, <2>1, CutOffCounts DEF CountInv
<1>3. Moves(a, "gone", 1)
  BY <1>1, WorkerIsOver DEF Inv
<1>4. Placed(a)'
  BY <1>3 DEF Placed, Before, Moves
<1> QED
  BY <1>1, <1>2, <1>3, <1>4, CountMove DEF Moves

(* A worker that dies leaves clients and logs as they are.                 *)
LEMMA CrashCounts == ASSUME Inv, CountInv, NEW a \in Attempt, Crash(a) PROVE CountInv'
<1>1. /\ worker' = [worker EXCEPT ![a] = Over("gone")]
      /\ UNCHANGED <<plan, client, log, marker, action>>
  BY DEF Crash
<1>2. Moves(a, "gone", 1)
  BY <1>1, WorkerIsOver DEF Inv
<1>3. Placed(a)'
  BY <1>2 DEF Placed, Before, Moves
<1> QED
  BY <1>1, <1>2, <1>3, OversSame, KeptSame, CountMove DEF CountInv, Moves

(* A step that leaves everything that is counted alone.                    *)
LEMMA StillCounts ==
  ASSUME CountInv, UNCHANGED <<plan, worker, client, log, marker, action>>
  PROVE  CountInv'
<1>1. Kept' /\ \A b : OversStay(b)
  BY KeptSame, OversSame DEF CountInv
<1>2. ASSUME NEW b \in Attempt PROVE Placed(b)'
  BY <1>1, PlacedStays DEF CountInv
<1>3. ASSUME NEW b \in Attempt, marker'[b] # None PROVE Counted(b)'
  BY <1>1, <1>3, CountedStays DEF CountInv
<1> QED
  BY <1>1, <1>2, <1>3 DEF CountInv

(* Every step keeps the invariant.                                         *)
LEMMA StepCounts == Inv /\ CountInv /\ [Next]_vars => CountInv'
<1> SUFFICES ASSUME Inv, CountInv, [Next]_vars PROVE CountInv'
  OBVIOUS
<1>1. CASE Expire
  BY <1>1, StillCounts DEF Expire
<1>2. CASE UNCHANGED vars
  BY <1>2, StillCounts DEF vars
<1> QED
  BY <1>1, <1>2, ClaimCounts, BeginCounts, SearchCounts, CleanCounts, StartCounts,
     ReadLogsCounts, CombineCounts, RecordCounts, FailCounts, CrashCounts,
     ClientEndsCounts DEF Next

(* Both invariants hold throughout.                                        *)
LEMMA CountsAreInvariant == Spec => [](Inv /\ CountInv)
BY InitInv, StepInv, InitCounts, StepCounts, PTL DEF Spec

(* For any number of attempts, any logs and any threshold, wherever        *)
(* workers die or oversleep: a marker counts every transaction of its own  *)
(* clients once and none of another attempt's, over the stages it says it  *)
(* ran, and these are two exactly when the prefix was promoted.            *)
THEOREM MarkersCountTheirOwn == Spec => []MarkerCountsItsOwn
<1>1. CountInv => MarkerCountsItsOwn
  <2> SUFFICES ASSUME CountInv PROVE MarkerCountsItsOwn
    OBVIOUS
  <2> DEFINE own(a, s) ==
        IF s \in 1..marker[a].stages THEN Count(Lines(log[<<a, s>>])) ELSE Count({})
  <2>1. ASSUME NEW a \in Attempt, marker[a] # None
        PROVE  /\ marker[a].transactions = own(a, 1).transactions + own(a, 2).transactions
               /\ marker[a].failures = own(a, 1).failures + own(a, 2).failures
               /\ \A s \in 1..marker[a].stages : client[<<a, s>>] = "over"
               /\ marker[a].stages = 2 <=> Len(plan) = 2 /\ Promoted(own(a, 1))
    <3>1. Counted(a) /\ marker[a].stages \in {1, 2}
      BY <2>1 DEF CountInv, Counted, Marker, Stage
    <3>2. own(a, 1) = Own(a, 1)
      BY <3>1 DEF Own
    <3>3. Count({}).transactions = 0 /\ Count({}).failures = 0
      BY WithOfNothing DEF Count
    <3>4. Own(a, 1).transactions \in Nat /\ Own(a, 1).failures \in Nat
      BY OwnTypes DEF CountInv, Stage
    <3>5. CASE marker[a].stages = 1
      <4>1. own(a, 2) = Count({})
        BY <3>5
      <4>2. \A s \in 1..marker[a].stages : s = 1
        BY <3>5
      <4> HIDE DEF own
      <4> QED
        BY <3>1, <3>2, <3>3, <3>4, <3>5, <4>1, <4>2 DEF Counted, Has
    <3>6. CASE marker[a].stages = 2
      <4>1. own(a, 2) = Own(a, 2)
        BY <3>6 DEF Own
      <4>2. \A s \in 1..marker[a].stages : s = 1 \/ s = 2
        BY <3>6
      <4> HIDE DEF own
      <4> QED
        BY <3>1, <3>2, <3>6, <4>1, <4>2 DEF Counted, Has
    <3> QED
      BY <3>1, <3>5, <3>6
  <2>2. action.result # None => marker[action.result] # None
    BY DEF CountInv, Kept
  <2> QED
    BY <2>1, <2>2 DEF MarkerCountsItsOwn
<1> QED
  BY <1>1, CountsAreInvariant, PTL

(* For any number of attempts and any logs whose files are in order: the   *)
(* readers of the logs of a stored measurement agree on every window, and  *)
(* the windows, what was logged after them and the lines without a latency *)
(* are together what its marker counts.                                    *)
THEOREM ReadersOfTheResultAgree == Spec => []WindowsAgree
<1>1. CountInv => WindowsAgree
  <2> SUFFICES ASSUME CountInv, action.result # None, Len(plan) = 1
               PROVE  WindowsAgree
    BY DEF WindowsAgree
  <2> DEFINE result == action.result
             lines == Lines(Files(result, 1))
  <2>1. result \in Attempt /\ marker[result] # None
    BY DEF CountInv, Kept
  <2>2. Counted(result) /\ marker[result].stages \in {1, 2}
    BY <2>1 DEF CountInv, Counted, Marker, Stage
  <2>3. /\ marker[result].transactions = Count(lines).transactions
        /\ marker[result].failures = Count(lines).failures
    BY <2>2 DEF Counted, Own, Files
  <2>4. Agree(lines)
    <3>1. log[<<result, 1>>] \in Seq(Seq(Line)) /\ InOrder(log[<<result, 1>>])
      BY <2>1, LogTypes DEF CountInv, Run, Stage
    <3> QED
      BY <3>1, ReadersAgree DEF Files
  <2> QED
    BY <2>3, <2>4 DEF WindowsAgree, Agree
<1> QED
  BY <1>1, CountsAreInvariant, PTL
=============================================================================
