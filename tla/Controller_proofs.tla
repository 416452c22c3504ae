------------------------- MODULE Controller_proofs -------------------------
(***************************************************************************)
(* Proofs about Controller for every set of callers, knobs and values: the *)
(* way back to the original settings always exists; if all callers retry   *)
(* one application, its snapshot is the original configuration; and for    *)
(* one caller besides, a rollback that is recorded is durable, and no step *)
(* makes the target run with half of what was asked for.                   *)
(***************************************************************************)
EXTENDS Controller, TLAPS

(* A call's local state changes as a whole and on its own.                 *)
LEMMA BecomesType ==
  ASSUME TypeOK, NEW c \in Caller, NEW r \in CallState,
         call' = [call EXCEPT ![c] = r]
  PROVE  /\ call' \in [Caller -> CallState]
         /\ call'[c] = r
         /\ \A d \in Caller \ {c} : call'[d] = call[d]
BY DEF TypeOK

(* A call that has ended.                                                  *)
LEMMA IdleType ==
  ASSUME NEW result \in {"none", "returned", "raised"}
  PROVE  /\ [Idle EXCEPT !.result = result] \in CallState
         /\ [Idle EXCEPT !.result = result].pc = "idle"
         /\ [Idle EXCEPT !.result = result].seen = None
         /\ Idle \in CallState /\ Idle.pc = "idle" /\ Idle.seen = None
BY DEF Idle, CallState, Position

(* An application's knobs and the settings it asks for.                    *)
LEMMA KnobsType ==
  ASSUME NEW a \in Application
  PROVE  Knobs(a) \subseteq Knob /\ Requested[a] \in Settings(a)
BY RequestedAssumption DEF Settings, Knobs

(* A call goes to another position.                                        *)
LEMMA GotoType ==
  ASSUME TypeOK, NEW c \in Caller, NEW pc \in Position, Goto(c, pc)
  PROVE  /\ call' \in [Caller -> CallState]
         /\ call'[c] = [call[c] EXCEPT !.pc = pc]
         /\ call'[c].pc = pc /\ call'[c].app = call[c].app
         /\ call'[c].seen = call[c].seen /\ call'[c].todo = call[c].todo
         /\ \A d \in Caller \ {c} : call'[d] = call[d]
<1>1. call[c] \in CallState /\ [call[c] EXCEPT !.pc = pc] \in CallState
  BY DEF TypeOK, CallState
<1>2. call' = [call EXCEPT ![c] = [call[c] EXCEPT !.pc = pc]]
  BY DEF Goto, TypeOK
<1>. HIDE DEF CallState
<1>3. /\ call' \in [Caller -> CallState]
      /\ call'[c] = [call[c] EXCEPT !.pc = pc]
      /\ \A d \in Caller \ {c} : call'[d] = call[d]
  BY <1>1, <1>2, BecomesType
<1>. QED BY <1>1, <1>3 DEF CallState

(* A call is about to write every knob of its application.                 *)
LEMMA GotoWriteType ==
  ASSUME TypeOK, NEW c \in Caller, NEW pc \in Position, GotoWrite(c, pc),
         call[c].app \in Application
  PROVE  /\ call' \in [Caller -> CallState]
         /\ call'[c].pc = pc /\ call'[c].app = call[c].app
         /\ call'[c].seen = None /\ call'[c].todo = Knobs(call[c].app)
         /\ \A d \in Caller \ {c} : call'[d] = call[d]
<1>. DEFINE r == [call[c] EXCEPT !.pc = pc, !.todo = Knobs(call[c].app),
                                 !.seen = None]
<1>1. call[c] \in CallState /\ Knobs(call[c].app) \in SUBSET Knob
  BY KnobsType DEF TypeOK
<1>2. r \in CallState
  BY <1>1 DEF CallState
<1>3. call' = [call EXCEPT ![c] = r]
  BY DEF GotoWrite, TypeOK
<1>4. r.pc = pc /\ r.app = call[c].app /\ r.seen = None
      /\ r.todo = Knobs(call[c].app)
  BY <1>1 DEF CallState
<1>. HIDE DEF r
<1>. QED BY <1>2, <1>3, <1>4, BecomesType

(* A call ends.                                                            *)
LEMMA FinishType ==
  ASSUME TypeOK, NEW c \in Caller, NEW result \in {"none", "returned", "raised"},
         Finish(c, result)
  PROVE  /\ call' \in [Caller -> CallState]
         /\ call'[c].pc = "idle" /\ call'[c].seen = None
         /\ \A d \in Caller \ {c} : call'[d] = call[d]
<1>. DEFINE r == [Idle EXCEPT !.result = result]
<1>1. r \in CallState /\ r.pc = "idle" /\ r.seen = None
  BY IdleType
<1>2. call' = [call EXCEPT ![c] = r]
  BY DEF Finish
<1>. HIDE DEF r
<1>. QED BY <1>1, <1>2, BecomesType

-----------------------------------------------------------------------------
(* The initial state.                                                      *)
LEMMA InitRecovery == Init => RecoveryInv
<1>. SUFFICES ASSUME Init PROVE RecoveryInv
  OBVIOUS
<1>1. Idle \in CallState /\ Idle.pc = "idle" /\ Idle.seen = None
  BY IdleType
<1>2. \A c \in Caller : call[c] = Idle
  BY DEF Init
<1>3. TypeOK
  BY <1>1, BootAssumption DEF Init, TypeOK
<1>4. \A c \in Caller : CallOK(c)
  BY <1>1, <1>2 DEF CallOK
<1>5. \A k \in Knob : Pristine(k)
  BY <1>1, <1>2 DEF Init, Pristine
<1>. QED BY <1>3, <1>4, <1>5 DEF RecoveryInv
-----------------------------------------------------------------------------
(* Rows are never deleted, snapshots never replaced.                       *)
RowsStay ==
  \A a \in Application :
    status[a] # "ABSENT" => status'[a] # "ABSENT" /\ snapshot'[a] = snapshot[a]

(* What any step of one call establishes: it moves to a position that fits *)
(* its row, the other calls stay where they are.                           *)
CallMoves(c) ==
  /\ call' \in [Caller -> CallState]
  /\ \A d \in Caller \ {c} : call'[d] = call[d]
  /\ CallOK(c)'
  /\ RowsStay
  /\ call'[c].pc \in {"lookup", "insert"} =>
       \/ call'[c].seen = Active(call'[c].app)
       \/ /\ call[c].pc = "lookup"
          /\ call'[c].seen = call[c].seen /\ call'[c].app = call[c].app

RowsType ==
  /\ snapshot' = [a \in Application |-> snapshot'[a]]
  /\ \A a \in Application :
       IF status'[a] = "ABSENT" THEN snapshot'[a] = None
                                ELSE snapshot'[a] \in Settings(a)
  /\ status' \in [Application -> {"ABSENT", "APPLYING", "VERIFIED", "FAILED",
                                  "ROLLED_BACK"}]
  /\ reverted' \subseteq Application

(* A write to the status column of an existing row.                        *)
LEMMA StatusRows ==
  ASSUME TypeOK, NEW a \in Application, status[a] # "ABSENT",
         NEW v \in {"APPLYING", "VERIFIED", "FAILED", "ROLLED_BACK"},
         status' = [status EXCEPT ![a] = v], UNCHANGED snapshot,
         reverted' \in {reverted, reverted \cup {a}}
  PROVE  RowsStay /\ RowsType
BY DEF TypeOK, RowsStay, RowsType

(* A step that leaves the rows alone.                                      *)
LEMMA SameRows ==
  ASSUME TypeOK, UNCHANGED rowVars
  PROVE  RowsStay /\ RowsType
BY DEF TypeOK, RowsStay, RowsType, rowVars

(* The steps of one call keep its position and its rows in order.          *)
LEMMA StepMoves ==
  ASSUME TypeOK, NEW c \in Caller, CallOK(c),
         Request(c) \/ Step(c) \/ Fault(c)
  PROVE  CallMoves(c) /\ RowsType
<1>. DEFINE a == call[c].app
<1>0. /\ call[c] \in CallState
      /\ call[c].pc \in Position
      /\ call[c].pc # "idle" => a \in Application
  BY DEF TypeOK, CallState, CallOK
<1>1. ASSUME NEW b \in Application, NEW force \in BOOLEAN, Apply(c, b, force)
      PROVE  CallMoves(c) /\ RowsType
  <2>. DEFINE r == [Idle EXCEPT !.pc = "discover", !.app = b, !.force = force]
  <2>1. r \in CallState /\ r.pc = "discover" /\ r.app = b /\ r.seen = None
    BY DEF Idle, CallState, Position
  <2>2. call' = [call EXCEPT ![c] = r]
    BY <1>1 DEF Apply
  <2>. HIDE DEF r
  <2>3. /\ call' \in [Caller -> CallState] /\ call'[c] = r
        /\ \A d \in Caller \ {c} : call'[d] = call[d]
    BY <2>1, <2>2, BecomesType
  <2>. QED BY <1>1, <2>1, <2>3, SameRows DEF Apply, CallMoves, CallOK
<1>2. ASSUME NEW b \in Application, Rollback(c, b)
      PROVE  CallMoves(c) /\ RowsType
  <2>. DEFINE r == [Idle EXCEPT !.pc = "find", !.app = b]
  <2>1. r \in CallState /\ r.pc = "find" /\ r.app = b /\ r.seen = None
    BY DEF Idle, CallState, Position
  <2>2. call' = [call EXCEPT ![c] = r]
    BY <1>2 DEF Rollback
  <2>. HIDE DEF r
  <2>3. /\ call' \in [Caller -> CallState] /\ call'[c] = r
        /\ \A d \in Caller \ {c} : call'[d] = call[d]
    BY <2>1, <2>2, BecomesType
  <2>. QED BY <1>2, <2>1, <2>3, SameRows DEF Rollback, CallMoves, CallOK
<1>3. CASE Discover(c)
  <2>. DEFINE r == [call[c] EXCEPT !.pc = "lookup", !.seen = Active(a)]
  <2>1. Active(a) \in Settings(a)
    BY <1>0, <1>3, KnobsType DEF Discover, Active, Settings, TypeOK
  <2>2. r \in CallState /\ r.pc = "lookup" /\ r.app = a /\ r.seen = Active(a)
    BY <1>0, <1>3, <2>1 DEF Discover, CallState, Position
  <2>3. call' = [call EXCEPT ![c] = r]
    BY <1>3 DEF Discover, TypeOK
  <2>. HIDE DEF r
  <2>4. /\ call' \in [Caller -> CallState] /\ call'[c] = r
        /\ \A d \in Caller \ {c} : call'[d] = call[d]
    BY <2>2, <2>3, BecomesType
  <2>. QED BY <1>0, <1>3, <2>1, <2>2, <2>4, SameRows
           DEF Discover, CallMoves, CallOK
<1>4. CASE Lookup(c)
  <2>1. RowsStay /\ RowsType
    BY <1>4, SameRows DEF Lookup
  <2>2. CASE status[a] = "ABSENT" /\ Goto(c, "insert")
    <3>1. "insert" \in Position
      BY DEF Position
    <3>. QED BY <1>0, <1>4, <2>1, <2>2, <3>1, GotoType DEF Lookup, CallMoves, CallOK
  <2>3. CASE status[a] # "ABSENT"
    <3>. DEFINE r == [call[c] EXCEPT !.pc = "compare", !.seen = None]
    <3>1. r \in CallState /\ r.pc = "compare" /\ r.app = a /\ r.seen = None
      BY <1>0 DEF CallState, Position
    <3>2. call' = [call EXCEPT ![c] = r]
      BY <1>4, <2>3 DEF Lookup, TypeOK
    <3>. HIDE DEF r
    <3>3. /\ call' \in [Caller -> CallState] /\ call'[c] = r
          /\ \A d \in Caller \ {c} : call'[d] = call[d]
      BY <3>1, <3>2, BecomesType
    <3>. QED BY <1>0, <1>4, <2>1, <2>3, <3>1, <3>3
             DEF Lookup, CallMoves, CallOK, RowsStay
  <2>. QED BY <1>4, <2>2, <2>3 DEF Lookup
<1>5. CASE Insert(c)
  <2>0. a \in Application /\ call[c].seen \in Settings(a)
    BY <1>0, <1>5 DEF Insert, CallOK
  <2>1. CASE status[a] = "ABSENT"
    <3>1. /\ snapshot' = [snapshot EXCEPT ![a] = call[c].seen]
          /\ status' = [status EXCEPT ![a] = "APPLYING"]
          /\ UNCHANGED reverted /\ GotoWrite(c, "write")
      BY <1>5, <2>1 DEF Insert
    <3>2. RowsStay /\ RowsType /\ status'[a] # "ABSENT"
      BY <2>0, <2>1, <3>1 DEF TypeOK, RowsStay, RowsType
    <3>3. "write" \in Position
      BY DEF Position
    <3>. QED BY <2>0, <3>1, <3>2, <3>3, GotoWriteType DEF CallMoves, CallOK
  <2>2. CASE status[a] # "ABSENT"
    <3>1. Finish(c, "raised") /\ UNCHANGED rowVars
      BY <1>5, <2>2 DEF Insert, rowVars
    <3>. QED BY <3>1, SameRows, FinishType DEF CallMoves, CallOK
  <2>. QED BY <2>1, <2>2
<1>6. CASE Compare(c)
  <2>1. RowsStay /\ RowsType /\ status'[a] # "ABSENT" /\ call[c].seen = None
    BY <1>6, SameRows DEF Compare, CallOK, rowVars
  <2>2. ASSUME NEW pc \in {"affirm", "reopen"}, Goto(c, pc)
        PROVE  CallMoves(c)
    <3>1. pc \in Position
      BY DEF Position
    <3>. QED BY <1>0, <1>6, <2>1, <2>2, <3>1, GotoType
             DEF Compare, CallMoves, CallOK
  <2>3. CASE call' = [call EXCEPT ![c].pc = "find", ![c].after = "reopen"]
    <3>. DEFINE r == [call[c] EXCEPT !.pc = "find", !.after = "reopen"]
    <3>1. r \in CallState /\ r.pc = "find" /\ r.app = a /\ r.seen = None
      BY <1>0, <2>1 DEF CallState, Position
    <3>2. call' = [call EXCEPT ![c] = r]
      BY <2>3 DEF TypeOK
    <3>. HIDE DEF r
    <3>3. /\ call' \in [Caller -> CallState] /\ call'[c] = r
          /\ \A d \in Caller \ {c} : call'[d] = call[d]
      BY <3>1, <3>2, BecomesType
    <3>. QED BY <1>0, <1>6, <2>1, <3>1, <3>3 DEF Compare, CallMoves, CallOK
  <2>. QED BY <1>6, <2>1, <2>2, <2>3 DEF Compare
<1>7. CASE Affirm(c) \/ Mark(c)
  <2>1. /\ a \in Application /\ status[a] # "ABSENT"
        /\ status' = [status EXCEPT ![a] = "VERIFIED"]
        /\ UNCHANGED <<snapshot, reverted>> /\ Finish(c, "returned")
    BY <1>0, <1>7 DEF Affirm, Mark, CallOK
  <2>2. RowsStay /\ RowsType
    BY <2>1, StatusRows
  <2>. QED BY <2>1, <2>2, FinishType DEF CallMoves, CallOK
<1>8. CASE Reopen(c)
  <2>1. /\ a \in Application /\ status[a] # "ABSENT"
        /\ status' = [status EXCEPT ![a] = "APPLYING"]
        /\ UNCHANGED <<snapshot, reverted>> /\ GotoWrite(c, "write")
    BY <1>0, <1>8 DEF Reopen, CallOK
  <2>2. RowsStay /\ RowsType /\ status'[a] # "ABSENT"
    BY <2>1, StatusRows DEF RowsStay
  <2>3. "write" \in Position
    BY DEF Position
  <2>. QED BY <2>1, <2>2, <2>3, GotoWriteType DEF CallMoves, CallOK
<1>9. ASSUME NEW pc \in {"write", "rewrite"}, NEW settings,
             NEW next \in {"activate", "reactivate"},
             SetSystem(c, pc, settings, next)
      PROVE  CallMoves(c) /\ RowsType
  <2>1. /\ a \in Application /\ status[a] # "ABSENT" /\ call[c].pc = pc
        /\ call[c].seen = None /\ call[c].todo \subseteq Knobs(a)
        /\ UNCHANGED rowVars
    BY <1>0, <1>9 DEF SetSystem, CallOK
  <2>2. PICK k \in call[c].todo :
          call' = [call EXCEPT ![c].todo = @ \ {k},
                     ![c].pc = IF call[c].todo = {k} THEN next ELSE pc]
    BY <1>9 DEF SetSystem
  <2>. DEFINE r == [call[c] EXCEPT !.todo = @ \ {k},
                      !.pc = IF call[c].todo = {k} THEN next ELSE pc]
  <2>3. /\ r \in CallState /\ r.pc \in {pc, next} /\ r.app = a
        /\ r.seen = None /\ r.todo \subseteq Knobs(a)
    BY <1>0, <2>1 DEF CallState, Position
  <2>4. call' = [call EXCEPT ![c] = r]
    BY <2>2 DEF TypeOK
  <2>. HIDE DEF r
  <2>5. /\ call' \in [Caller -> CallState] /\ call'[c] = r
        /\ \A d \in Caller \ {c} : call'[d] = call[d]
    BY <2>3, <2>4, BecomesType
  <2>. QED BY <2>1, <2>3, <2>5, SameRows DEF CallMoves, CallOK, rowVars
<1>10. ASSUME NEW pc \in {"verify", "reverify", "mark", "abort", "record"},
              Goto(c, pc), UNCHANGED rowVars,
              call[c].pc \in {"write", "activate", "reactivate", "verify",
                              "reverify", "mark"}
       PROVE  CallMoves(c) /\ RowsType
  <2>1. pc \in Position
    BY DEF Position
  <2>. QED BY <1>0, <1>10, <2>1, GotoType, SameRows DEF CallMoves, CallOK, rowVars
<1>11. CASE Write(c) \/ Rewrite(c)
  BY <1>9, <1>11 DEF Write, Rewrite
<1>12. CASE ActivateRequested(c) \/ Reactivate(c) \/ Verify(c)
  BY <1>10, <1>12 DEF ActivateRequested, Reactivate, Activate, Verify
<1>13. CASE Abort(c)
  <2>1. /\ a \in Application /\ status[a] # "ABSENT"
        /\ status' = [status EXCEPT ![a] = "FAILED"]
        /\ UNCHANGED <<snapshot, reverted>> /\ call[c].seen = None
    BY <1>0, <1>13 DEF Abort, CallOK
  <2>2. RowsStay /\ RowsType
    BY <2>1, StatusRows
  <2>. DEFINE r == [call[c] EXCEPT !.pc = "find", !.after = "raise"]
  <2>3. r \in CallState /\ r.pc = "find" /\ r.app = a /\ r.seen = None
    BY <1>0, <2>1 DEF CallState, Position
  <2>4. call' = [call EXCEPT ![c] = r]
    BY <1>13 DEF Abort, TypeOK
  <2>. HIDE DEF r
  <2>5. /\ call' \in [Caller -> CallState] /\ call'[c] = r
        /\ \A d \in Caller \ {c} : call'[d] = call[d]
    BY <2>3, <2>4, BecomesType
  <2>. QED BY <2>1, <2>2, <2>3, <2>5 DEF CallMoves, CallOK
<1>14. CASE Find(c)
  <2>1. /\ a \in Application /\ call[c].seen = None /\ UNCHANGED rowVars
        /\ "recheck" \in Position /\ "rewrite" \in Position
    BY <1>0, <1>14 DEF Find, CallOK, Position
  <2>2. CASE Finish(c, "raised")
    BY <2>1, <2>2, FinishType, SameRows DEF CallMoves, CallOK
  <2>3. CASE status[a] # "ABSENT" /\ Goto(c, "recheck")
    <3>1. /\ call' \in [Caller -> CallState]
          /\ call'[c].pc = "recheck" /\ call'[c].app = a /\ call'[c].seen = None
          /\ \A d \in Caller \ {c} : call'[d] = call[d]
      BY <2>1, <2>3, GotoType
    <3>. QED BY <2>1, <2>3, <3>1, SameRows DEF CallMoves, CallOK, rowVars
  <2>4. CASE status[a] # "ABSENT" /\ GotoWrite(c, "rewrite")
    BY <2>1, <2>4, GotoWriteType, SameRows DEF CallMoves, CallOK, rowVars
  <2>. QED BY <1>14, <2>2, <2>3, <2>4 DEF Find
<1>15. ASSUME RollbackReturns(c), RowsStay, RowsType, a \in Application,
              status[a] # "ABSENT", call[c].seen = None
       PROVE  CallMoves(c) /\ RowsType
  <2>1. \/ Finish(c, "returned") \/ Finish(c, "raised") \/ Goto(c, "reopen")
    BY <1>0, <1>15 DEF RollbackReturns, CallState
  <2>2. CASE Goto(c, "reopen")
    <3>1. "reopen" \in Position
      BY DEF Position
    <3>. QED BY <1>15, <2>2, <3>1, GotoType DEF CallMoves, CallOK, RowsStay
  <2>. QED BY <1>15, <2>1, <2>2, FinishType DEF CallMoves, CallOK
<1>16. CASE Recheck(c)
  <2>1. /\ a \in Application /\ call[c].seen = None /\ UNCHANGED rowVars
        /\ status[a] # "ABSENT" /\ "rewrite" \in Position
    BY <1>0, <1>16 DEF Recheck, CallOK, Position
  <2>2. CASE RollbackReturns(c)
    BY <1>15, <2>1, <2>2, SameRows
  <2>3. CASE GotoWrite(c, "rewrite")
    BY <2>1, <2>3, GotoWriteType, SameRows DEF CallMoves, CallOK, rowVars
  <2>. QED BY <1>16, <2>2, <2>3 DEF Recheck
<1>17. CASE Reverify(c)
  <2>1. UNCHANGED rowVars
    BY <1>17 DEF Reverify
  <2>2. CASE Finish(c, "raised")
    BY <2>1, <2>2, FinishType, SameRows DEF CallMoves, CallOK
  <2>. QED BY <1>10, <1>17, <2>1, <2>2 DEF Reverify
<1>18. CASE Record(c)
  <2>1. /\ a \in Application /\ status[a] # "ABSENT" /\ call[c].seen = None
        /\ status' = [status EXCEPT ![a] = "ROLLED_BACK"]
        /\ reverted' = reverted \cup {a} /\ UNCHANGED snapshot
        /\ RollbackReturns(c)
    BY <1>0, <1>18 DEF Record, CallOK
  <2>2. RowsStay /\ RowsType
    BY <2>1, StatusRows
  <2>. QED BY <1>15, <2>1, <2>2
<1>19. CASE Fault(c)
  <2>1. UNCHANGED rowVars
    BY <1>19 DEF Fault, TryRaises, CallRaises, Crash
  <2>2. CASE TryRaises(c)
    BY <1>10, <2>1, <2>2 DEF TryRaises
  <2>3. CASE CallRaises(c)
    BY <2>1, <2>3, FinishType, SameRows DEF CallRaises, CallMoves, CallOK
  <2>4. CASE Crash(c)
    <3>1. Idle \in CallState /\ Idle.pc = "idle" /\ Idle.seen = None
      BY IdleType
    <3>2. call' = [call EXCEPT ![c] = Idle]
      BY <2>4 DEF Crash
    <3>3. /\ call' \in [Caller -> CallState] /\ call'[c] = Idle
          /\ \A d \in Caller \ {c} : call'[d] = call[d]
      BY <3>1, <3>2, BecomesType
    <3>. QED BY <2>1, <3>1, <3>3, SameRows DEF CallMoves, CallOK
  <2>. QED BY <1>19, <2>2, <2>3, <2>4 DEF Fault
<1>. QED BY <1>1, <1>2, <1>3, <1>4, <1>5, <1>6, <1>7, <1>8, <1>11, <1>12,
            <1>13, <1>14, <1>16, <1>17, <1>18, <1>19 DEF Request, Step
-----------------------------------------------------------------------------
(* What a step of a call does to the target: nothing, one write to a knob  *)
(* of an application that has a row, or an activation of the file.         *)
LEMMA TargetStep ==
  ASSUME TypeOK, NEW c \in Caller, CallOK(c),
         Request(c) \/ Step(c) \/ Fault(c)
  PROVE  \/ UNCHANGED targetVars
         \/ /\ UNCHANGED active
            /\ \E k \in Knobs(call[c].app), v \in Value :
                 file' = [file EXCEPT ![k] = v]
            /\ call[c].app \in Application /\ status[call[c].app] # "ABSENT"
         \/ /\ UNCHANGED file
            /\ active' \in {Started, Reloaded}
<1>. DEFINE a == call[c].app
<1>1. ASSUME NEW pc \in {"write", "rewrite"}, NEW settings \in Settings(a),
             NEW next, SetSystem(c, pc, settings, next)
      PROVE  /\ UNCHANGED active
             /\ \E k \in Knobs(a), v \in Value : file' = [file EXCEPT ![k] = v]
             /\ a \in Application /\ status[a] # "ABSENT"
  <2>1. /\ a \in Application /\ status[a] # "ABSENT" /\ UNCHANGED active
        /\ call[c].todo \subseteq Knobs(a)
    BY <1>1 DEF SetSystem, CallOK
  <2>2. PICK k \in call[c].todo : file' = [file EXCEPT ![k] = settings[k]]
    BY <1>1 DEF SetSystem
  <2>3. settings[k] \in Value
    BY <2>1, <2>2 DEF Settings
  <2>. QED BY <2>1, <2>2, <2>3
<1>2. CASE Write(c)
  <2>1. a \in Application
    BY <1>2 DEF Write, SetSystem, CallOK
  <2>. QED BY <1>1, <1>2, <2>1, KnobsType DEF Write
<1>3. CASE Rewrite(c)
  <2>1. a \in Application /\ status[a] # "ABSENT"
    BY <1>3 DEF Rewrite, SetSystem, CallOK
  <2>2. snapshot[a] \in Settings(a)
    BY <2>1 DEF TypeOK
  <2>. QED BY <1>1, <1>3, <2>2 DEF Rewrite
<1>4. CASE ActivateRequested(c) \/ Reactivate(c)
  BY <1>4 DEF ActivateRequested, Reactivate, Activate
<1>5. CASE Request(c) \/ Fault(c)
  BY <1>5 DEF Request, Apply, Rollback, Fault, TryRaises, CallRaises, Crash
<1>. QED BY <1>2, <1>3, <1>4, <1>5
         DEF Step, Discover, Lookup, Insert, Compare, Affirm, Reopen, Verify,
             Mark, Abort, Find, Recheck, Reverify, Record

(* Rows are only added by the first INSERT of an application.              *)
LEMMA RowsStep ==
  ASSUME NEW c \in Caller, Request(c) \/ Step(c) \/ Fault(c),
         TypeOK, CallOK(c)
  PROVE  \A a \in Application : status'[a] # "ABSENT" /\ status[a] = "ABSENT" =>
           /\ call[c].pc = "insert" /\ a = call[c].app
           /\ snapshot'[a] = call[c].seen
<1>1. CASE Insert(c)
  BY <1>1 DEF Insert, TypeOK, CallOK
<1>2. CASE Affirm(c) \/ Reopen(c) \/ Mark(c) \/ Abort(c) \/ Record(c)
  BY <1>2 DEF Affirm, Reopen, Mark, Abort, Record, TypeOK, CallOK
<1>3. CASE Request(c) \/ Fault(c)
  BY <1>3 DEF Request, Apply, Rollback, Fault, TryRaises, CallRaises, Crash,
              rowVars
<1>. QED BY <1>1, <1>2, <1>3
         DEF Step, Discover, Lookup, Compare, Write, Rewrite, SetSystem,
             ActivateRequested, Reactivate, Activate, Verify, Find, Recheck,
             Reverify, rowVars

(* A knob nobody has saved has not been touched either.                    *)
LEMMA KnobStep ==
  ASSUME RecoveryInv, NEW c \in Caller, Request(c) \/ Step(c) \/ Fault(c),
         NEW k \in Knob
  PROVE  (Pristine(k) \/ Saved(k))'
<1>0. TypeOK /\ CallOK(c) /\ (Pristine(k) \/ Saved(k))
  BY DEF RecoveryInv
<1>1. CallMoves(c)
  BY <1>0, StepMoves
<1>2. CASE Saved(k)
  BY <1>1, <1>2 DEF Saved, CallMoves, RowsStay
<1>3. CASE Pristine(k) /\ ~Saved(k)
  <2>1. \A a \in Application : k \in Knobs(a) => status[a] = "ABSENT"
    BY <1>3 DEF Pristine, Saved
  <2>2. file'[k] = Boot[k]
    <3>1. CASE UNCHANGED file
      BY <1>3, <3>1 DEF Pristine
    <3>2. ASSUME NEW j \in Knobs(call[c].app), NEW v \in Value,
                 file' = [file EXCEPT ![j] = v],
                 call[c].app \in Application, status[call[c].app] # "ABSENT"
          PROVE  file'[k] = Boot[k]
      BY <1>0, <1>3, <2>1, <3>2 DEF Pristine, TypeOK
    <3>. QED BY <1>0, <3>1, <3>2, TargetStep DEF targetVars
  <2>3. active'[k] = Boot[k]
    <3>1. Started[k] = Boot[k] /\ Reloaded[k] = Boot[k]
      BY <1>3, ShownAssumption DEF Started, Reloaded, Pristine
    <3>. QED BY <1>0, <1>3, <3>1, TargetStep DEF targetVars, Pristine
  <2>4. \A d \in Caller :
          call'[d].pc \in {"lookup", "insert"} /\ k \in Knobs(call'[d].app) =>
            call'[d].seen[k] = Boot[k]
    BY <1>1, <1>3 DEF CallMoves, Pristine, Active
  <2>5. \A a \in Application :
          status'[a] # "ABSENT" /\ k \in Knobs(a) => snapshot'[a][k] = Boot[k]
    BY <1>0, <1>3, <2>1, RowsStep DEF Pristine
  <2>. QED BY <2>2, <2>3, <2>4, <2>5 DEF Pristine
<1>. QED BY <1>0, <1>2, <1>3

(* A restart of the target from outside changes no row and no call.        *)
LEMMA RestartStep ==
  ASSUME RecoveryInv, TargetRestarts
  PROVE  RecoveryInv'
<1>1. Started \in [Knob -> Value] /\ UNCHANGED <<file, rowVars, call>>
  BY ShownAssumption DEF RecoveryInv, TypeOK, Started, TargetRestarts
<1>2. TypeOK'
  BY <1>1 DEF RecoveryInv, TypeOK, TargetRestarts, rowVars
<1>3. ASSUME NEW c \in Caller PROVE CallOK(c)'
  BY <1>1 DEF RecoveryInv, CallOK, rowVars
<1>4. ASSUME NEW k \in Knob PROVE (Pristine(k) \/ Saved(k))'
  <2>1. CASE Saved(k)
    BY <1>1, <2>1 DEF Saved, rowVars
  <2>2. CASE Pristine(k)
    <3>1. active'[k] = Boot[k]
      BY <2>2, ShownAssumption DEF TargetRestarts, Started, Pristine
    <3>. QED BY <1>1, <2>2, <3>1 DEF Pristine, rowVars
  <2>. QED BY <2>1, <2>2 DEF RecoveryInv
<1>. QED BY <1>2, <1>3, <1>4 DEF RecoveryInv

(* Every step keeps the inductive invariant.                               *)
LEMMA RecoveryInvStep == RecoveryInv /\ [Next]_vars => RecoveryInv'
<1>. SUFFICES ASSUME RecoveryInv, [Next]_vars PROVE RecoveryInv'
  OBVIOUS
<1>1. CASE UNCHANGED vars
  BY <1>1 DEF vars, RecoveryInv, TypeOK, CallOK, Pristine, Saved
<1>2. ASSUME NEW c \in Caller, Request(c) \/ Step(c) \/ Fault(c)
      PROVE  RecoveryInv'
  <2>0. TypeOK /\ CallOK(c)
    BY DEF RecoveryInv
  <2>1. CallMoves(c) /\ RowsType
    BY <1>2, <2>0, StepMoves
  <2>2. file' \in [Knob -> Value] /\ active' \in [Knob -> Value]
    <3>1. Started \in [Knob -> Value] /\ Reloaded \in [Knob -> Value]
      BY <2>0, ShownAssumption DEF TypeOK, Started, Reloaded
    <3>. QED BY <1>2, <2>0, <3>1, TargetStep DEF TypeOK, targetVars
  <2>3. TypeOK'
    BY <2>1, <2>2 DEF TypeOK, CallMoves, RowsType
  <2>4. ASSUME NEW d \in Caller PROVE CallOK(d)'
    <3>1. CASE d = c
      BY <2>1, <3>1 DEF CallMoves
    <3>2. CASE d # c
      BY <2>1, <3>2 DEF RecoveryInv, CallMoves, RowsStay, CallOK
    <3>. QED BY <3>1, <3>2
  <2>. QED BY <1>2, <2>3, <2>4, KnobStep DEF RecoveryInv
<1>. QED BY <1>1, <1>2, RestartStep DEF Next

(* The inductive invariant holds always, restarts of the target included.  *)
THEOREM RecoveryInvIsInvariant == Spec => []RecoveryInv
BY InitRecovery, RecoveryInvStep, PTL DEF Spec

(* Every knob that differs from its original value, in the file or on the  *)
(* running target, has that value in the snapshot of some application.     *)
THEOREM WayBackExists == Spec => []LastKnownGoodSurvives
<1>1. RecoveryInv => LastKnownGoodSurvives
  BY DEF RecoveryInv, LastKnownGoodSurvives, Pristine, Saved
<1>. QED BY <1>1, RecoveryInvIsInvariant, PTL
-----------------------------------------------------------------------------
(***************************************************************************)
(* What holds for one application, and for one caller besides.             *)
(***************************************************************************)
OneApplication == \A a, b \in Application : a = b
OneCaller == \A c, d \in Caller : c = d

(* A knob is pristine or saved, and there is one snapshot to be saved in.  *)
LEMMA OriginalSnapshot ==
  ASSUME OneApplication, RecoveryInv
  PROVE  SnapshotIsOriginal
<1>. SUFFICES ASSUME NEW a \in Application, status[a] # "ABSENT"
              PROVE  snapshot[a] = [k \in Knobs(a) |-> Boot[k]]
  BY DEF SnapshotIsOriginal
<1>1. snapshot[a] \in Settings(a) /\ Knobs(a) \subseteq Knob
  BY KnobsType DEF RecoveryInv, TypeOK
<1>2. ASSUME NEW k \in Knobs(a) PROVE snapshot[a][k] = Boot[k]
  BY <1>1, <1>2 DEF RecoveryInv, Pristine, Saved, OneApplication
<1>. QED BY <1>1, <1>2 DEF Settings

(* However many callers retry one application, and wherever they crash,    *)
(* what was half applied never becomes the last-known-good: the row is     *)
(* inserted before the target is touched, and once                         *)
(* (apply_configuration).                                                  *)
THEOREM SnapshotsAreOriginal == OneApplication /\ Spec => []SnapshotIsOriginal
<1>1. OneApplication /\ Init => OneApplication /\ RecoveryInv
  BY InitRecovery
<1>2. OneApplication /\ RecoveryInv /\ [Next]_vars => (OneApplication /\ RecoveryInv)'
  BY RecoveryInvStep DEF OneApplication
<1>3. OneApplication /\ RecoveryInv => SnapshotIsOriginal
  BY OriginalSnapshot
<1>. QED BY <1>1, <1>2, <1>3, PTL DEF Spec

(* What one caller can rely on at its position: the status it wrote, and   *)
(* the settings it has written to the file.                                *)
InFile(a, settings) == \A k \in Knobs(a) : file[k] = settings[k]

Applying == {"write", "activate", "verify", "mark"}
Restoring == {"reactivate", "reverify", "record"}

PositionOK(l) ==
  /\ l.pc \in Applying => status[l.app] = "APPLYING"
  /\ l.pc = "write" => \A k \in Knobs(l.app) \ l.todo : file[k] = Requested[l.app][k]
  /\ l.pc = "activate" => InFile(l.app, Requested[l.app])
  /\ l.pc = "rewrite" => \A k \in Knobs(l.app) \ l.todo : file[k] = snapshot[l.app][k]
  /\ l.pc \in Restoring => InFile(l.app, snapshot[l.app])
  /\ l.pc = "record" => Active(l.app) = snapshot[l.app]

OneCallInv ==
  /\ RecoveryInv
  /\ \A c \in Caller : PositionOK(call[c])
  /\ RolledBackIsDurable

(* Activating a file that holds the snapshot makes the snapshot active.    *)
LEMMA Activated ==
  ASSUME OneApplication, RecoveryInv, NEW a \in Application, status[a] # "ABSENT",
         InFile(a, snapshot[a]),
         active' = Started \/ (~RequiresRestart(a) /\ active' = Reloaded)
  PROVE  Active(a)' = snapshot[a]
<1>1. snapshot[a] = [k \in Knobs(a) |-> Boot[k]] /\ Knobs(a) \subseteq Knob
  BY OriginalSnapshot, KnobsType DEF SnapshotIsOriginal
<1>2. ASSUME NEW k \in Knobs(a) PROVE active'[k] = Boot[k]
  <2>1. k \in Knob /\ file[k] = Boot[k] /\ Shown[Boot[k]] = Boot[k]
    BY <1>1, ShownAssumption DEF InFile
  <2>2. Started[k] = Boot[k]
    BY <2>1 DEF Started
  <2>3. CASE ~RequiresRestart(a) /\ active' = Reloaded
    BY <2>1, <2>3 DEF Reloaded, RequiresRestart
  <2>. QED BY <2>2, <2>3
<1>. QED BY <1>1, <1>2 DEF Active, Knobs

(* A step to a position that asks for nothing, or to the start of a loop.  *)
LEMMA CallRests ==
  ASSUME OneApplication, OneCaller, OneCallInv, NEW c \in Caller, CallMoves(c),
         RecoveryInv', UNCHANGED targetVars,
         \/ call'[c].pc \notin Applying \cup Restoring \cup {"rewrite"}
         \/ call'[c].pc = "write" /\ status'[call'[c].app] = "APPLYING"
              /\ call'[c].todo = Knobs(call'[c].app)
         \/ call'[c].pc = "rewrite" /\ call'[c].todo = Knobs(call'[c].app),
         \A a \in Application : status'[a] = "ROLLED_BACK" => status[a] = "ROLLED_BACK"
  PROVE  OneCallInv'
<1>1. PositionOK(call[c])'
  BY DEF PositionOK, Applying, Restoring
<1>2. \A d \in Caller : PositionOK(call[d])'
  BY <1>1 DEF OneCaller
<1>3. RolledBackIsDurable'
  BY DEF OneCallInv, RolledBackIsDurable, CallMoves, RowsStay, targetVars, Active
<1>. QED BY <1>2, <1>3 DEF OneCallInv

(* The steps that neither write to the target nor end a rollback.          *)
LEMMA PassiveStep ==
  ASSUME OneApplication, OneCaller, OneCallInv, NEW c \in Caller, CallMoves(c),
         RecoveryInv',
         \/ Request(c) \/ Fault(c)
         \/ Discover(c) \/ Lookup(c) \/ Insert(c) \/ Compare(c) \/ Affirm(c)
         \/ Reopen(c) \/ Mark(c) \/ Abort(c) \/ Find(c) \/ Recheck(c)
  PROVE  OneCallInv'
<1>. DEFINE Rests == call'[c].pc \notin Applying \cup Restoring \cup {"rewrite"}
            Same == \A a \in Application : status'[a] = "ROLLED_BACK" => status[a] = "ROLLED_BACK"
<1>0. /\ TypeOK /\ CallOK(c) /\ call[c] \in CallState
      /\ call[c].pc # "idle" => call[c].app \in Application
  BY DEF OneCallInv, RecoveryInv, TypeOK, CallOK
<1>1. ASSUME NEW pc \in Position \ (Applying \cup Restoring \cup {"rewrite"}), Goto(c, pc)
      PROVE  Rests
  BY <1>0, <1>1, GotoType
<1>2. ASSUME NEW result \in {"none", "returned", "raised"}, Finish(c, result)
      PROVE  Rests
  BY <1>0, <1>2, FinishType DEF Applying, Restoring
<1>3. ASSUME NEW r, call' = [call EXCEPT ![c] = r],
             r.pc \notin Applying \cup Restoring \cup {"rewrite"}
      PROVE  Rests
  BY <1>0, <1>3 DEF TypeOK
<1>4. CASE Request(c)
  <2>1. ASSUME NEW b \in Application, Rollback(c, b) PROVE Rests
    <3>. DEFINE r == [Idle EXCEPT !.pc = "find", !.app = b]
    <3>1. r.pc = "find" /\ call' = [call EXCEPT ![c] = r]
      BY <2>1 DEF Rollback, Idle
    <3>. HIDE DEF r
    <3>. QED BY <1>3, <3>1 DEF Applying, Restoring
  <2>2. ASSUME NEW b \in Application, NEW force \in BOOLEAN, Apply(c, b, force) PROVE Rests
    <3>. DEFINE r == [Idle EXCEPT !.pc = "discover", !.app = b, !.force = force]
    <3>1. r.pc = "discover" /\ call' = [call EXCEPT ![c] = r]
      BY <2>2 DEF Apply, Idle
    <3>. HIDE DEF r
    <3>. QED BY <1>3, <3>1 DEF Applying, Restoring
  <2>3. Rests
    BY <1>4, <2>1, <2>2 DEF Request
  <2>. QED BY <1>4, <2>3, CallRests DEF Request, Rollback, Apply, rowVars
<1>5. CASE Fault(c)
  <2>1. CASE TryRaises(c)
    <3>1. Goto(c, "abort") /\ "abort" \in Position \ (Applying \cup Restoring \cup {"rewrite"})
      BY <2>1 DEF TryRaises, Position, Applying, Restoring
    <3>. QED BY <1>1, <2>1, <3>1, CallRests DEF TryRaises, rowVars
  <2>2. CASE CallRaises(c)
    BY <1>2, <2>2, CallRests DEF CallRaises, rowVars
  <2>3. CASE Crash(c)
    <3>1. Rests
      BY <1>3, <2>3 DEF Crash, Idle, Applying, Restoring
    <3>. QED BY <2>3, <3>1, CallRests DEF Crash, rowVars
  <2>. QED BY <1>5, <2>1, <2>2, <2>3 DEF Fault
<1>6. CASE Discover(c)
  <2>1. Rests
    BY <1>0, <1>6 DEF Discover, TypeOK, CallState, Applying, Restoring
  <2>. QED BY <1>6, <2>1, CallRests DEF Discover, rowVars
<1>7. CASE Lookup(c)
  <2>1. CASE Goto(c, "insert")
    <3>1. "insert" \in Position \ (Applying \cup Restoring \cup {"rewrite"})
      BY DEF Position, Applying, Restoring
    <3>. QED BY <1>1, <1>7, <2>1, <3>1, CallRests DEF Lookup, rowVars
  <2>2. CASE call' = [call EXCEPT ![c].pc = "compare", ![c].seen = None]
    <3>1. Rests
      BY <1>0, <2>2 DEF TypeOK, CallState, Applying, Restoring
    <3>. QED BY <1>7, <3>1, CallRests DEF Lookup, rowVars
  <2>. QED BY <1>7, <2>1, <2>2 DEF Lookup
<1>8. CASE Insert(c)
  <2>1. CASE status[call[c].app] = "ABSENT"
    <3>1. /\ GotoWrite(c, "write") /\ status' = [status EXCEPT ![call[c].app] = "APPLYING"]
          /\ call[c].app \in Application /\ "write" \in Position /\ UNCHANGED targetVars
      BY <1>0, <1>8, <2>1 DEF Insert, Position
    <3>2. /\ call'[c].pc = "write" /\ call'[c].app = call[c].app
          /\ call'[c].todo = Knobs(call[c].app)
      BY <1>0, <3>1, GotoWriteType
    <3>3. status'[call[c].app] = "APPLYING" /\ Same
      BY <1>0, <3>1 DEF TypeOK
    <3>. QED BY <3>1, <3>2, <3>3, CallRests
  <2>2. CASE status[call[c].app] # "ABSENT"
    BY <1>2, <1>8, <2>2, CallRests DEF Insert
  <2>. QED BY <2>1, <2>2
<1>9. CASE Compare(c)
  <2>1. ASSUME NEW pc \in {"affirm", "reopen"}, Goto(c, pc) PROVE Rests
    <3>1. pc \in Position \ (Applying \cup Restoring \cup {"rewrite"})
      BY DEF Position, Applying, Restoring
    <3>. QED BY <1>1, <2>1, <3>1
  <2>2. CASE call' = [call EXCEPT ![c].pc = "find", ![c].after = "reopen"]
    <3>1. Rests
      BY <1>0, <2>2 DEF TypeOK, CallState, Applying, Restoring
    <3>. QED BY <1>9, <3>1, CallRests DEF Compare, rowVars
  <2>3. CASE Goto(c, "affirm") \/ Goto(c, "reopen")
    BY <1>9, <2>1, <2>3, CallRests DEF Compare, rowVars
  <2>. QED BY <1>9, <2>2, <2>3 DEF Compare
<1>10. CASE Affirm(c) \/ Mark(c)
  <2>1. Finish(c, "returned") /\ UNCHANGED targetVars
        /\ status' = [status EXCEPT ![call[c].app] = "VERIFIED"]
    BY <1>10 DEF Affirm, Mark
  <2>2. Same
    BY <1>0, <2>1 DEF TypeOK
  <2>. QED BY <1>2, <2>1, <2>2, CallRests
<1>11. CASE Reopen(c)
  <2>1. /\ GotoWrite(c, "write") /\ status' = [status EXCEPT ![call[c].app] = "APPLYING"]
        /\ call[c].app \in Application /\ "write" \in Position /\ UNCHANGED targetVars
    BY <1>0, <1>11 DEF Reopen, Position
  <2>2. /\ call'[c].pc = "write" /\ call'[c].app = call[c].app
        /\ call'[c].todo = Knobs(call[c].app)
    BY <1>0, <2>1, GotoWriteType
  <2>3. status'[call[c].app] = "APPLYING" /\ Same
    BY <1>0, <2>1 DEF TypeOK
  <2>. QED BY <2>1, <2>2, <2>3, CallRests
<1>12. CASE Abort(c)
  <2>1. Rests
    BY <1>0, <1>12 DEF Abort, TypeOK, CallState, Applying, Restoring
  <2>2. Same /\ UNCHANGED targetVars
    BY <1>0, <1>12 DEF Abort, TypeOK
  <2>. QED BY <2>1, <2>2, CallRests
<1>13. ASSUME GotoWrite(c, "rewrite"), UNCHANGED <<targetVars, rowVars>>, call[c].pc # "idle"
       PROVE  OneCallInv'
  <2>1. "rewrite" \in Position /\ call[c].app \in Application
    BY <1>0, <1>13 DEF Position
  <2>2. call'[c].pc = "rewrite" /\ call'[c].todo = Knobs(call'[c].app)
    BY <1>0, <1>13, <2>1, GotoWriteType
  <2>. QED BY <1>13, <2>2, CallRests DEF rowVars
<1>14. CASE Find(c)
  <2>1. CASE Goto(c, "recheck")
    <3>1. "recheck" \in Position \ (Applying \cup Restoring \cup {"rewrite"})
      BY DEF Position, Applying, Restoring
    <3>. QED BY <1>1, <1>14, <2>1, <3>1, CallRests DEF Find, rowVars
  <2>2. CASE Finish(c, "raised")
    BY <1>2, <1>14, <2>2, CallRests DEF Find, rowVars
  <2>. QED BY <1>13, <1>14, <2>1, <2>2 DEF Find
<1>15. CASE Recheck(c)
  <2>1. ASSUME RollbackReturns(c) PROVE Rests
    <3>1. "reopen" \in Position \ (Applying \cup Restoring \cup {"rewrite"})
      BY DEF Position, Applying, Restoring
    <3>. QED BY <1>0, <1>1, <1>2, <2>1, <3>1 DEF RollbackReturns, CallState
  <2>2. CASE RollbackReturns(c)
    BY <1>15, <2>1, <2>2, CallRests DEF Recheck, rowVars
  <2>. QED BY <1>13, <1>15, <2>2 DEF Recheck
<1>. QED BY <1>4, <1>5, <1>6, <1>7, <1>8, <1>9, <1>10, <1>11, <1>12, <1>14, <1>15

(* An ALTER SYSTEM takes one knob off the list.                            *)
LEMMA OneKnobWritten ==
  ASSUME TypeOK, NEW c \in Caller, NEW pc \in {"write", "rewrite"},
         NEW next \in {"activate", "reactivate"}, NEW settings,
         SetSystem(c, pc, settings, next), call[c].app \in Application,
         call[c].todo \subseteq Knobs(call[c].app),
         \A k \in Knobs(call[c].app) \ call[c].todo : file[k] = settings[k]
  PROVE  /\ call'[c].app = call[c].app
         /\ \/ /\ call'[c].pc = pc
               /\ \A k \in Knobs(call[c].app) \ call'[c].todo : file'[k] = settings[k]
            \/ /\ call'[c].pc = next
               /\ \A k \in Knobs(call[c].app) : file'[k] = settings[k]
         /\ \A k \in Knobs(call[c].app) : file'[k] = settings[k] \/ file'[k] = file[k]
<1>. DEFINE a == call[c].app
<1>1. PICK k \in call[c].todo :
        /\ file' = [file EXCEPT ![k] = settings[k]]
        /\ call' = [call EXCEPT ![c].todo = @ \ {k},
                      ![c].pc = IF call[c].todo = {k} THEN next ELSE pc]
  BY DEF SetSystem
<1>2. k \in Knob /\ file \in [Knob -> Value] /\ Knobs(a) \subseteq Knob /\ call[c] \in CallState
  BY <1>1, KnobsType DEF TypeOK, CallState
<1>3. file'[k] = settings[k] /\ \A j \in Knobs(a) : j # k => file'[j] = file[j]
  BY <1>1, <1>2
<1>4. /\ call'[c].app = a /\ call'[c].todo = call[c].todo \ {k}
      /\ call'[c].pc = IF call[c].todo = {k} THEN next ELSE pc
  BY <1>1, <1>2 DEF TypeOK, CallState
<1>. HIDE DEF a
<1>5. \A j \in Knobs(a) \ (call[c].todo \ {k}) : file'[j] = settings[j]
  BY <1>3 DEF a
<1>6. CASE call[c].todo = {k}
  <2>1. \A j \in Knobs(a) : file'[j] = settings[j]
    BY <1>5, <1>6
  <2>. QED BY <1>3, <1>4, <1>6, <2>1 DEF a
<1>7. CASE call[c].todo # {k}
  BY <1>3, <1>4, <1>5, <1>7 DEF a
<1>. QED BY <1>6, <1>7

(* The steps that write, activate and look at the result.                  *)
LEMMA ActiveStep ==
  ASSUME OneApplication, OneCaller, OneCallInv, NEW c \in Caller, CallMoves(c),
         RecoveryInv',
         \/ Write(c) \/ ActivateRequested(c) \/ Verify(c)
         \/ Rewrite(c) \/ Reactivate(c) \/ Reverify(c) \/ Record(c)
  PROVE  OneCallInv'
<1>a. PICK a : a = call[c].app
  OBVIOUS
<1>0. /\ a = call[c].app /\ TypeOK /\ CallOK(c) /\ call[c] \in CallState /\ RecoveryInv
      /\ a \in Application /\ status[a] # "ABSENT" /\ snapshot'[a] = snapshot[a]
      /\ PositionOK(call[c]) /\ \A b \in Application : b = a
  BY <1>a DEF OneCallInv, RecoveryInv, TypeOK, CallOK, CallMoves, RowsStay, OneApplication,
         Write, Rewrite, SetSystem, ActivateRequested, Reactivate, Activate, Verify,
         Reverify, Record
<1>1. ASSUME PositionOK(call[c])', status'[a] = "ROLLED_BACK" =>
                                      Active(a)' = snapshot[a] /\ InFile(a, snapshot[a])'
      PROVE  OneCallInv'
  <2>1. \A d \in Caller : PositionOK(call[d])'
    BY <1>1 DEF OneCaller
  <2>2. RolledBackIsDurable'
    BY <1>0, <1>1 DEF RolledBackIsDurable, InFile, Knobs, Active
  <2>. QED BY <2>1, <2>2 DEF OneCallInv
<1>2. status[a] = "ROLLED_BACK" => Active(a) = snapshot[a] /\ InFile(a, snapshot[a])
  BY <1>0 DEF OneCallInv, RolledBackIsDurable, InFile
<1>3. ASSUME NEW pc \in Position, Goto(c, pc)
      PROVE  call'[c].pc = pc /\ call'[c].app = a
  BY <1>0, <1>3, GotoType
<1>4. CASE Write(c)
  <2>1. /\ SetSystem(c, "write", Requested[a], "activate") /\ UNCHANGED <<active, rowVars>>
        /\ call[c].pc = "write" /\ call[c].todo \subseteq Knobs(a)
    BY <1>0, <1>4 DEF Write, SetSystem, CallOK
  <2>2. /\ status[a] = "APPLYING" /\ \A k \in Knobs(a) \ call[c].todo : file[k] = Requested[a][k]
    BY <1>0, <2>1 DEF PositionOK, Applying
  <2>3. /\ call'[c].app = a
        /\ \/ call'[c].pc = "write" /\ \A k \in Knobs(a) \ call'[c].todo : file'[k] = Requested[a][k]
           \/ call'[c].pc = "activate" /\ \A k \in Knobs(a) : file'[k] = Requested[a][k]
    BY <1>0, <2>1, <2>2, OneKnobWritten
  <2>4. PositionOK(call[c])'
    BY <2>1, <2>2, <2>3 DEF PositionOK, Applying, Restoring, InFile, Knobs, rowVars
  <2>. QED BY <1>1, <2>1, <2>2, <2>4 DEF rowVars
<1>5. CASE ActivateRequested(c) \/ Verify(c)
  <2>1. PICK pc \in {"verify", "mark", "abort"} : Goto(c, pc)
    BY <1>5 DEF ActivateRequested, Activate, Verify
  <2>2. call[c].pc \in Applying /\ UNCHANGED rowVars
    BY <1>5 DEF ActivateRequested, Activate, Verify, Applying
  <2>3. status'[a] = "APPLYING"
    BY <1>0, <2>2 DEF PositionOK, rowVars
  <2>4. call'[c].pc = pc /\ call'[c].app = a
    BY <1>3, <2>1 DEF Position
  <2>5. PositionOK(call[c])'
    BY <2>3, <2>4 DEF PositionOK, Applying, Restoring
  <2>. QED BY <1>1, <2>3, <2>5
<1>6. CASE Rewrite(c)
  <2>1. /\ SetSystem(c, "rewrite", snapshot[a], "reactivate") /\ UNCHANGED <<active, rowVars>>
        /\ call[c].pc = "rewrite" /\ call[c].todo \subseteq Knobs(a)
    BY <1>0, <1>6 DEF Rewrite, SetSystem, CallOK
  <2>2. \A k \in Knobs(a) \ call[c].todo : file[k] = snapshot[a][k]
    BY <1>0, <2>1 DEF PositionOK
  <2>3. /\ call'[c].app = a
        /\ \/ call'[c].pc = "rewrite" /\ \A k \in Knobs(a) \ call'[c].todo : file'[k] = snapshot[a][k]
           \/ call'[c].pc = "reactivate" /\ \A k \in Knobs(a) : file'[k] = snapshot[a][k]
        /\ \A k \in Knobs(a) : file'[k] = snapshot[a][k] \/ file'[k] = file[k]
    BY <1>0, <2>1, <2>2, OneKnobWritten
  <2>4. PositionOK(call[c])'
    BY <1>0, <2>1, <2>3 DEF PositionOK, Applying, Restoring, InFile, Knobs, rowVars
  <2>5. status'[a] = "ROLLED_BACK" => Active(a)' = snapshot[a] /\ InFile(a, snapshot[a])'
    BY <1>0, <1>2, <2>1, <2>3 DEF Active, InFile, Knobs, rowVars
  <2>. QED BY <1>1, <2>4, <2>5
<1>7. CASE Reactivate(c)
  <2>1. /\ call[c].pc = "reactivate" /\ UNCHANGED <<file, rowVars>> /\ Goto(c, "reverify")
        /\ active' = IF RequiresRestart(a) THEN Started ELSE Reloaded
    BY <1>0, <1>7 DEF Reactivate, Activate
  <2>2. InFile(a, snapshot[a])
    BY <1>0, <2>1 DEF PositionOK, Restoring
  <2>3. Active(a)' = snapshot[a]
    BY <1>0, <2>1, <2>2, Activated
  <2>4. InFile(a, snapshot[a])'
    BY <1>0, <2>1, <2>2 DEF InFile, Knobs
  <2>5. call'[c].pc = "reverify" /\ call'[c].app = a
    BY <1>3, <2>1 DEF Position
  <2>6. PositionOK(call[c])'
    BY <2>4, <2>5 DEF PositionOK, Applying, Restoring
  <2>. QED BY <1>1, <2>3, <2>4, <2>6
<1>8. CASE Reverify(c)
  <2>0. InFile(a, snapshot[a]) /\ UNCHANGED <<targetVars, rowVars>>
    BY <1>0, <1>8 DEF Reverify, PositionOK, Restoring
  <2>1. InFile(a, snapshot[a])' /\ Active(a)' = Active(a)
    BY <2>0 DEF InFile, Knobs, Active, targetVars, rowVars
  <2>2. CASE Active(a) = snapshot[a] /\ Goto(c, "record")
    <3>1. call'[c].pc = "record" /\ call'[c].app = a
      BY <1>3, <2>2 DEF Position
    <3>2. PositionOK(call[c])'
      BY <1>0, <2>1, <2>2, <3>1 DEF PositionOK, Applying, Restoring
    <3>. QED BY <1>1, <2>1, <2>2, <3>2
  <2>3. CASE Finish(c, "raised")
    <3>1. call'[c].pc = "idle"
      BY <1>0, <2>3, FinishType
    <3>2. PositionOK(call[c])'
      BY <3>1 DEF PositionOK, Applying, Restoring
    <3>. QED BY <1>1, <1>2, <2>0, <2>1, <3>2 DEF rowVars
  <2>. QED BY <1>0, <1>8, <2>2, <2>3 DEF Reverify
<1>9. CASE Record(c)
  <2>1. /\ InFile(a, snapshot[a]) /\ Active(a) = snapshot[a]
        /\ UNCHANGED <<targetVars, snapshot>> /\ RollbackReturns(c)
    BY <1>0, <1>9 DEF Record, PositionOK, Restoring
  <2>2. InFile(a, snapshot[a])' /\ Active(a)' = snapshot[a]
    BY <2>1 DEF InFile, Knobs, Active, targetVars
  <2>3. call'[c].pc \in {"idle", "reopen"}
    <3>1. \/ Finish(c, "returned") \/ Finish(c, "raised") \/ Goto(c, "reopen")
      BY <1>0, <2>1 DEF RollbackReturns, CallState
    <3>. QED BY <1>0, <1>3, <3>1, FinishType DEF Position
  <2>4. PositionOK(call[c])'
    BY <2>3 DEF PositionOK, Applying, Restoring
  <2>. QED BY <1>1, <2>2, <2>4
<1>. QED BY <1>4, <1>5, <1>6, <1>7, <1>8, <1>9

(* A restart of the target finds the file as the rollback left it.         *)
LEMMA OneCallRestart ==
  ASSUME OneApplication, OneCallInv, TargetRestarts, RecoveryInv'
  PROVE  OneCallInv'
<1>1. active' = Started /\ UNCHANGED <<file, rowVars, call>>
  BY DEF TargetRestarts
<1>2. ASSUME NEW a \in Application, status[a] # "ABSENT", InFile(a, snapshot[a])
      PROVE  Active(a)' = snapshot[a]
  BY <1>1, <1>2, Activated DEF OneCallInv
<1>3. ASSUME NEW c \in Caller PROVE PositionOK(call[c])'
  <2>1. CASE call[c].pc = "record"
    <3>1. call[c].app \in Application /\ status[call[c].app] # "ABSENT"
      BY <2>1 DEF OneCallInv, RecoveryInv, CallOK
    <3>2. InFile(call[c].app, snapshot[call[c].app])
      BY <2>1 DEF OneCallInv, PositionOK, Restoring
    <3>3. Active(call[c].app)' = snapshot[call[c].app]
      <4>1. PICK a : a = call[c].app
        OBVIOUS
      <4>2. Active(a)' = snapshot[a]
        BY <1>2, <3>1, <3>2, <4>1
      <4>. QED BY <1>1, <4>1, <4>2 DEF Active, Knobs
    <3>. QED BY <1>1, <2>1, <3>2, <3>3
             DEF PositionOK, Applying, Restoring, InFile, Knobs, rowVars
  <2>2. CASE call[c].pc # "record"
    <3>1. PositionOK(call[c])
      BY DEF OneCallInv
    <3>. QED BY <1>1, <2>2, <3>1
             DEF PositionOK, Applying, Restoring, InFile, Knobs, rowVars
  <2>. QED BY <2>1, <2>2
<1>4. ASSUME NEW a \in Application, status'[a] = "ROLLED_BACK"
      PROVE  Active(a)' = snapshot'[a] /\ \A k \in Knobs(a) : file'[k] = snapshot'[a][k]
  <2>1. status[a] = "ROLLED_BACK" /\ InFile(a, snapshot[a])
    BY <1>1, <1>4 DEF OneCallInv, RolledBackIsDurable, InFile, rowVars
  <2>. QED BY <1>1, <1>2, <2>1 DEF InFile, rowVars
<1>5. RolledBackIsDurable'
  BY <1>4 DEF RolledBackIsDurable, Active, Knobs
<1>. QED BY <1>3, <1>5 DEF OneCallInv

(* Every step of the one caller, and of the target, keeps the invariant,   *)
(* ...                                                                     *)
LEMMA OneCallStep ==
  ASSUME OneApplication, OneCaller, OneCallInv, [Next]_vars
  PROVE  OneCallInv'
<1>1. RecoveryInv'
  BY RecoveryInvStep DEF OneCallInv
<1>2. CASE UNCHANGED vars
  BY <1>1, <1>2 DEF OneCallInv, PositionOK, RolledBackIsDurable, InFile, Active, Knobs, vars
<1>3. ASSUME NEW c \in Caller, Request(c) \/ Step(c) \/ Fault(c)
      PROVE  OneCallInv'
  <2>1. CallMoves(c)
    BY <1>3, StepMoves DEF OneCallInv, RecoveryInv
  <2>. QED BY <1>1, <1>3, <2>1, PassiveStep, ActiveStep DEF Step
<1>4. CASE TargetRestarts
  BY <1>1, <1>4, OneCallRestart
<1>. QED BY <1>2, <1>3, <1>4 DEF Next

(* ... so it holds always.                                                 *)
LEMMA OneCallHolds == OneApplication /\ OneCaller /\ Spec => [](OneApplication /\ OneCaller /\ OneCallInv)
<1>1. OneApplication /\ OneCaller /\ Init => OneApplication /\ OneCaller /\ OneCallInv
  BY InitRecovery
     DEF Init, OneCallInv, PositionOK, RolledBackIsDurable, Idle, Applying, Restoring
<1>2. OneApplication /\ OneCaller /\ OneCallInv /\ [Next]_vars
        => (OneApplication /\ OneCaller /\ OneCallInv)'
  BY OneCallStep DEF OneApplication, OneCaller
<1>. QED BY <1>1, <1>2, PTL DEF Spec

(* With one caller and one application, a status of ROLLED_BACK means that *)
(* file and server have the snapshot's settings, wherever the calls before *)
(* died: rollback_configuration writes every setting before it restarts,   *)
(* and the status of an application that is being applied says so.         *)
THEOREM RollbacksAreDurable == OneApplication /\ OneCaller /\ Spec => []RolledBackIsDurable
<1>1. OneApplication /\ OneCaller /\ OneCallInv => RolledBackIsDurable
  BY DEF OneCallInv
<1>. QED BY <1>1, OneCallHolds, PTL

(* A call of theirs never makes the target run with a mixture: what failed *)
(* calls left half-written only becomes active together with the rest      *)
(* (_set_system before _activate).                                         *)
THEOREM ConfigurationsAreWhole == OneApplication /\ OneCaller /\ Spec => ActivatesWhole
<1>. DEFINE Whole == active' # active /\ call' # call =>
              \A a \in Application :
                Active(a)' \in {snapshot[a], [k \in Knobs(a) |-> Shown[Requested[a][k]]]}
<1>1. ASSUME OneApplication, OneCaller, OneCallInv, [Next]_vars PROVE [Whole]_vars
  <2>0. SUFFICES ASSUME active' # active, call' # call, NEW a \in Application
                 PROVE  Active(a)' \in {snapshot[a], [k \in Knobs(a) |-> Shown[Requested[a][k]]]}
    OBVIOUS
  <2>1. PICK c \in Caller : ActivateRequested(c) \/ Reactivate(c)
    BY <1>1, <2>0
       DEF Next, vars, targetVars, TargetRestarts, Request, Apply, Rollback, Fault, TryRaises,
           CallRaises, Crash, Step, Discover, Lookup, Insert, Compare, Affirm, Reopen, Write,
           Rewrite, SetSystem, Verify, Mark, Abort, Find, Recheck, Reverify, Record
  <2>2. call[c].app = a /\ status[a] # "ABSENT" /\ PositionOK(call[c]) /\ RecoveryInv
    BY <1>1, <2>1 DEF OneCallInv, RecoveryInv, CallOK, OneApplication, ActivateRequested,
                      Reactivate, Activate
  <2>3. CASE Reactivate(c)
    BY <1>1, <2>2, <2>3, Activated DEF Reactivate, Activate, PositionOK, Restoring
  <2>4. CASE ActivateRequested(c)
    <3>1. ASSUME NEW k \in Knobs(a) PROVE active'[k] = Shown[Requested[a][k]]
      <4>1. file[k] = Requested[a][k] /\ k \in Knob
        BY <2>2, <2>4, KnobsType DEF ActivateRequested, Activate, PositionOK, InFile
      <4>2. active' = Started \/ (k \notin Static /\ active' = Reloaded)
        BY <2>2, <2>4 DEF ActivateRequested, Activate, RequiresRestart
      <4>. QED BY <4>1, <4>2 DEF Started, Reloaded
    <3>. QED BY <3>1 DEF Active, Knobs
  <2>. QED BY <2>1, <2>3, <2>4
<1>2. OneApplication /\ OneCaller /\ OneCallInv /\ [Next]_vars => [Whole]_vars
  BY <1>1
<1>. QED BY <1>2, OneCallHolds, PTL DEF Spec, ActivatesWhole
=============================================================================
