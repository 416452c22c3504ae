----------------------- MODULE CandidateRestore_proofs -----------------------
(***************************************************************************)
(* The restore ledger stays consistent for any number of callers, of       *)
(* attempts and of faults, lost locks and surviving containers included:   *)
(* what protects it is the transaction that opens an attempt and the       *)
(* trigger, not the advisory lock.                                         *)
(***************************************************************************)
EXTENDS CandidateRestore, TLAPS

(* What the assumptions on the constants say.                              *)
LEMMA ConstantFacts ==
  /\ MaxAttempts \in Nat /\ MaxFaults \in Nat
  /\ None \notin Caller
BY BoundsAssumption, NoneAssumption

(* An element of a sequence over a set is in the set.                      *)
LEMMA SeqElement ==
  ASSUME NEW R, NEW q \in Seq(R), NEW m \in DOMAIN q
  PROVE  q[m] \in R
OBVIOUS

(* A call's record keeps its type when its position, attempt and answer    *)
(* change.                                                                 *)
LEMMA CallElement ==
  ASSUME NEW i \in Nat, NEW j \in Nat, i <= j,
         NEW q \in [at : Position, attempt : 0 .. i,
                   mechanism : Mechanism \cup {None}, ok : BOOLEAN],
         NEW p \in Position, NEW n \in 0 .. j, NEW b \in BOOLEAN
  PROVE  LET k == [q EXCEPT !.at = p, !.attempt = n, !.ok = b] IN
         /\ k \in [at : Position, attempt : 0 .. j,
                   mechanism : Mechanism \cup {None}, ok : BOOLEAN]
         /\ k.at = p /\ k.attempt = n /\ k.ok = b /\ k.mechanism = q.mechanism
OBVIOUS

(* A caller at work, or in its handler, owns a row of the ledger; one that *)
(* holds a positive answer holds it for the linked row.                    *)
CallInv ==
  \A c \in Caller :
    /\ call[c].at \in {"locking", "opening"} => call[c].mechanism \in Mechanism
    /\ call[c].at \in Working \cup {"failing"} =>
         /\ call[c].attempt \in DOMAIN rows
         /\ rows[call[c].attempt].mechanism = call[c].mechanism
    /\ call[c].ok => /\ call[c].at = "returning"
                     /\ call[c].attempt = link
                     /\ link # 0
                     /\ rows[link].mechanism = call[c].mechanism

RestoreInv == TypeOK /\ LedgerConsistent /\ CallInv

(* The initial state.                                                      *)
LEMMA InitInv == Init => RestoreInv
<1> SUFFICES ASSUME Init PROVE RestoreInv
    OBVIOUS
<1>. USE DEF Init
<1>1. TypeOK
  <2>1. call \in [Caller -> [at : Position, attempt : 0 .. Len(rows),
                            mechanism : Mechanism \cup {None}, ok : BOOLEAN]]
    BY DEF NoCall, Position
  <2>2. rows \in Seq([status : Open \cup Final, mechanism : Mechanism]) /\ Len(rows) = 0
    OBVIOUS
  <2>3. up \in BOOLEAN /\ mixed \in BOOLEAN
    BY Zenon
  <2>5. /\ link \in 0 .. Len(rows) /\ faults \in 0 .. MaxFaults
        /\ writers \subseteq 1 .. Len(rows)
    BY <2>2, ConstantFacts
  <2>6. lock \in Caller \cup {None} /\ data \in {"frozen", "dirty", "broken"}
    OBVIOUS
  <2>4. Len(rows) <= MaxAttempts
    BY <2>2, ConstantFacts
  <2>. QED BY ONLY <2>1, <2>2, <2>3, <2>4, <2>5, <2>6 DEF TypeOK
<1>2. LedgerConsistent
  BY DEF LedgerConsistent
<1>3. CallInv
  BY DEF CallInv, NoCall, Working
<1>. QED BY <1>1, <1>2, <1>3 DEF RestoreInv

(* Rows change their status only, and only the last one: the ledger's      *)
(* invariant after a change of one row.                                    *)
LEMMA StatusChange ==
  ASSUME NEW n \in DOMAIN rows, NEW s \in {"VERIFYING", "FAILED"},
         TypeOK, LedgerConsistent, CallInv,
         rows[n].status \in Open,
         rows' = [rows EXCEPT ![n].status = s], link' = link
  PROVE  LedgerConsistent'
BY DEF TypeOK, LedgerConsistent, Open, Final

(* Only the latest attempt of a trial can be open.                         *)
LEMMA LatestIsOpen ==
  ASSUME TypeOK, LedgerConsistent, NEW n \in DOMAIN rows, rows[n].status \in Open
  PROVE  n = Len(rows) /\ link = 0
BY DEF TypeOK, LedgerConsistent, Open, Final

(* What a move of one caller leaves to show when the ledger stays.         *)
LEMMA CallerMoves ==
  ASSUME RestoreInv, NEW c \in Caller, NEW k,
         k \in [at : Position, attempt : 0 .. Len(rows),
                mechanism : Mechanism \cup {None}, ok : BOOLEAN],
         call' = [call EXCEPT ![c] = k],
         k.at \in {"locking", "opening"} => k.mechanism \in Mechanism,
         k.at \in Working \cup {"failing"} =>
           /\ k.attempt \in DOMAIN rows
           /\ rows[k.attempt].mechanism = k.mechanism,
         k.ok => /\ k.at = "returning"
                 /\ k.attempt = link
                 /\ link # 0
                 /\ rows[link].mechanism = k.mechanism,
         rows' = rows, link' = link,
         lock' \in Caller \cup {None}, up' \in BOOLEAN,
         data' \in {"frozen", "dirty", "broken"},
         writers' \subseteq 1 .. Len(rows), mixed' \in BOOLEAN,
         faults' \in 0 .. MaxFaults
  PROVE  RestoreInv'
<1>. USE DEF RestoreInv
<1>1. TypeOK'
  BY DEF TypeOK
<1>2. LedgerConsistent'
  BY DEF LedgerConsistent
<1>3. CallInv'
  BY DEF CallInv, TypeOK
<1>. QED BY <1>1, <1>2, <1>3

(* A caller that concludes or validates its own, still open, attempt.      *)
LEMMA OwnRowMoves ==
  ASSUME RestoreInv, NEW c \in Caller, NEW p \in {"comparing", "failing", "returning"},
         NEW s \in {"VERIFYING", "FAILED"},
         call[c].at \in Working \cup {"failing"},
         rows[call[c].attempt].status \in Open,
         rows' = [rows EXCEPT ![call[c].attempt].status = s],
         call' = [call EXCEPT ![c].at = p, ![c].attempt = call[c].attempt, ![c].ok = FALSE],
         UNCHANGED <<link, lock, target, faults>>
  PROVE  RestoreInv'
<1>. DEFINE n == call[c].attempt
<1>0. n \in DOMAIN rows
  BY DEF RestoreInv, CallInv
<1>1. TypeOK'
  <2>. USE DEF RestoreInv, TypeOK
  <2>1. /\ rows' \in Seq([status : Open \cup Final, mechanism : Mechanism])
        /\ Len(rows') = Len(rows)
    <3>. DEFINE Row == [status : Open \cup Final, mechanism : Mechanism]
    <3>0. rows \in Seq(Row)
      OBVIOUS
    <3>1. rows[n] \in Row
      BY ONLY <1>0, <3>0, SeqElement
    <3>2. [rows[n] EXCEPT !.status = s] \in Row
      BY <3>1 DEF Open, Final
    <3>3. rows' = [rows EXCEPT ![n] = [rows[n] EXCEPT !.status = s]]
      OBVIOUS
    <3>. HIDE DEF Row
    <3>4. rows \in Seq(Row)
      BY DEF Row
    <3>5. rows' \in Seq(Row) /\ Len(rows') = Len(rows)
      BY <1>0, <3>2, <3>3, <3>4
    <3>. QED BY <3>5 DEF Row
  <2>2. call' \in [Caller -> [at : Position, attempt : 0 .. Len(rows'),
                             mechanism : Mechanism \cup {None}, ok : BOOLEAN]]
    <3>. DEFINE K == [at : Position, attempt : 0 .. Len(rows),
                      mechanism : Mechanism \cup {None}, ok : BOOLEAN]
    <3>1. call[c] \in K /\ p \in Position
      BY DEF Position
    <3>2. [call[c] EXCEPT !.at = p, !.attempt = n, !.ok = FALSE] \in K
      BY <3>1
    <3>. QED BY <2>1, <3>2
  <2>. QED BY <2>1, <2>2 DEF target
<1>2. LedgerConsistent'
  BY <1>0, StatusChange DEF RestoreInv
<1>3. n = Len(rows) /\ link = 0
  BY <1>0, LatestIsOpen DEF RestoreInv
<1>4. DOMAIN rows' = DOMAIN rows /\ \A m \in DOMAIN rows : rows'[m].mechanism = rows[m].mechanism
  BY <1>0 DEF RestoreInv, TypeOK
<1>5. CallInv'
  BY <1>0, <1>3, <1>4 DEF RestoreInv, CallInv, TypeOK, Working
<1>. QED BY <1>1, <1>2, <1>5 DEF RestoreInv

(* A caller that only changes its position, within or out of an attempt.   *)
LEMMA GotoMoves ==
  ASSUME RestoreInv, NEW c \in Caller, NEW p \in Working \cup {"failing"},
         call[c].at \in Working, Goto(c, p),
         UNCHANGED <<rows, link, lock>>,
         up' \in BOOLEAN, data' \in {"frozen", "dirty", "broken"},
         writers' \subseteq 1 .. Len(rows), mixed' \in BOOLEAN,
         faults' \in 0 .. MaxFaults
  PROVE  RestoreInv'
<1>. DEFINE k == [call[c] EXCEPT !.at = p]
<1>0. call[c] \in [at : Position, attempt : 0 .. Len(rows),
                    mechanism : Mechanism \cup {None}, ok : BOOLEAN]
  BY DEF RestoreInv, TypeOK
<1>1. k \in [at : Position, attempt : 0 .. Len(rows),
              mechanism : Mechanism \cup {None}, ok : BOOLEAN]
  BY <1>0 DEF Position, Working
<1>2. call' = [call EXCEPT ![c] = k]
  BY DEF Goto
<1>3. k.at = p /\ k.attempt = call[c].attempt /\ k.mechanism = call[c].mechanism
      /\ k.ok = call[c].ok
  BY <1>0
<1>4. ~k.ok /\ p \notin {"locking", "opening"}
  BY <1>3 DEF RestoreInv, CallInv, Working
<1>5. k.attempt \in DOMAIN rows /\ rows[k.attempt].mechanism = k.mechanism
  BY <1>3 DEF RestoreInv, CallInv
<1>6. lock' \in Caller \cup {None} /\ rows' = rows /\ link' = link
  BY DEF RestoreInv, TypeOK
<1>. HIDE DEF k
<1>. QED BY <1>1, <1>2, <1>3, <1>4, <1>5, <1>6, CallerMoves

(* Every step of a caller keeps the invariant.                             *)
LEMMA CallerStep ==
  ASSUME RestoreInv, NEW c \in Caller, Step(c)
  PROVE  RestoreInv'
<1>. DEFINE K == [at : Position, attempt : 0 .. Len(rows),
                  mechanism : Mechanism \cup {None}, ok : BOOLEAN]
<1>0. /\ TypeOK /\ LedgerConsistent /\ CallInv
      /\ call[c] \in K /\ NoCall \in K /\ Len(rows) \in Nat
  BY DEF RestoreInv, TypeOK, NoCall, Position
<1>1. ASSUME NEW m \in Mechanism, Ask(c, m) PROVE RestoreInv'
  <2>. DEFINE k == [NoCall EXCEPT !.at = "locking", !.mechanism = m]
  <2>1. k \in K /\ k.at = "locking" /\ k.mechanism = m /\ ~k.ok
    BY <1>0 DEF NoCall, Position
  <2>2. call' = [call EXCEPT ![c] = k]
    BY <1>1 DEF Ask
  <2>3. UNCHANGED <<rows, link, lock, up, data, writers, mixed, faults>>
    BY <1>1 DEF Ask, ledger, target
  <2>. HIDE DEF k
  <2>. QED BY <1>0, <2>1, <2>2, <2>3, CallerMoves DEF TypeOK, Working
<1>2. CASE Lock(c)
  <2>. DEFINE k == [call[c] EXCEPT !.at = "opening"]
  <2>1. k \in K /\ k.at = "opening" /\ k.mechanism \in Mechanism /\ ~k.ok
    BY <1>0, <1>2 DEF Lock, CallInv, Position
  <2>2. call' = [call EXCEPT ![c] = k] /\ lock' = c
    BY <1>2 DEF Lock, Goto
  <2>3. UNCHANGED <<rows, link, up, data, writers, mixed, faults>>
    BY <1>2 DEF Lock, ledger, target
  <2>. HIDE DEF k
  <2>. QED BY <1>0, <2>1, <2>2, <2>3, CallerMoves DEF TypeOK, Working
<1>3. CASE Unlock(c) \/ Crash(c)
  <2>1. call' = [call EXCEPT ![c] = NoCall]
    BY <1>3 DEF Unlock, Crash
  <2>2. NoCall.at = "idle" /\ ~NoCall.ok
    BY DEF NoCall
  <2>3. UNCHANGED <<rows, link, up, data, writers, mixed>>
    BY <1>3 DEF Unlock, Crash, ledger, target
  <2>4. lock' \in Caller \cup {None} /\ faults' \in 0 .. MaxFaults
    BY <1>0, <1>3, ConstantFacts DEF Unlock, Crash, TypeOK
  <2>. QED BY <1>0, <2>1, <2>2, <2>3, <2>4, CallerMoves DEF TypeOK, Working
<1>4. CASE Reuse(c)
  <2>. DEFINE ok == rows[Len(rows)].mechanism = call[c].mechanism
              k == [call[c] EXCEPT !.at = "returning", !.attempt = Len(rows), !.ok = ok]
  <2>0. ok \in BOOLEAN
    OBVIOUS
  <2>1. /\ k \in K /\ k.at = "returning" /\ k.attempt = Len(rows)
        /\ k.mechanism = call[c].mechanism /\ k.ok = ok
    <3>1. "returning" \in Position /\ Len(rows) \in 0 .. Len(rows) /\ Len(rows) <= Len(rows)
      BY <1>0 DEF Position
    <3>. HIDE DEF ok
    <3>. QED BY <1>0, <2>0, <3>1, CallElement
  <2>2. call' = [call EXCEPT ![c] = k]
    BY <1>4 DEF Reuse, Return
  <2>3. UNCHANGED <<rows, link, lock, up, data, writers, mixed, faults>>
    BY <1>4 DEF Reuse, ledger, target
  <2>4. link = Len(rows) /\ link # 0
    BY <1>0, <1>4 DEF Reuse, HasPassed, LedgerConsistent, TypeOK
  <2>5. k.ok => rows[link].mechanism = k.mechanism
    BY <2>1, <2>4
  <2>. HIDE DEF k, ok
  <2>. QED BY <1>0, <2>1, <2>2, <2>3, <2>4, <2>5, CallerMoves DEF TypeOK, Working
<1>5. CASE Begin(c)
  <2>. DEFINE m == call[c].mechanism
              r == [status |-> "RESTORING", mechanism |-> m]
              n == Len(rows) + 1
              Row == [status : Open \cup Final, mechanism : Mechanism]
  <2>1. m \in Mechanism /\ ~call[c].ok /\ call[c].at = "opening"
    BY <1>0, <1>5 DEF Begin, CallInv
  <2>2. r \in Row
    BY <2>1 DEF Open
  <2>3. Superseded \in Seq(Row) /\ Len(Superseded) = Len(rows)
    <3>1. \A i \in DOMAIN rows : rows[i] \in Row
      BY <1>0, SeqElement DEF TypeOK
    <3>2. \A i \in DOMAIN rows : [rows[i] EXCEPT !.status = "INTERRUPTED"] \in Row
      BY <3>1 DEF Final
    <3>3. DOMAIN rows = 1 .. Len(rows)
      BY <1>0 DEF TypeOK
    <3>. HIDE DEF Row
    <3>. QED BY <1>0, <3>1, <3>2, <3>3 DEF Superseded
  <2>4. \A i \in DOMAIN rows :
           /\ Superseded[i].mechanism = rows[i].mechanism
           /\ Superseded[i].status = IF i = Len(rows) /\ rows[i].status \in Open
                                     THEN "INTERRUPTED" ELSE rows[i].status
    <3>1. \A i \in DOMAIN rows : rows[i] \in Row
      BY <1>0, SeqElement DEF TypeOK
    <3>. QED BY <3>1 DEF Superseded
  <2>5. rows' = Append(Superseded, r) /\ UNCHANGED <<link, lock, up, data, writers, mixed, faults>>
    BY <1>5 DEF Begin, target
  <2>6. /\ rows' \in Seq(Row) /\ Len(rows') = n /\ n \in 1 .. Len(rows')
        /\ rows'[n] = r
        /\ \A i \in DOMAIN rows : rows'[i] = Superseded[i]
        /\ DOMAIN rows' = DOMAIN rows \cup {n}
    <3>. HIDE DEF Row, r
    <3>. QED BY <1>0, <2>2, <2>3, <2>5
  <2>7. rows # <<>> => /\ rows[Len(rows)].status \in Open \cup Final
                       /\ rows[Len(rows)].status # "PASSED"
    <3>1. rows # <<>> => Len(rows) \in DOMAIN rows
      BY <1>0 DEF TypeOK
    <3>2. rows # <<>> => rows[Len(rows)] \in Row
      BY <1>0, <3>1, SeqElement DEF TypeOK
    <3>. QED BY <1>5, <3>2 DEF Begin, HasPassed
  <2>8. link = 0
    BY <1>0, <2>7 DEF LedgerConsistent, TypeOK
  <2>9. call' = [call EXCEPT ![c] = [call[c] EXCEPT !.at = "preparing", !.attempt = n]]
    BY <1>5 DEF Begin
  <2>10. TypeOK'
    <3>1. Len(rows') <= MaxAttempts
      BY <1>0, <1>5, <2>6, ConstantFacts DEF Begin
    <3>2. [call[c] EXCEPT !.at = "preparing", !.attempt = n] \in
             [at : Position, attempt : 0 .. Len(rows'),
              mechanism : Mechanism \cup {None}, ok : BOOLEAN]
      <4>1. "preparing" \in Position /\ n \in 0 .. Len(rows') /\ Len(rows) <= Len(rows')
            /\ Len(rows') \in Nat
        BY <1>0, <2>6 DEF Position
      <4>2. call[c].ok \in BOOLEAN
        BY <1>0
      <4>3. [call[c] EXCEPT !.at = "preparing", !.attempt = n]
              = [call[c] EXCEPT !.at = "preparing", !.attempt = n, !.ok = call[c].ok]
        BY <1>0
      <4>. HIDE DEF n
      <4>. QED BY <1>0, <4>1, <4>2, <4>3, CallElement
    <3>3. call' \in [Caller -> [at : Position, attempt : 0 .. Len(rows'),
                               mechanism : Mechanism \cup {None}, ok : BOOLEAN]]
      BY <1>0, <2>6, <2>9, <3>2 DEF TypeOK
    <3>4. link' \in 0 .. Len(rows') /\ writers' \subseteq 1 .. Len(rows')
      BY <1>0, <2>5, <2>6 DEF TypeOK
    <3>. QED BY <1>0, <2>5, <2>6, <3>1, <3>3, <3>4 DEF TypeOK
  <2>11. LedgerConsistent'
    <3>1. \A i \in DOMAIN rows : rows'[i].status \in Final \ {"PASSED"}
      BY <1>0, <2>4, <2>6, <2>7, <2>8 DEF LedgerConsistent, TypeOK, Open, Final
    <3>2. rows'[n].status = "RESTORING"
      BY <2>6
    <3>. QED BY <1>0, <2>5, <2>6, <2>8, <3>1, <3>2 DEF LedgerConsistent, TypeOK
  <2>12. CallInv'
    <3>1. ASSUME NEW d \in Caller, d # c, call[d].at \in Working \cup {"failing"}
          PROVE  /\ call[d].attempt \in DOMAIN rows'
                 /\ rows'[call[d].attempt].mechanism = call[d].mechanism
      BY <1>0, <2>4, <2>6, <3>1 DEF CallInv
    <3>2. \A d \in Caller : d # c => call'[d] = call[d]
      BY <1>0, <2>9 DEF TypeOK
    <3>3. \A d \in Caller : ~call[d].ok
      BY <1>0, <2>8 DEF CallInv
    <3>4. /\ call'[c].at = "preparing" /\ call'[c].attempt = n
          /\ call'[c].mechanism = m /\ call'[c].ok = call[c].ok
      BY <1>0, <2>9 DEF TypeOK
    <3>5. n \in DOMAIN rows' /\ rows'[n].mechanism = m
      BY <2>6
    <3>. HIDE DEF m, n
    <3>. QED BY <1>0, <3>1, <3>2, <3>3, <3>4, <3>5 DEF CallInv, Working
  <2>. QED BY <2>10, <2>11, <2>12 DEF RestoreInv
<1>6. CASE Prepare(c) \/ Load(c) \/ Start(c) \/ Compare(c) \/ Raise(c)
  <2>1. PICK p \in Working \cup {"failing"} : Goto(c, p)
    BY <1>6 DEF Prepare, Load, Start, Compare, Raise, Working
  <2>2. call[c].at \in Working /\ UNCHANGED <<rows, link, lock>>
    BY <1>6 DEF Prepare, Load, Start, Compare, Raise, Working, ledger
  <2>3. /\ up' \in BOOLEAN /\ mixed' \in BOOLEAN
    BY <1>0, <1>6, Zenon DEF Prepare, Load, Start, Compare, Raise, target, TypeOK
  <2>4. /\ data' \in {"frozen", "dirty", "broken"} /\ writers' \subseteq 1 .. Len(rows)
    BY <1>0, <1>6 DEF Prepare, Load, Start, Compare, Raise, target, TypeOK
  <2>5. faults' \in 0 .. MaxFaults
    BY <1>0, <1>6, ConstantFacts DEF Prepare, Load, Start, Compare, Raise, TypeOK
  <2>. QED BY <2>1, <2>2, <2>3, <2>4, <2>5, GotoMoves
<1>7. CASE Empty(c)
  <2>1. Goto(c, "filling") /\ call[c].at \in Working /\ UNCHANGED <<rows, link, lock>>
    BY <1>7 DEF Empty, Working, ledger
  <2>2. call[c].attempt \in 1 .. Len(rows)
    BY <1>0, <2>1 DEF CallInv, TypeOK
  <2>3. up' \in BOOLEAN /\ mixed' \in BOOLEAN
    BY <1>0, <1>7 DEF Empty, TypeOK
  <2>4. /\ data' \in {"frozen", "dirty", "broken"} /\ writers' \subseteq 1 .. Len(rows)
        /\ faults' \in 0 .. MaxFaults
    BY <1>0, <1>7, <2>2 DEF Empty, TypeOK
  <2>5. "filling" \in Working \cup {"failing"}
    BY DEF Working
  <2>. QED BY <2>1, <2>3, <2>4, <2>5, GotoMoves
<1>8. CASE Validate(c) \/ Mismatch(c)
  <2>1. PICK p \in {"comparing", "failing"}, s \in {"VERIFYING", "FAILED"} :
          /\ rows' = [rows EXCEPT ![call[c].attempt].status = s]
          /\ Goto(c, p)
          /\ Allowed(rows[call[c].attempt].status, s)
    BY <1>8 DEF Validate, Mismatch
  <2>2. call[c].at \in Working /\ UNCHANGED <<link, lock, target, faults>>
    BY <1>8 DEF Validate, Mismatch, Working
  <2>3. rows[call[c].attempt].status \in Open
    BY <2>1 DEF Allowed, Open
  <2>4. ~call[c].ok
    BY <1>0, <2>2 DEF CallInv, Working
  <2>5. [call[c] EXCEPT !.at = p]
          = [call[c] EXCEPT !.at = p, !.attempt = call[c].attempt, !.ok = FALSE]
    BY <1>0, <2>4
  <2>6. call' = [call EXCEPT ![c].at = p, ![c].attempt = call[c].attempt, ![c].ok = FALSE]
    BY <1>0, <2>1, <2>5 DEF Goto, TypeOK
  <2>. QED BY <2>1, <2>2, <2>3, <2>6, OwnRowMoves
<1>9. CASE Fail(c)
  <2>. DEFINE n == call[c].attempt
              k == [call[c] EXCEPT !.at = "returning", !.attempt = n, !.ok = FALSE]
  <2>0. call[c].at = "failing" /\ UNCHANGED <<link, lock, target, faults>>
    BY <1>9 DEF Fail
  <2>1. call' = [call EXCEPT ![c].at = "returning", ![c].attempt = n, ![c].ok = FALSE]
    BY <1>9 DEF Fail, Return
  <2>2. CASE rows[n].status \in Open
    <3>1. rows' = [rows EXCEPT ![n].status = "FAILED"]
      BY <1>9, <2>2 DEF Fail
    <3>. QED BY <2>0, <2>1, <2>2, <3>1, OwnRowMoves
  <2>3. CASE rows[n].status \notin Open
    <3>1. rows' = rows
      BY <1>9, <2>3 DEF Fail
    <3>2. n \in 0 .. Len(rows) /\ "returning" \in Position /\ Len(rows) <= Len(rows)
      BY <1>0 DEF Position
    <3>3. FALSE \in BOOLEAN
      OBVIOUS
    <3>4. k \in K /\ k.at = "returning" /\ k.ok = FALSE
      <4>. HIDE DEF n
      <4>. QED BY <1>0, <3>2, <3>3, CallElement
    <3>5. call' = [call EXCEPT ![c] = k]
      BY <2>1
    <3>6. UNCHANGED <<link, lock, up, data, writers, mixed, faults>>
      BY <2>0 DEF target
    <3>. HIDE DEF k
    <3>. QED BY <1>0, <3>1, <3>4, <3>5, <3>6, CallerMoves DEF TypeOK, Working
  <2>. QED BY <2>2, <2>3
<1>10. CASE Pass(c)
  <2>. DEFINE n == call[c].attempt
              Row == [status : Open \cup Final, mechanism : Mechanism]
              k == [call[c] EXCEPT !.at = "returning", !.attempt = n, !.ok = TRUE]
  <2>1. /\ call[c].at = "passing" /\ rows[n].status = "VERIFYING"
        /\ rows' = [rows EXCEPT ![n].status = "PASSED"]
        /\ link' = IF link = 0 THEN n ELSE link
        /\ UNCHANGED <<lock, target, faults>>
    BY <1>10 DEF Pass, Allowed
  <2>2. n \in DOMAIN rows /\ rows[n].mechanism = call[c].mechanism
    BY <1>0, <2>1 DEF CallInv, Working
  <2>3. n = Len(rows) /\ link = 0
    BY <1>0, <2>1, <2>2, LatestIsOpen DEF Open
  <2>4. link' = n /\ n # 0 /\ n \in 1 .. Len(rows)
    BY <1>0, <2>1, <2>2, <2>3 DEF TypeOK
  <2>5. rows[n] \in Row
    BY <1>0, <2>2, SeqElement DEF TypeOK
  <2>6. [rows[n] EXCEPT !.status = "PASSED"] \in Row
    BY <2>5 DEF Final
  <2>7. /\ rows' \in Seq(Row) /\ Len(rows') = Len(rows) /\ DOMAIN rows' = DOMAIN rows
        /\ \A i \in DOMAIN rows : i # n => rows'[i] = rows[i]
        /\ rows'[n] = [rows[n] EXCEPT !.status = "PASSED"]
    <3>1. rows' = [rows EXCEPT ![n] = [rows[n] EXCEPT !.status = "PASSED"]]
      BY <2>1
    <3>2. rows \in Seq(Row)
      BY <1>0 DEF TypeOK
    <3>. HIDE DEF Row, n
    <3>. QED BY <2>2, <2>6, <3>1, <3>2
  <2>8. rows'[n].status = "PASSED" /\ rows'[n].mechanism = rows[n].mechanism
    BY <2>5, <2>7
  <2>9. k \in K /\ k.at = "returning" /\ k.attempt = n /\ k.ok = TRUE
        /\ k.mechanism = call[c].mechanism
    <3>1. n \in 0 .. Len(rows) /\ "returning" \in Position /\ Len(rows) <= Len(rows)
      BY <1>0 DEF Position
    <3>2. TRUE \in BOOLEAN
      OBVIOUS
    <3>. HIDE DEF n
    <3>. QED BY <1>0, <3>1, <3>2, CallElement
  <2>10. call' = [call EXCEPT ![c] = k]
    BY <1>10 DEF Pass, Return
  <2>11. TypeOK'
    <3>. HIDE DEF n, k
    <3>1. call' \in [Caller -> K]
      BY <1>0, <2>9, <2>10 DEF TypeOK
    <3>. QED BY <1>0, <2>1, <2>4, <2>7, <3>1 DEF TypeOK, target
  <2>12. LedgerConsistent'
    <3>1. \A i \in DOMAIN rows : i # n =>
            rows'[i].status = rows[i].status /\ i < Len(rows) /\ rows[i].status # "PASSED"
      BY <1>0, <2>3, <2>7 DEF LedgerConsistent, TypeOK
    <3>2. \A i \in DOMAIN rows : i < Len(rows) => rows[i].status \in Final \ {"PASSED"}
      BY <1>0 DEF LedgerConsistent
    <3>3. DOMAIN rows' = DOMAIN rows /\ Len(rows') = Len(rows) /\ link' = Len(rows)
          /\ n = Len(rows)
      BY <2>3, <2>4, <2>7
    <3>4. \A i \in DOMAIN rows : i < Len(rows) => rows'[i].status \in Final \ {"PASSED"}
      BY <2>3, <3>1, <3>2
    <3>5. \A i \in DOMAIN rows : rows'[i].status = "PASSED" <=> i = Len(rows)
      BY <2>3, <2>8, <3>1
    <3>. QED BY ONLY <3>3, <3>4, <3>5 DEF LedgerConsistent
  <2>13. CallInv'
    <3>1. \A d \in Caller : d # c => call'[d] = call[d] /\ ~call[d].ok
      BY <1>0, <2>3, <2>10 DEF CallInv, TypeOK
    <3>2. call'[c] = k
      BY <1>0, <2>10 DEF TypeOK
    <3>3. \A i \in DOMAIN rows : rows'[i].mechanism = rows[i].mechanism
      BY <2>7, <2>8
    <3>. HIDE DEF n, k
    <3>. QED BY <1>0, <2>2, <2>4, <2>7, <2>8, <2>9, <3>1, <3>2, <3>3 DEF CallInv, Working
  <2>. QED BY <2>11, <2>12, <2>13 DEF RestoreInv
<1>11. CASE LoseLock(c)
  <2>1. UNCHANGED <<rows, link, up, data, writers, mixed, call>> /\ lock' = None
    BY <1>11 DEF LoseLock, ledger, target
  <2>2. faults' \in 0 .. MaxFaults
    BY <1>0, <1>11, ConstantFacts DEF LoseLock, TypeOK
  <2>. QED BY <1>0, <2>1, <2>2 DEF RestoreInv, TypeOK, LedgerConsistent, CallInv
<1>12. CASE Withdraw(c)
  <2>. DEFINE k == [call[c] EXCEPT !.at = "returning", !.attempt = 0, !.ok = FALSE]
  <2>1. call' = [call EXCEPT ![c] = k]
    BY <1>12 DEF Withdraw, Return
  <2>3. faults' \in 0 .. MaxFaults
    BY <1>0, <1>12, ConstantFacts DEF Withdraw, TypeOK
  <2>4. UNCHANGED <<rows, link, lock, up, data, writers, mixed>>
    BY <1>12 DEF Withdraw, ledger, target
  <2>2. k \in K /\ k.at = "returning" /\ k.ok = FALSE
    <3>1. 0 \in 0 .. Len(rows) /\ "returning" \in Position /\ Len(rows) <= Len(rows)
      BY <1>0 DEF Position
    <3>2. FALSE \in BOOLEAN
      OBVIOUS
    <3>. QED BY <1>0, <3>1, <3>2, CallElement
  <2>. HIDE DEF k
  <2>. QED BY <1>0, <2>1, <2>2, <2>3, <2>4, CallerMoves DEF TypeOK, Working
<1>. QED
  BY <1>1, <1>2, <1>3, <1>4, <1>5, <1>6, <1>7, <1>8, <1>9, <1>10, <1>11, <1>12 DEF Step

(* The containers touch neither the ledger nor, except for telling their   *)
(* client of an error, a caller.                                           *)
LEMMA ContainerStep ==
  ASSUME RestoreInv, NEW n \in Attempt, Filled(n) \/ FillFailed(n)
  PROVE  RestoreInv'
<1>0. TypeOK /\ LedgerConsistent /\ CallInv
  BY DEF RestoreInv
<1>1. CASE Filled(n)
  <2>1. UNCHANGED <<rows, link, lock, up, mixed, call, faults>>
    BY <1>1 DEF Filled, ledger
  <2>2. writers' \subseteq writers /\ data' \in {"frozen", "broken"}
    BY <1>1 DEF Filled
  <2>. QED BY <1>0, <2>1, <2>2 DEF RestoreInv, TypeOK, LedgerConsistent, CallInv
<1>2. CASE FillFailed(n)
  <2>. DEFINE K == [at : Position, attempt : 0 .. Len(rows),
                    mechanism : Mechanism \cup {None}, ok : BOOLEAN]
  <2>1. UNCHANGED <<rows, link, lock, up, mixed>>
    BY <1>2 DEF FillFailed, ledger
  <2>2. writers' \subseteq writers /\ data' = "broken" /\ faults' \in 0 .. MaxFaults
    BY <1>0, <1>2, ConstantFacts DEF FillFailed, TypeOK
  <2>3. \A c \in Caller :
          /\ call[c] \in K
          /\ call'[c] = IF call[c].at = "filling" /\ call[c].attempt = n
                         THEN [call[c] EXCEPT !.at = "failing"] ELSE call[c]
    BY <1>0, <1>2 DEF FillFailed, TypeOK
  <2>4. \A c \in Caller :
          \/ call'[c] = call[c]
          \/ /\ call[c].at = "filling" /\ call'[c].at = "failing"
             /\ call'[c].attempt = call[c].attempt
             /\ call'[c].mechanism = call[c].mechanism
             /\ call'[c].ok = call[c].ok
             /\ call'[c] \in K
    BY <2>3 DEF Position
  <2>5. call' \in [Caller -> K]
    <3>1. \A c \in Caller : call'[c] \in K
      BY <2>3, <2>4
    <3>2. call' = [c \in Caller |-> call'[c]]
      BY <1>2 DEF FillFailed
    <3>. HIDE DEF K
    <3>. QED BY <3>1, <3>2
  <2>6. TypeOK'
    BY <1>0, <2>1, <2>2, <2>5 DEF TypeOK
  <2>7. LedgerConsistent'
    BY <1>0, <2>1 DEF LedgerConsistent
  <2>8. CallInv'
    BY <1>0, <2>1, <2>4 DEF CallInv, Working
  <2>. QED BY <2>6, <2>7, <2>8 DEF RestoreInv
<1>. QED BY <1>1, <1>2

(* Every step keeps the invariant.                                         *)
LEMMA Inductive == RestoreInv /\ [Next]_vars => RestoreInv'
<1>1. RestoreInv /\ UNCHANGED vars => RestoreInv'
  BY DEF RestoreInv, TypeOK, LedgerConsistent, CallInv, vars, ledger, target
<1>2. RestoreInv /\ Next => RestoreInv'
  BY CallerStep, ContainerStep DEF Next
<1>. QED BY <1>1, <1>2

(* The types, and the invariant of the ledger and its callers, hold in     *)
(* every reachable state (ensure_candidate_dataset_restored).              *)
THEOREM RestoreInvHolds == Spec => []RestoreInv
BY InitInv, Inductive, PTL DEF Spec

(* At most the latest attempt is open and the trial is linked exactly to   *)
(* the one that passed: the transaction of Begin and the guard of Pass.    *)
THEOREM LedgerIsConsistent == Spec => []LedgerConsistent
<1>1. RestoreInv => LedgerConsistent
  BY DEF RestoreInv
<1>. QED BY <1>1, RestoreInvHolds, PTL

(* A positive answer is about the attempt that passed, whether the caller  *)
(* restored the dataset itself or found it restored.                       *)
THEOREM AnswersAreTrue == Spec => []ReturnedIsPassed
<1>1. RestoreInv => ReturnedIsPassed
  BY DEF RestoreInv, TypeOK, LedgerConsistent, CallInv, ReturnedIsPassed
<1>. QED BY <1>1, RestoreInvHolds, PTL

(* No step touches an attempt that is over or has a successor: a caller    *)
(* that lost its lock unnoticed cannot conclude its attempt.               *)
THEOREM OnlyTheLatestIsMoved == Spec => OnlyTheLatestMoves
<1>. DEFINE Moves == \A n \in DOMAIN rows :
                       rows'[n] # rows[n] => n = Len(rows) /\ rows[n].status \in Open
<1>1. ASSUME RestoreInv, [Next]_vars PROVE [Moves]_vars
  <2>0. TypeOK /\ LedgerConsistent /\ CallInv /\ Len(rows) \in Nat
    BY <1>1 DEF RestoreInv, TypeOK
  <2>1. CASE rows' = rows
    BY <2>1
  <2>2. ASSUME NEW c \in Caller, Begin(c) PROVE Moves
    <3>1. Len(Superseded) = Len(rows) /\ Superseded \in Seq({Superseded[i] : i \in DOMAIN rows})
      BY <2>0 DEF Superseded, TypeOK
    <3>2. \A i \in DOMAIN rows : rows'[i] = Superseded[i]
      BY <2>0, <2>2, <3>1 DEF Begin, TypeOK
    <3>. QED BY <3>2 DEF Superseded
  <2>3. ASSUME NEW c \in Caller, Validate(c) \/ Pass(c) \/ Mismatch(c) \/ Fail(c), rows' # rows
        PROVE  Moves
    <3>. DEFINE a == call[c].attempt
    <3>1. a \in DOMAIN rows
      BY <2>0, <2>3 DEF CallInv, Working, Validate, Pass, Mismatch, Fail
    <3>2. rows[a].status \in Open
      BY <2>3 DEF Validate, Pass, Mismatch, Fail, Allowed, Open
    <3>3. \A i \in DOMAIN rows : i # a => rows'[i] = rows[i]
      BY <2>0, <2>3 DEF Validate, Pass, Mismatch, Fail, TypeOK
    <3>4. a = Len(rows)
      BY <2>0, <3>1, <3>2, LatestIsOpen
    <3>. QED BY <3>2, <3>3, <3>4
  <2>4. rows' = rows \/ \E c \in Caller : \/ Begin(c)
                                         \/ Validate(c) \/ Pass(c) \/ Mismatch(c) \/ Fail(c)
    BY <1>1 DEF Next, Step, vars, ledger, Filled, FillFailed, Ask, Lock, Unlock, Reuse,
                Withdraw, Prepare, Load, Empty, Start, Compare, Raise, Crash, LoseLock
  <2>. QED BY <2>1, <2>2, <2>3, <2>4
<1>2. RestoreInv /\ [Next]_vars => [Moves]_vars
  BY <1>1
<1>. QED BY <1>2, RestoreInvHolds, PTL DEF Spec, OnlyTheLatestMoves

-----------------------------------------------------------------------------
(* As long as no two restores met on the volume: one container at most is  *)
(* at work, on a stopped target, for the one caller that waits for it; and *)
(* a caller whose container has ended finds the volume whole.              *)
VolumeInv == ~mixed =>
  /\ \A m, n \in writers : m = n
  /\ writers # {} => ~up
  /\ \A c \in Caller : call[c].at = "filling" =>
       /\ ~up
       /\ \A d \in Caller : call[d].at = "filling" => d = c
       /\ \A n \in writers : n = call[c].attempt
       /\ writers = {} => data # "broken"
  /\ writers = {} => ~(up /\ data = "broken")

(* The initial state: nothing has touched the volume.                      *)
LEMMA VolumeInit == Init => VolumeInv
BY DEF Init, VolumeInv, NoCall

(* Who does not touch the volume, and comes to wait for no container, can  *)
(* only help.                                                              *)
LEMMA VolumeAlone ==
  ASSUME VolumeInv, UNCHANGED <<writers, mixed>>,
         up' = TRUE => up, data' = "broken" => data = "broken",
         \A c \in Caller : call'[c].at = "filling" => call'[c] = call[c]
  PROVE  VolumeInv'
BY DEF VolumeInv

(* A step of a caller: only emptying the volume and starting the target    *)
(* need the argument.                                                      *)
LEMMA VolumeStep ==
  ASSUME RestoreInv, VolumeInv, NEW c \in Caller, Step(c)
  PROVE  VolumeInv'
<1>0. /\ call \in [Caller -> [at : Position, attempt : 0 .. Len(rows),
                              mechanism : Mechanism \cup {None}, ok : BOOLEAN]]
      /\ up \in BOOLEAN /\ mixed \in BOOLEAN
  BY DEF RestoreInv, TypeOK
<1>1. CASE Empty(c)
  <2>1. /\ call' = [call EXCEPT ![c] = [call[c] EXCEPT !.at = "filling"]]
        /\ writers' = writers \cup {call[c].attempt} /\ up' = up
        /\ mixed' = (writers # {} \/ up \/ \E d \in Caller : call[d].at = "filling")
    BY <1>1 DEF Empty, Goto
  <2>2. SUFFICES ASSUME ~mixed' PROVE VolumeInv'
    BY DEF VolumeInv
  <2>3. writers = {} /\ ~up /\ \A d \in Caller : call[d].at # "filling"
    BY <2>1, <2>2, Zenon
  <2>4. writers' = {call[c].attempt} /\ ~up'
    BY <2>1, <2>3, Zenon
  <2>5. \A d \in Caller : d # c => call'[d].at # "filling"
    BY <1>0, <2>1, <2>3
  <2>6. call'[c].attempt = call[c].attempt
    BY <1>0, <2>1
  <2>. QED BY <2>4, <2>5, <2>6 DEF VolumeInv
<1>2. CASE Start(c)
  <2>1. /\ call[c].at = "filling" /\ call[c].attempt \notin writers
        /\ writers' = writers /\ data' = data /\ mixed' = (mixed \/ writers # {})
    BY <1>2 DEF Start
  <2>2. SUFFICES ASSUME ~mixed' PROVE VolumeInv'
    BY DEF VolumeInv
  <2>3. ~mixed /\ writers = {}
    BY <2>1, <2>2, Zenon
  <2>4. data # "broken" /\ \A d \in Caller : call[d].at = "filling" => d = c
    BY <2>1, <2>3 DEF VolumeInv
  <2>5. \A d \in Caller : call'[d].at # "filling"
    BY <1>0, <1>2, <2>4 DEF Start, Goto
  <2>. QED BY <2>1, <2>3, <2>4, <2>5 DEF VolumeInv
<1>3. CASE ~Empty(c) /\ ~Start(c)
  <2>1. UNCHANGED <<writers, mixed>>
    BY <1>3 DEF Step, Ask, Lock, Unlock, Reuse, Withdraw, Begin, Prepare, Load, Validate,
                Compare, Pass, Mismatch, Raise, Fail, Crash, LoseLock, target
  <2>2. up' = up \/ up' = FALSE
    BY <1>3, Zenon DEF Step, Ask, Lock, Unlock, Reuse, Withdraw, Begin, Prepare, Load, Validate,
                Compare, Pass, Mismatch, Raise, Fail, Crash, LoseLock, target
  <2>3. data' = data \/ data' = "frozen"
    BY <1>3 DEF Step, Ask, Lock, Unlock, Reuse, Withdraw, Begin, Prepare, Load, Validate,
                Compare, Pass, Mismatch, Raise, Fail, Crash, LoseLock, target
  <2>4. \/ call' = call
        \/ \E k : k.at # "filling" /\ call' = [call EXCEPT ![c] = k]
    <3>1. ASSUME NEW p \in Position \ {"filling"}, Goto(c, p)
          PROVE  \E k : k.at # "filling" /\ call' = [call EXCEPT ![c] = k]
      <4>. DEFINE k == [call[c] EXCEPT !.at = p]
      <4>1. k.at = p /\ call' = [call EXCEPT ![c] = k]
        BY <1>0, <3>1 DEF Goto
      <4>. QED BY <4>1
    <3>2. ASSUME NEW n, NEW ok, Return(c, n, ok)
          PROVE  \E k : k.at # "filling" /\ call' = [call EXCEPT ![c] = k]
      <4>. DEFINE k == [call[c] EXCEPT !.at = "returning", !.attempt = n, !.ok = ok]
      <4>1. k.at = "returning" /\ call' = [call EXCEPT ![c] = k]
        BY <1>0, <3>2 DEF Return
      <4>. QED BY <4>1
    <3>3. CASE Lock(c) \/ Prepare(c) \/ Load(c) \/ Validate(c) \/ Compare(c) \/ Mismatch(c) \/ Raise(c)
      <4>1. PICK p \in Position \ {"filling"} : Goto(c, p)
        BY <3>3 DEF Lock, Prepare, Load, Validate, Compare, Mismatch, Raise, Position
      <4>. QED BY <3>1, <4>1
    <3>4. CASE Reuse(c) \/ Withdraw(c) \/ Pass(c) \/ Fail(c)
      BY <3>2, <3>4 DEF Reuse, Withdraw, Pass, Fail
    <3>5. CASE Begin(c)
      <4>. DEFINE k == [call[c] EXCEPT !.at = "preparing", !.attempt = Len(rows) + 1]
      <4>1. k.at = "preparing" /\ call' = [call EXCEPT ![c] = k]
        BY <1>0, <3>5 DEF Begin
      <4>. QED BY <4>1
    <3>6. CASE Unlock(c) \/ Crash(c)
      BY <3>6 DEF Unlock, Crash, NoCall
    <3>7. ASSUME NEW m \in Mechanism, Ask(c, m)
          PROVE  \E k : k.at # "filling" /\ call' = [call EXCEPT ![c] = k]
      <4>. DEFINE k == [NoCall EXCEPT !.at = "locking", !.mechanism = m]
      <4>1. k.at = "locking" /\ call' = [call EXCEPT ![c] = k]
        BY <3>7 DEF Ask, NoCall
      <4>. QED BY <4>1
    <3>8. CASE LoseLock(c)
      BY <3>8 DEF LoseLock
    <3>. QED BY <1>3, <3>3, <3>4, <3>5, <3>6, <3>7, <3>8 DEF Step
  <2>5. \A d \in Caller : call'[d].at = "filling" => call'[d] = call[d]
    BY <1>0, <2>4
  <2>6. up' = TRUE => up
    BY <2>2, Zenon
  <2>. QED BY <2>1, <2>3, <2>5, <2>6, VolumeAlone
<1>. QED BY <1>1, <1>2, <1>3

(* The end of a container that was alone on the volume.                    *)
LEMMA VolumeContainer ==
  ASSUME RestoreInv, VolumeInv, NEW n \in Attempt, Filled(n) \/ FillFailed(n)
  PROVE  VolumeInv'
<1>. SUFFICES ASSUME ~mixed' PROVE VolumeInv'
  BY DEF VolumeInv
<1>1. n \in writers /\ writers' = writers \ {n} /\ up' = up /\ mixed' = mixed
  BY DEF Filled, FillFailed
<1>2. writers' = {} /\ writers = {n} /\ ~up
  BY <1>1, Zenon DEF VolumeInv
<1>3. \A c \in Caller : call[c].at = "filling" => call[c].attempt = n
  BY <1>1, <1>2 DEF VolumeInv
<1>4. CASE Filled(n)
  <2>1. data' = "frozen" /\ call' = call
    BY <1>1, <1>2, <1>4 DEF Filled
  <2>. QED BY <1>1, <1>2, <2>1 DEF VolumeInv
<1>5. CASE FillFailed(n)
  <2>1. \A c \in Caller : call'[c].at # "filling"
    BY <1>3, <1>5 DEF FillFailed, RestoreInv, TypeOK
  <2>. QED BY <1>1, <1>2, <2>1 DEF VolumeInv
<1>. QED BY <1>4, <1>5

(* The types of the ledger, the target and the callers hold in every       *)
(* reachable state (restore/candidate.py).                                 *)
THEOREM RestoreTypesHold == Spec => []TypeOK
<1>1. RestoreInv => TypeOK
  BY DEF RestoreInv
<1>. QED BY <1>1, RestoreInvHolds, PTL

(* Whatever failed, crashed or went on after its client had given up, a    *)
(* damaged volume belongs to a stopped target, which a physical restore    *)
(* accepts, unless two containers met: restore_physical_archive starts the *)
(* target only after _restore_volume succeeded.                            *)
THEOREM RestoreCanBeRetried == Spec => []RestoreCanRetry
<1>1. Init => VolumeInv
  BY VolumeInit
<1>2. RestoreInv /\ VolumeInv /\ [Next]_vars => VolumeInv'
  <2>1. ASSUME VolumeInv, UNCHANGED vars PROVE VolumeInv'
    BY <2>1, VolumeAlone, Zenon DEF vars, target
  <2>. QED BY <2>1, VolumeStep, VolumeContainer DEF Next
<1>3. VolumeInv => RestoreCanRetry
  BY DEF VolumeInv, RestoreCanRetry
<1>. QED BY <1>1, <1>2, <1>3, RestoreInvHolds, PTL DEF Spec
=============================================================================
