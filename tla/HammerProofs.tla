----------------------------- MODULE HammerProofs ----------------------------
(***************************************************************************)
(* Proofs about Hammer, for any number of inserts and of resends.  What    *)
(* the counters promise is inductive once we know that the id of an answer *)
(* on its way is that of a row beyond all those counted.                   *)
(***************************************************************************)
EXTENDS Hammer, TLAPS

(* Before the table is made nothing has been counted or sent.              *)
NothingYet ==
    /\ ~ Hammering => good = 0 /\ acked = 0 /\ late = 0 /\ i = 0
    /\ pc = "create" => rows = 0

(* An answer on its way brings the id of a row not counted yet.            *)
AnswerIsAhead == pc = "executed" => good < id /\ id <= rows /\ i < Count

Inv == TypeOK /\ CountsBetween /\ NothingYet /\ AnswerIsAhead

(* The inserts that may have reached the database after one more attempt.  *)
LEMMA OneMoreAttempt ==
    ASSUME NEW n \in Nat
    PROVE  /\ MaxSend * n \in Nat
           /\ MaxSend * (n + 1) = MaxSend * n + MaxSend
           /\ MaxSend * 0 = 0
  BY HammerAssumption

LEMMA InitInv == Init => Inv
  BY HammerAssumption DEF Init, Inv, TypeOK, CountsBetween, NothingYet,
                          AnswerIsAhead, Hammering

LEMMA PrepInv == ASSUME Inv, Drop \/ Create \/ PrepFails PROVE Inv'
  <1>1. i = 0 /\ MaxSend * 0 = 0
    BY OneMoreAttempt DEF Inv, NothingYet, Hammering, Drop, Create, PrepFails
  <1>2. QED
    BY <1>1 DEF Inv, TypeOK, CountsBetween, NothingYet, AnswerIsAhead,
                Hammering, Begun, Drop, Create, PrepFails

LEMMA ExecuteInv ==
    ASSUME Inv, Execute
    PROVE  Inv' /\ good' = good /\ acked' = acked
  <1>1. PICK applied \in 0..(MaxSend - 1), delayed \in 0..(MaxSend - 1) :
          /\ applied + delayed <= MaxSend - 1
          /\ late' = late + delayed /\ rows' = rows + applied + 1
    BY DEF Execute, Unanswered
  <1>2. /\ i \in Nat /\ i < Count /\ pc = "insert" /\ pc' = "executed"
        /\ id' = rows' /\ UNCHANGED <<i, last, good, fails, acked>>
        /\ good \in Nat /\ rows \in Nat /\ late \in Nat /\ acked \in Nat
    BY HammerAssumption DEF Execute, Attempt, Inv, TypeOK
  <1>3. acked <= good /\ good <= rows /\ rows + late <= MaxSend * i
    BY <1>2 DEF Inv, CountsBetween, Hammering, Begun
  <1>4. rows' + late' <= rows + late + MaxSend
    BY <1>1, <1>2, HammerAssumption
  <1>5. rows' + late' <= MaxSend * (i + 1)
    BY <1>1, <1>2, <1>3, <1>4, OneMoreAttempt, HammerAssumption
  <1>6. rows' \in Nat /\ late' \in Nat /\ rows' > rows
    BY <1>1, <1>2, HammerAssumption
  <1>7. TypeOK'
    BY <1>2, <1>6 DEF Inv, TypeOK
  <1>8. CountsBetween' /\ NothingYet' /\ AnswerIsAhead'
    BY <1>2, <1>3, <1>5, <1>6
       DEF CountsBetween, NothingYet, AnswerIsAhead, Hammering, Begun
  <1>9. QED
    BY <1>2, <1>7, <1>8 DEF Inv

LEMMA SucceedInv ==
    ASSUME Inv, Succeed
    PROVE  Inv' /\ good' = id /\ good' > good
  <1>1. /\ i \in Nat /\ i < Count /\ i' = i + 1
        /\ pc = "executed" /\ pc' = "insert" /\ good < id /\ id <= rows
        /\ last' = id /\ id' = 0 /\ fails' = 0 /\ acked' = acked + 1
        /\ UNCHANGED <<rows, late>>
        /\ good \in Nat /\ id \in Nat /\ rows \in Nat /\ late \in Nat
        /\ acked \in Nat
    BY HammerAssumption DEF Succeed, Inv, TypeOK, AnswerIsAhead
  <1>2. good' = id
    BY <1>1 DEF Succeed, Counted
  <1>3. acked <= good /\ good <= rows /\ rows + late <= MaxSend * (i + 1)
    BY <1>1 DEF Inv, CountsBetween, Hammering, Begun
  <1>4. TypeOK'
    BY <1>1, <1>2, HammerAssumption DEF Inv, TypeOK
  <1>5. CountsBetween' /\ NothingYet' /\ AnswerIsAhead'
    BY <1>1, <1>2, <1>3
       DEF CountsBetween, NothingYet, AnswerIsAhead, Hammering, Begun
  <1>6. QED
    BY <1>1, <1>2, <1>4, <1>5 DEF Inv

LEMMA FailureInv ==
    ASSUME Inv, Eof \/ OtherError
    PROVE  Inv' /\ good' = good /\ acked' = acked
  <1>1. PICK applied \in 0..MaxSend, delayed \in 0..MaxSend :
          /\ applied + delayed <= MaxSend
          /\ late' = late + delayed /\ rows' = rows + applied
    BY DEF Eof, OtherError, Failure, Unanswered
  <1>2. /\ i \in Nat /\ i < Count /\ pc = "insert" /\ fails' = fails + 1
        /\ UNCHANGED <<last, good, id, acked>>
        /\ last \in Nat /\ good \in Nat /\ fails \in Nat /\ id \in Nat
        /\ rows \in Nat /\ late \in Nat /\ acked \in Nat
    BY HammerAssumption DEF Eof, OtherError, Failure, Attempt, Inv, TypeOK
  <1>3. \/ i' = i + 1 /\ pc' = "insert"
        \/ i' = i /\ pc' = "panicked"
    BY <1>2 DEF Eof, OtherError
  <1>4. acked <= good /\ good <= rows /\ rows + late <= MaxSend * i
    BY <1>2 DEF Inv, CountsBetween, Hammering, Begun
  <1>5. rows' \in Nat /\ late' \in Nat /\ rows' >= rows
    BY <1>1, <1>2, HammerAssumption
  <1>6. rows' + late' <= MaxSend * (i + 1)
    BY <1>1, <1>2, <1>4, OneMoreAttempt, HammerAssumption
  <1>7. TypeOK'
    BY <1>2, <1>3, <1>5, HammerAssumption DEF Inv, TypeOK
  <1>8. CountsBetween' /\ NothingYet' /\ AnswerIsAhead'
    BY <1>2, <1>3, <1>4, <1>5, <1>6
       DEF CountsBetween, NothingYet, AnswerIsAhead, Hammering, Begun
  <1>9. QED
    BY <1>2, <1>7, <1>8 DEF Inv

LEMMA OtherInv ==
    ASSUME Inv, Finish \/ ApplyLate
    PROVE  Inv' /\ good' = good /\ acked' = acked
  <1>1. CASE Finish
    BY <1>1 DEF Finish, Inv, TypeOK, CountsBetween, NothingYet, AnswerIsAhead,
                Hammering, Begun
  <1>2. CASE ApplyLate
    <2>1. /\ late' = late - 1 /\ rows' = rows + 1 /\ late > 0
          /\ UNCHANGED <<pc, i, last, good, fails, id, acked>>
      BY <1>2 DEF ApplyLate
    <2>2. rows \in Nat /\ late \in Nat /\ good \in Nat /\ id \in Nat
      BY DEF Inv, TypeOK
    <2>3. late' \in Nat /\ rows' \in Nat /\ rows' + late' = rows + late /\ rows' >= rows
      BY <2>1, <2>2
    <2>4. Hammering
      BY <2>1, <2>2 DEF Inv, NothingYet
    <2>5. QED
      BY <2>1, <2>2, <2>3, <2>4
         DEF Inv, TypeOK, CountsBetween, NothingYet, AnswerIsAhead, Hammering,
             Begun
  <1>3. QED
    BY <1>1, <1>2

LEMMA Invariant == Spec => []Inv
  <1>1. Inv /\ [Next]_vars => Inv'
    <2> SUFFICES ASSUME Inv, [Next]_vars PROVE Inv'
      OBVIOUS
    <2>1. CASE UNCHANGED vars
      BY <2>1 DEF vars, Inv, TypeOK, CountsBetween, NothingYet, AnswerIsAhead,
                  Hammering, Begun
    <2>2. QED
      BY <2>1, PrepInv, ExecuteInv, SucceedInv, FailureInv, OtherInv DEF Next
  <1>2. QED
    BY <1>1, InitInv, PTL DEF Spec

------------------------------------------------------------------------------
(* The counters of the hammer are natural numbers within their bounds.     *)
THEOREM TypeCorrect == Spec => []TypeOK
  <1>1. Inv => TypeOK
    BY DEF Inv
  <1>2. QED
    BY <1>1, Invariant, PTL

(* The hammer never counts a success less than it was told, nor a row more *)
(* than there is, whatever is lost, sent again or late.                    *)
THEOREM CountsBetweenAlways == Spec => []CountsBetween
  <1>1. Inv => CountsBetween
    BY DEF Inv
  <1>2. QED
    BY <1>1, Invariant, PTL

(* Good never goes back, and each success brings it to the id of the row   *)
(* it stands for, however many rows were lost or came late in between.     *)
THEOREM GoodCatchesUpAlways == Spec => GoodCatchesUp
  <1>1. Inv /\ [Next]_vars =>
          [good' >= good /\ (acked' > acked => good' > good /\ good' = id)]_vars
    <2> SUFFICES ASSUME Inv, Next
                 PROVE  good' >= good /\ (acked' > acked => good' > good /\ good' = id)
      OBVIOUS
    <2>1. good \in Nat /\ acked \in Nat /\ good' \in Nat
      BY PrepInv, ExecuteInv, SucceedInv, FailureInv, OtherInv
         DEF Next, Inv, TypeOK
    <2>2. CASE Succeed
      BY <2>1, <2>2, SucceedInv
    <2>3. CASE Execute \/ Eof \/ OtherError \/ Finish \/ ApplyLate
      BY <2>1, <2>3, ExecuteInv, FailureInv, OtherInv
    <2>4. CASE Drop \/ Create \/ PrepFails
      BY <2>1, <2>4 DEF Drop, Create, PrepFails
    <2>5. QED
      BY <2>2, <2>3, <2>4 DEF Next
  <1>2. QED
    BY <1>1, Invariant, PTL DEF Spec, GoodCatchesUp
==============================================================================
