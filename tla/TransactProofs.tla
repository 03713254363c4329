---------------------------- MODULE TransactProofs ---------------------------
(***************************************************************************)
(* Proofs about Transact, for files of any length.                         *)
(*                                                                         *)
(* That lines arrive in order and completely follows from where the lines  *)
(* scanned so far are: applied, being executed, or waiting on the channel. *)
(***************************************************************************)
EXTENDS Transact, DatabaseProofs, TLAPS

Loading == consumer \in {"beginning", "receiving", "executing", "committing"}

(* The lines scanned are those applied and the ones on their way.          *)
LinesAccounted ==
    Loading \/ result = "nil" =>
        line = Len(applied) + (IF consumer = "executing" THEN 1 ELSE 0)
                            + (IF producer = "sending" THEN 1 ELSE 0)

(* The line being executed is the next one.                                *)
NextLine == consumer = "executing" => current = Len(applied) + 1

AppliedInOrder == \A i \in 1..Len(applied) : applied[i] = i

(* The producer lives between the opening of the file and its end, and it  *)
(* gives up early only when the consumer has returned.                     *)
ProducerPlace ==
    /\ consumer = "opening" => producer = "none" /\ line = 0 /\ applied = <<>>
    /\ Loading \/ result = "nil" =>
        /\ producer \in {"scanning", "sending", "closed", "ended"}
        /\ producer \in {"closed", "ended"} => line = Len(file)
    /\ consumer = "committing" \/ result = "nil" => producer \in {"closed", "ended"}

(* Before transact begins its transaction the connection is as it was; if  *)
(* no line ends that transaction, all lines executed are pending in it.    *)
ConnectionPlace ==
    /\ consumer \in {"opening", "beginning"} => db = Fresh /\ applied = <<>>
    /\ Single /\ consumer \in {"receiving", "executing", "committing"} =>
         db.open /\ db.durable = {} /\ db.pending = 1..Len(applied)

ResultPlace == result # "none" <=> consumer = "returned"

Inv == /\ TypeOK /\ LinesAccounted /\ NextLine /\ AppliedInOrder
       /\ ProducerPlace /\ ConnectionPlace /\ ResultPlace
       /\ AllOrNothing /\ NothingLeftPending

------------------------------------------------------------------------------
LEMMA InitInv == Init => Inv
  <1> SUFFICES ASSUME Init PROVE Inv
    OBVIOUS
  <1> USE TransactAssumption DEF Init
  <1>1. PICK n \in 0..MaxLine : file \in [1..n -> Kind]
    OBVIOUS
  <1>2. file \in Seq(Kind) /\ Len(file) = n
    BY <1>1
  <1>3. Fresh \in Connection /\ Fresh.durable = {} /\ Fresh.pending = {} /\ ~ Fresh.open
    BY DEF Fresh, Conn, Connection
  <1>4. TypeOK /\ AllOrNothing /\ NothingLeftPending
    BY <1>2, <1>3 DEF TypeOK, AllOrNothing, NothingLeftPending
  <1>5. QED
    BY <1>4 DEF Inv, LinesAccounted, NextLine, AppliedInOrder, ProducerPlace,
                ConnectionPlace, ResultPlace, Loading

LEMMA LinerInv == ASSUME Inv, Liner PROVE Inv'
  <1> USE DEF Inv, Produce
  <1>1. UNCHANGED <<file, consumer, current, applied, db, result>>
    BY DEF Liner, Scan, ScanEnds, CloseReader
  <1>2. \/ producer' = "sending" /\ line' = line + 1 /\ Scan
        \/ producer' \in {"closed", "ended"} /\ line' = line
    BY DEF Liner, Scan, ScanEnds, CloseReader
  <1>3. TypeOK'
    BY <1>1, <1>2 DEF TypeOK, Scan
  <1>4. LinesAccounted' /\ ProducerPlace'
    <2> USE DEF TypeOK, LinesAccounted, ProducerPlace, ResultPlace, Loading
    <2>1. CASE Scan
      BY <2>1 DEF Scan
    <2>2. CASE ScanEnds
      BY <2>2 DEF ScanEnds
    <2>3. CASE CloseReader
      BY <2>3 DEF CloseReader
    <2>4. QED
      BY <2>1, <2>2, <2>3 DEF Liner
  <1>5. NothingLeftPending'
    BY <1>1, <1>2 DEF NothingLeftPending, TypeOK
  <1>6. NextLine' /\ AppliedInOrder' /\ ConnectionPlace' /\ ResultPlace' /\ AllOrNothing'
    BY <1>1 DEF NextLine, AppliedInOrder, ConnectionPlace, ResultPlace,
                AllOrNothing, Single, Lines
  <1>7. QED
    BY <1>3, <1>4, <1>5, <1>6

LEMMA ReceiveInv == ASSUME Inv, Receive PROVE Inv'
  <1> USE DEF Inv, Receive, Consume, Produce
  <1>1. TypeOK' /\ LinesAccounted' /\ NextLine' /\ ProducerPlace'
    BY DEF TypeOK, LinesAccounted, NextLine, ProducerPlace, ResultPlace, Loading
  <1>2. AppliedInOrder' /\ ConnectionPlace' /\ ResultPlace'
    BY DEF AppliedInOrder, ConnectionPlace, ResultPlace, Single, Lines
  <1>3. AllOrNothing' /\ NothingLeftPending'
    BY DEF AllOrNothing, NothingLeftPending, Single, Lines
  <1>4. QED
    BY <1>1, <1>2, <1>3

LEMMA ExecInv == ASSUME Inv, Exec PROVE Inv'
  <1> USE TransactAssumption DEF Inv, Exec, Consume
  <1>1. /\ current = Len(applied) + 1 /\ current \in 1..line /\ current \in Lines
        /\ current \in 1..MaxLine /\ applied \in Seq(1..MaxLine)
        /\ file[current] \in Kind /\ current \in Nat /\ db \in Connection
    BY DEF TypeOK, NextLine, Lines
  <1>2. /\ applied' \in Seq(1..MaxLine)
        /\ Len(applied') = Len(applied) + 1
        /\ \A i \in 1..Len(applied') :
             applied'[i] = IF i <= Len(applied) THEN applied[i] ELSE current
    BY <1>1
  <1>3. AppliedInOrder'
    BY <1>1, <1>2 DEF AppliedInOrder
  <1>4. /\ db' \in Connection
        /\ db'.durable \cup db'.pending \subseteq db.durable \cup db.pending \cup {current}
    BY <1>1, AfterAdds
  <1>5. TypeOK'
    BY <1>2, <1>4 DEF TypeOK
  <1>6. LinesAccounted'
    BY <1>1, <1>2 DEF TypeOK, LinesAccounted, Loading, ResultPlace
  <1>7. NothingLeftPending'
    BY <1>1, <1>4 DEF NothingLeftPending
  <1>8. ConnectionPlace'
    <2> SUFFICES ASSUME Single'
                 PROVE  db'.open /\ db'.durable = {} /\ db'.pending = 1..Len(applied')
      BY DEF ConnectionPlace
    <2>1. Single /\ db.open /\ db.durable = {} /\ db.pending = 1..Len(applied)
      BY DEF ConnectionPlace, Single, Lines
    <2>2. file[current] = "plain"
      BY <1>1, <2>1 DEF Single, Kind, Accepts
    <2>3. db'.open /\ db'.durable = {} /\ db'.pending = db.pending \cup {current}
      BY <1>1, <2>1, <2>2, AfterPlain DEF Conn
    <2>4. 1..Len(applied) \cup {current} = 1..Len(applied')
      BY <1>1, <1>2
    <2>5. QED
      BY <2>1, <2>3, <2>4
  <1>9. AllOrNothing'
    <2>1. result' = "none" /\ (Single' => db'.durable = {})
      BY <1>8 DEF ResultPlace, ConnectionPlace, TypeOK
    <2>2. QED
      BY <2>1 DEF AllOrNothing
  <1>10. NextLine' /\ ProducerPlace' /\ ResultPlace'
    BY DEF NextLine, ProducerPlace, ResultPlace, Loading, TypeOK
  <1>11. QED
    BY <1>3, <1>5, <1>6, <1>7, <1>8, <1>9, <1>10

(* What all failures have in common: nothing single-handed is durable.     *)
LEMMA FailsInv ==
    ASSUME Inv, OpenFails \/ BeginFails \/ ExecFails
    PROVE  Inv'
  <1> USE DEF Inv, Fails, Consume
  <1>1. UNCHANGED <<file, producer, line, current, applied>>
    BY DEF OpenFails, BeginFails, ExecFails
  <1>2. /\ db' \in Connection /\ ~ db'.open /\ db'.pending = {}
        /\ db'.durable \subseteq 1..line
        /\ Single => db'.durable = {}
    <2>1. CASE OpenFails \/ BeginFails
      <3>1. db = Fresh /\ db' = db /\ db \in Connection
        BY <2>1 DEF OpenFails, BeginFails, ConnectionPlace, TypeOK
      <3>2. QED
        BY <3>1 DEF Fresh, Conn
    <2>2. CASE ExecFails /\ db' = Abort(db)
      BY <2>2, AbortDrops
         DEF ExecFails, TypeOK, ConnectionPlace, NothingLeftPending
    <2>3. CASE ExecFails /\ Accepts(db, file[current])
                        /\ db' = Abort(After(db, file[current], current))
      <3> DEFINE mid == After(db, file[current], current)
      <3>1. /\ current \in 1..line /\ current \in Lines /\ current \in Nat
            /\ file[current] \in Kind /\ db \in Connection
        BY <2>3 DEF ExecFails, TypeOK, NextLine, Lines
      <3>2. /\ mid \in Connection
            /\ mid.durable \subseteq db.durable \cup db.pending \cup {current}
        BY <3>1, AfterAdds
      <3>3. Single => mid.durable = {}
        <4> SUFFICES ASSUME Single PROVE mid.durable = {}
          OBVIOUS
        <4>1. db.open /\ db.durable = {}
          BY <2>3 DEF ExecFails, ConnectionPlace
        <4>2. file[current] = "plain"
          BY <2>3, <3>1, <4>1 DEF Single, Kind, Accepts
        <4>3. QED
          BY <3>1, <4>1, <4>2, AfterPlain DEF Conn
      <3>4. mid.durable \subseteq 1..line
        BY <3>1, <3>2 DEF NothingLeftPending
      <3>5. QED
        BY <2>3, <3>2, <3>3, <3>4, AbortDrops
    <2>4. QED
      BY <2>1, <2>2, <2>3 DEF ExecFails
  <1>3. consumer' = "returned" /\ result' = "err"
    BY DEF OpenFails, BeginFails, ExecFails
  <1>4. TypeOK'
    BY <1>1, <1>2, <1>3 DEF TypeOK
  <1>5. LinesAccounted' /\ NextLine' /\ ProducerPlace' /\ ConnectionPlace' /\ ResultPlace'
    BY <1>3 DEF LinesAccounted, NextLine, ProducerPlace, ConnectionPlace,
                ResultPlace, Loading
  <1>6. AppliedInOrder' /\ NothingLeftPending' /\ AllOrNothing'
    BY <1>1, <1>2, <1>3
       DEF AppliedInOrder, NothingLeftPending, AllOrNothing, Single, Lines
  <1>7. QED
    BY <1>4, <1>5, <1>6

LEMMA CommitInv == ASSUME Inv, Commit PROVE Inv'
  <1> USE DEF Inv, Commit, Consume
  <1>1. db \in Connection /\ "commit" \in Kind /\ 0 \in Nat
    BY DEF TypeOK, Kind
  <1>2. /\ db' \in Connection /\ ~ db'.open /\ db'.pending = {}
        /\ db'.durable \in {db.durable, db.durable \cup db.pending}
    <2>1. CASE db' = Abort(db)
      BY <1>1, <2>1, AbortDrops
    <2>2. CASE db' = After(db, "commit", 0)
      BY <1>1, <2>2, AfterAdds, AfterCommit DEF Conn
    <2>3. QED
      BY <2>1, <2>2
  <1>3. TypeOK' /\ AppliedInOrder' /\ NothingLeftPending'
    BY <1>2 DEF TypeOK, AppliedInOrder, NothingLeftPending
  <1>4. Len(applied) = Len(file)
    BY DEF TypeOK, LinesAccounted, ProducerPlace, Loading
  <1>5. AllOrNothing'
    <2> SUFFICES ASSUME Single' PROVE db'.durable \in {{}, Lines'}
      BY DEF AllOrNothing
    <2>1. Single /\ db.durable = {} /\ db.pending = Lines
      BY <1>4 DEF ConnectionPlace, Single, Lines
    <2>2. QED
      BY <1>2, <2>1 DEF Lines
  <1>6. LinesAccounted' /\ NextLine' /\ ProducerPlace' /\ ConnectionPlace' /\ ResultPlace'
    BY DEF LinesAccounted, NextLine, ProducerPlace, ConnectionPlace,
           ResultPlace, Loading
  <1>7. QED
    BY <1>3, <1>5, <1>6

LEMMA LoadInv == ASSUME Inv, Load PROVE Inv'
  <1> USE DEF Inv, Consume, Produce
  <1>1. CASE OpenFile
    <2>1. TypeOK' /\ LinesAccounted' /\ NextLine' /\ ProducerPlace'
      BY <1>1 DEF OpenFile, TypeOK, LinesAccounted, NextLine, ProducerPlace,
                  ResultPlace, Loading
    <2>2. AppliedInOrder' /\ ConnectionPlace' /\ ResultPlace'
      BY <1>1 DEF OpenFile, AppliedInOrder, ConnectionPlace, ResultPlace
    <2>3. AllOrNothing' /\ NothingLeftPending'
      BY <1>1 DEF OpenFile, AllOrNothing, NothingLeftPending, Single, Lines
    <2>4. QED
      BY <2>1, <2>2, <2>3
  <1>2. CASE Begin
    <2>1. db = Fresh /\ Fresh \in Connection /\ "begin" \in Kind /\ 0 \in Nat
      BY <1>2 DEF Begin, ConnectionPlace, Fresh, Conn, Connection, Kind
    <2>2. /\ db' \in Connection /\ db'.open
          /\ db'.durable = {} /\ db'.pending = {}
      BY <1>2, <2>1, AfterAdds, AfterBegin DEF Begin, Fresh, Conn
    <2>3. applied = <<>> /\ line = (IF producer = "sending" THEN 1 ELSE 0)
      BY <1>2 DEF Begin, ConnectionPlace, LinesAccounted, Loading, ProducerPlace
    <2>4. TypeOK' /\ LinesAccounted' /\ NextLine' /\ ProducerPlace'
      BY <1>2, <2>2 DEF Begin, TypeOK, LinesAccounted, NextLine, ProducerPlace,
                        ResultPlace, Loading
    <2>5. AppliedInOrder' /\ ConnectionPlace' /\ ResultPlace'
      BY <1>2, <2>2, <2>3 DEF Begin, AppliedInOrder, ConnectionPlace, ResultPlace
    <2>6. AllOrNothing' /\ NothingLeftPending'
      BY <1>2, <2>2 DEF Begin, AllOrNothing, NothingLeftPending, ResultPlace,
                        Single, Lines
    <2>7. QED
      BY <2>4, <2>5, <2>6
  <1>3. CASE EndOfLines
    <2>1. TypeOK' /\ LinesAccounted' /\ NextLine' /\ ProducerPlace'
      BY <1>3 DEF EndOfLines, TypeOK, LinesAccounted, NextLine, ProducerPlace,
                  ResultPlace, Loading
    <2>2. AppliedInOrder' /\ ConnectionPlace' /\ ResultPlace'
      BY <1>3 DEF EndOfLines, AppliedInOrder, ConnectionPlace, ResultPlace,
                  Single, Lines
    <2>3. AllOrNothing' /\ NothingLeftPending'
      BY <1>3 DEF EndOfLines, AllOrNothing, NothingLeftPending, Single, Lines
    <2>4. QED
      BY <2>1, <2>2, <2>3
  <1>4. QED
    BY <1>1, <1>2, <1>3, ExecInv, FailsInv, CommitInv DEF Load

LEMMA Invariant == Spec => []Inv
  <1>1. Inv /\ [Next]_vars => Inv'
    <2> SUFFICES ASSUME Inv, [Next]_vars PROVE Inv'
      OBVIOUS
    <2>1. CASE UNCHANGED vars
      BY <2>1 DEF vars, Inv, TypeOK, LinesAccounted, NextLine, AppliedInOrder,
                  ProducerPlace, ConnectionPlace, ResultPlace, Loading,
                  AllOrNothing, NothingLeftPending, Single, Lines
    <2>2. QED
      BY <2>1, LinerInv, ReceiveInv, LoadInv DEF Next
  <1>2. QED
    BY <1>1, InitInv, PTL DEF Spec

------------------------------------------------------------------------------
(* The state of the two goroutines is of the right type.                   *)
THEOREM TypeCorrect == Spec => []TypeOK
  <1>1. Inv => TypeOK
    BY DEF Inv
  <1>2. QED
    BY <1>1, Invariant, PTL

(* Lines are executed in the order of the file, none left out or repeated. *)
THEOREM InFileOrderAlways == Spec => []InFileOrder
  <1>1. Inv => InFileOrder
    BY DEF Inv, TypeOK, AppliedInOrder, InFileOrder
  <1>2. QED
    BY <1>1, Invariant, PTL

(* A load whose lines do not end the transaction stores all that can be    *)
(* read, or nothing.                                                       *)
THEOREM AllOrNothingAlways == Spec => []AllOrNothing
  <1>1. Inv => AllOrNothing
    BY DEF Inv
  <1>2. QED
    BY <1>1, Invariant, PTL

(* Whatever the lines do, the load ends outside any transaction.           *)
THEOREM NothingLeftPendingAlways == Spec => []NothingLeftPending
  <1>1. Inv => NothingLeftPending
    BY DEF Inv
  <1>2. QED
    BY <1>1, Invariant, PTL

(* A load that succeeds leaves no goroutine blocked on the channel.        *)
THEOREM LeftBehindOnlyOnErrorAlways == Spec => []LeftBehindOnlyOnError
  <1>1. Inv => LeftBehindOnlyOnError
    BY DEF Inv, ProducerPlace, LeftBehindOnlyOnError
  <1>2. QED
    BY <1>1, Invariant, PTL

------------------------------------------------------------------------------
(* How many steps the two goroutines have left.  A line costs the producer *)
(* two steps, the second of which is shared with the consumer and gives it *)
(* one more to take.                                                       *)
ProducerLeft == CASE producer = "none"     -> 2 * (Len(file) - line) + 3
                  [] producer = "scanning" -> 2 * (Len(file) - line) + 2
                  [] producer = "sending"  -> 2 * (Len(file) - line) + 3
                  [] producer = "closed"   -> 1
                  [] OTHER                 -> 0

ConsumerLeft == CASE consumer = "opening"    -> 4
                  [] consumer = "beginning"  -> 3
                  [] consumer = "receiving"  -> 2
                  [] consumer = "executing"  -> 3
                  [] consumer = "committing" -> 1
                  [] OTHER                   -> 0

StepsLeft == 2 * ProducerLeft + ConsumerLeft

LEMMA LeftFalls ==
    ASSUME NEW p \in Nat, NEW c \in Nat, NEW q \in Nat, NEW d \in Nat,
           (q <= p /\ d < c) \/ (q < p /\ d <= c + 1)
    PROVE  2 * q + d < 2 * p + c
  OBVIOUS

LEMMA LeftType == ASSUME Inv PROVE ProducerLeft \in Nat /\ ConsumerLeft \in Nat
  <1>1. Len(file) - line \in Nat
    BY DEF Inv, TypeOK
  <1>2. QED
    BY <1>1 DEF ProducerLeft, ConsumerLeft

(* A load of n lines takes 4 * n + 10 steps at most, whatever the database *)
(* and the scheduler do, and never waits on the channel for nobody: this   *)
(* is what LoadReturns and LinerEnds rest on besides fairness.             *)
THEOREM LoadStepsRunOut ==
    Spec => /\ [](StepsLeft \in Nat /\ StepsLeft <= 4 * Len(file) + 10)
            /\ [][StepsLeft' < StepsLeft]_vars
            /\ [](consumer = "receiving" => producer # "none")
  <1>1. Inv => StepsLeft \in Nat /\ StepsLeft <= 4 * Len(file) + 10
    <2> SUFFICES ASSUME Inv
                 PROVE  StepsLeft \in Nat /\ StepsLeft <= 4 * Len(file) + 10
      OBVIOUS
    <2>1. Len(file) \in Nat /\ line \in Nat /\ line <= Len(file)
      BY DEF Inv, TypeOK
    <2>2. ProducerLeft \in Nat /\ ConsumerLeft \in Nat
      BY LeftType
    <2>3. ConsumerLeft <= 4
      BY DEF ConsumerLeft
    <2>4. ProducerLeft <= 2 * Len(file) + 3
      BY <2>1 DEF ProducerLeft
    <2>5. QED
      BY <2>1, <2>2, <2>3, <2>4 DEF StepsLeft
  <1>2. Inv /\ [Next]_vars => [StepsLeft' < StepsLeft]_vars
    <2> SUFFICES ASSUME Inv, Next
                 PROVE  StepsLeft' < StepsLeft
      OBVIOUS
    <2>1. ProducerLeft \in Nat /\ ConsumerLeft \in Nat
      BY LeftType
    <2>2. Len(file) \in Nat /\ line \in Nat /\ line <= Len(file)
      BY DEF Inv, TypeOK
    <2>3. CASE Liner
      <3>1. ConsumerLeft' \in Nat /\ ConsumerLeft' <= ConsumerLeft + 1
        BY <2>3 DEF Liner, Scan, ScanEnds, CloseReader, ConsumerLeft
      <3>2. ProducerLeft' \in Nat /\ ProducerLeft' < ProducerLeft
        <4>1. CASE Scan
          BY <2>2, <4>1 DEF Scan, Produce, ProducerLeft
        <4>2. CASE ScanEnds
          BY <2>2, <4>2 DEF ScanEnds, Produce, ProducerLeft
        <4>3. CASE CloseReader
          BY <2>2, <4>3 DEF CloseReader, Produce, ProducerLeft
        <4>4. QED
          BY <2>3, <4>1, <4>2, <4>3 DEF Liner
      <3>3. QED
        BY <2>1, <3>1, <3>2, LeftFalls DEF StepsLeft
    <2>4. CASE Load
      <3>1. ConsumerLeft' < ConsumerLeft /\ ConsumerLeft' \in Nat
        BY <2>4 DEF Load, OpenFails, OpenFile, BeginFails, Begin, Exec,
                    ExecFails, EndOfLines, Commit, Fails, Consume, ConsumerLeft
      <3>2. ProducerLeft' \in Nat /\ ProducerLeft' <= ProducerLeft
        <4>1. CASE OpenFile
          BY <2>2, <4>1 DEF OpenFile, Produce, ProducerLeft
        <4>2. CASE ~ OpenFile
          <5>1. ProducerLeft' = ProducerLeft
            BY <2>4, <4>2 DEF Load, OpenFails, BeginFails, Begin, Exec,
                              ExecFails, EndOfLines, Commit, ProducerLeft
          <5>2. QED
            BY <2>1, <5>1
        <4>3. QED
          BY <4>1, <4>2
      <3>3. QED
        BY <2>1, <3>1, <3>2, LeftFalls DEF StepsLeft
    <2>5. CASE Receive
      <3>1. ProducerLeft' \in Nat /\ ProducerLeft' < ProducerLeft
        BY <2>2, <2>5 DEF Receive, Produce, ProducerLeft
      <3>2. ConsumerLeft' \in Nat /\ ConsumerLeft' <= ConsumerLeft + 1
        BY <2>5 DEF Receive, Consume, ConsumerLeft
      <3>3. QED
        BY <2>1, <3>1, <3>2, LeftFalls DEF StepsLeft
    <2>6. QED
      BY <2>3, <2>4, <2>5 DEF Next
  <1>3. Inv => (consumer = "receiving" => producer # "none")
    BY DEF Inv, ProducerPlace, Loading
  <1>4. QED
    BY <1>1, <1>2, <1>3, Invariant, PTL DEF Spec
==============================================================================
