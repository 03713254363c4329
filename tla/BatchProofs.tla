------------------------------ MODULE BatchProofs ----------------------------
(***************************************************************************)
(* Proofs about Batch, for texts of any length.                            *)
(*                                                                         *)
(* Batch decides from two flags and a buffer that change line by line,     *)
(* while the properties speak of the text as a whole.  The invariant says  *)
(* that the flags are what the text so far amounts to, and where in the    *)
(* text the buffer begins.                                                 *)
(***************************************************************************)
EXTENDS Batch, DatabaseProofs, TLAPS

(* The flags are what the text says of the next line; that of triggers,    *)
(* when they are written plainly.                                          *)
FlagsTell ==
    /\ PlainTriggers => (trigger <=> InTrigger(line + 1))
    /\ pc = "reading" => (tx <=> InTransaction(line + 1))

(* The buffer begins after the last line that no statement goes on past.   *)
BufferBegins == pc = "reading" =>
    /\ \A i \in Lines : first <= i /\ i <= line => text[i] \notin {"begin_tx", "commit_tx"}
    /\ PlainTriggers =>
         /\ first = 1 \/ Boundary(first - 1)
         /\ \A i \in Lines : first <= i /\ i <= line => ~ Boundary(i)

Inv == /\ TypeOK /\ FlagsTell /\ BufferBegins
       /\ StatementsWhole /\ DisciplinedGoesOn

------------------------------------------------------------------------------
(* What one more line means for the lines after it.                        *)

LEMMA TriggerStep ==
    ASSUME text \in Seq(Line), NEW n \in Lines
    PROVE  InTrigger(n + 1) <=>
             ~ EndsTrigger(n) /\ (OpensTrigger(n) \/ InTrigger(n))
  <1>0. Lines \subseteq Nat
    BY DEF Lines
  <1>1. ASSUME InTrigger(n + 1)
        PROVE  ~ EndsTrigger(n) /\ (OpensTrigger(n) \/ InTrigger(n))
    <2>1. PICK t \in Lines :
            /\ t < n + 1 /\ OpensTrigger(t)
            /\ \A j \in Lines : t <= j /\ j < n + 1 => ~ EndsTrigger(j)
      BY <1>1 DEF InTrigger
    <2>2. ~ EndsTrigger(n)
      BY <1>0, <2>1
    <2>3. CASE t = n
      BY <2>1, <2>2, <2>3
    <2>4. CASE t < n
      BY <1>0, <2>1, <2>2, <2>4 DEF InTrigger
    <2>5. QED
      BY <1>0, <2>1, <2>3, <2>4
  <1>2. ASSUME OpensTrigger(n)
        PROVE  InTrigger(n + 1) /\ ~ EndsTrigger(n)
    BY <1>0, <1>2 DEF InTrigger, OpensTrigger, EndsTrigger
  <1>3. ASSUME InTrigger(n), ~ EndsTrigger(n)
        PROVE  InTrigger(n + 1)
    BY <1>0, <1>3 DEF InTrigger
  <1>4. QED
    BY <1>1, <1>2, <1>3

LEMMA TransactionStep ==
    ASSUME text \in Seq(Line), NEW n \in Lines
    PROVE  InTransaction(n + 1) <=>
             /\ text[n] # "commit_tx"
             /\ text[n] = "begin_tx" \/ InTransaction(n)
  <1>0. Lines \subseteq Nat
    BY DEF Lines
  <1>1. ASSUME InTransaction(n + 1)
        PROVE  /\ text[n] # "commit_tx"
               /\ text[n] = "begin_tx" \/ InTransaction(n)
    <2>1. PICK b \in Lines :
            /\ b < n + 1 /\ text[b] = "begin_tx"
            /\ \A j \in Lines : b <= j /\ j < n + 1 => text[j] # "commit_tx"
      BY <1>1 DEF InTransaction
    <2>2. text[n] # "commit_tx"
      BY <1>0, <2>1
    <2>3. CASE b = n
      BY <2>1, <2>2, <2>3
    <2>4. CASE b < n
      BY <1>0, <2>1, <2>2, <2>4 DEF InTransaction
    <2>5. QED
      BY <1>0, <2>1, <2>3, <2>4
  <1>2. ASSUME text[n] = "begin_tx"
        PROVE  InTransaction(n + 1)
    BY <1>0, <1>2 DEF InTransaction
  <1>3. ASSUME InTransaction(n), text[n] # "commit_tx"
        PROVE  InTransaction(n + 1)
    BY <1>0, <1>3 DEF InTransaction
  <1>4. QED
    BY <1>1, <1>2, <1>3

(* When triggers are written plainly, what the lines mean is what Batch    *)
(* makes of them.                                                          *)
LEMMA PlainSays ==
    ASSUME PlainTriggers, NEW n \in Lines
    PROVE  /\ EndsTrigger(n) <=> text[n] = "end"
           /\ OpensTrigger(n) <=> text[n] = "trigger"
           /\ Closes(n) <=> text[n] \in Ending \/ (text[n] \in Statement /\ ~ InTrigger(n))
           /\ text[n] \notin {"short_trigger", "change_end"}
  <1>1. text[n] # "short_trigger" /\ text[n] # "change_end"
    BY DEF PlainTriggers
  <1>2. QED
    BY <1>1 DEF EndsTrigger, OpensTrigger, Closes, Ending

(* A statement that ends with the next line is what is in the buffer.      *)
LEMMA BufferIsStatement ==
    ASSUME TypeOK, BufferBegins, PlainTriggers, pc = "reading", line < Len(text),
           Closes(line + 1)
    PROVE  /\ IsStatement(first, line + 1)
           /\ \A a \in Lines : IsStatement(a, line + 1) => a = first
  <1>1. line \in Nat /\ first \in 1..(line + 1) /\ Len(text) \in Nat
    BY DEF TypeOK
  <1>2. first = 1 \/ Boundary(first - 1)
    BY DEF BufferBegins
  <1>3. \A i \in Lines : first <= i /\ i <= line => ~ Boundary(i)
    BY DEF BufferBegins
  <1>4. IsStatement(first, line + 1)
    BY <1>1, <1>2, <1>3 DEF IsStatement, Lines
  <1>5. ASSUME NEW a \in Lines, IsStatement(a, line + 1)
        PROVE  a = first
    <2>1. a \in Nat \ {0} /\ a <= line + 1
      BY <1>5 DEF Lines, IsStatement
    <2>2. ~ a < first
      <3> SUFFICES ASSUME a < first PROVE FALSE
        OBVIOUS
      <3>1. first - 1 \in Lines /\ a <= first - 1 /\ first - 1 < line + 1
        BY <1>1, <2>1 DEF Lines
      <3>2. Boundary(first - 1)
        BY <1>1, <1>2, <2>1
      <3>3. QED
        BY <1>1, <1>5, <3>1, <3>2 DEF IsStatement
    <2>3. ~ first < a
      <3> SUFFICES ASSUME first < a PROVE FALSE
        OBVIOUS
      <3>1. a # 1 /\ a - 1 \in Lines /\ first <= a - 1 /\ a - 1 <= line
        BY <1>1, <1>5, <2>1 DEF Lines
      <3>2. Boundary(a - 1)
        BY <1>5, <3>1 DEF IsStatement
      <3>3. QED
        BY <1>3, <3>1, <3>2
    <2>4. QED
      BY <1>1, <2>1, <2>2, <2>3
  <1>6. QED
    BY <1>4, <1>5

------------------------------------------------------------------------------
LEMMA InitInv == Init => Inv
  <1> SUFFICES ASSUME Init PROVE Inv
    OBVIOUS
  <1>1. PICK n \in 0..MaxLine : text \in [1..n -> Line]
    BY DEF Init
  <1>2. /\ n \in Nat /\ n <= MaxLine /\ text \in Seq(Line) /\ Len(text) = n
        /\ Lines = 1..n
    BY <1>1, BatchAssumption DEF Lines
  <1>3. /\ line = 0 /\ first = 1 /\ trigger = FALSE /\ tx = FALSE
        /\ db \in Connection /\ ran = {} /\ pc = "reading"
    BY DEF Init, Fresh, Conn, Connection
  <1>4. TypeOK
    <2>1. trigger \in BOOLEAN /\ tx \in BOOLEAN
      BY <1>3, Zenon
    <2>2. QED
      BY <1>2, <1>3, <2>1 DEF TypeOK
  <1>5. ~ InTrigger(line + 1) /\ ~ InTransaction(line + 1)
    BY <1>2, <1>3 DEF InTrigger, InTransaction
  <1>6. FlagsTell /\ BufferBegins /\ DisciplinedGoesOn
    BY <1>2, <1>3, <1>5 DEF FlagsTell, BufferBegins, DisciplinedGoesOn
  <1>7. StatementsWhole
    BY <1>2, <1>3 DEF StatementsWhole, HandedOver, IsStatement
  <1>8. QED
    BY <1>4, <1>6, <1>7 DEF Inv
------------------------------------------------------------------------------
(* What reading a line changes: where Batch is, not what the text says.    *)
LEMMA ReadSays ==
    ASSUME TypeOK, Read(Line)
    PROVE  /\ line + 1 \in Lines /\ text[line + 1] \in Line
           /\ line' = line + 1 /\ text' = text /\ Lines' = Lines
           /\ (InTrigger(line + 1))' <=>
                /\ ~ EndsTrigger(line + 1)
                /\ OpensTrigger(line + 1) \/ InTrigger(line + 1)
           /\ (InTransaction(line + 1))' <=>
                /\ text[line + 1] # "commit_tx"
                /\ text[line + 1] = "begin_tx" \/ InTransaction(line + 1)
  <1>1. /\ line + 1 \in Lines /\ line' = line + 1 /\ text' = text
        /\ text[line + 1] \in Line /\ Lines' = Lines /\ text \in Seq(Line)
    BY DEF TypeOK, Read, Lines
  <1>2. (InTrigger(line + 1))' <=> InTrigger((line + 1) + 1)
    BY <1>1 DEF InTrigger, OpensTrigger, EndsTrigger
  <1>3. (InTransaction(line + 1))' <=> InTransaction((line + 1) + 1)
    BY <1>1 DEF InTransaction
  <1>4. QED
    BY <1>1, <1>2, <1>3, TriggerStep, TransactionStep

LEMMA SameText ==
    ASSUME text' = text
    PROVE  /\ Lines' = Lines /\ Disciplined' = Disciplined
           /\ PlainTriggers' = PlainTriggers
           /\ \A i : Boundary(i)' = Boundary(i)
           /\ \A a, b : IsStatement(a, b)' = IsStatement(a, b)
  BY DEF Lines, Disciplined, PlainTriggers, InTransaction, InTrigger, OpensTrigger,
         EndsTrigger, Boundary, Closes, IsStatement

(* After a line that ends no statement, the statements executed are still  *)
(* those of the text.                                                      *)
LEMMA NotClosing ==
    ASSUME Inv, Read(Line), PlainTriggers => ~ Closes(line + 1), ran' = ran,
           pc' = "err" => text[line + 1] \in {"begin_tx", "commit_tx"}
    PROVE  StatementsWhole'
  <1> SUFFICES ASSUME PlainTriggers'
               PROVE  /\ \A s \in HandedOver' : IsStatement(s[1], s[2])'
                      /\ \A a, b \in Lines' :
                           /\ IsStatement(a, b)' /\ text'[a] \notin {"query_part", "query"}
                           /\ b < line' \/ (b = line' /\ pc' \in {"reading", "nil"})
                           => <<a, b>> \in ran'
    BY DEF StatementsWhole
  <1>1. line + 1 \in Lines /\ line' = line + 1 /\ Lines' = Lines /\ text' = text
    BY ReadSays DEF Inv
  <1>2. line \in Nat /\ pc = "reading"
    BY DEF Inv, TypeOK, Read
  <1>3. /\ PlainTriggers /\ ~ Closes(line + 1)
        /\ \A a, b : IsStatement(a, b)' = IsStatement(a, b)
    BY <1>1, SameText
  <1>4. \A s \in HandedOver' : IsStatement(s[1], s[2])'
    <2>1. HandedOver' = ran /\ HandedOver = ran
      BY <1>1, <1>2 DEF HandedOver
    <2>2. QED
      BY <1>3, <2>1 DEF Inv, StatementsWhole
  <1>5. ASSUME NEW a \in Lines, NEW b \in Lines, IsStatement(a, b),
               text[a] \notin {"query_part", "query"}, b <= line + 1
        PROVE  <<a, b>> \in ran
    <2>1. b # line + 1
      BY <1>3, <1>5 DEF IsStatement
    <2>2. b < line \/ b = line
      BY <1>2, <1>5, <2>1 DEF Lines
    <2>3. QED
      BY <1>2, <1>3, <1>5, <2>2 DEF Inv, StatementsWhole
  <1>6. ASSUME NEW a \in Lines', NEW b \in Lines', IsStatement(a, b)',
               text'[a] \notin {"query_part", "query"},
               b < line' \/ b = line'
        PROVE  <<a, b>> \in ran'
    <2>1. b <= line + 1
      BY <1>1, <1>2, <1>6 DEF Lines
    <2>2. QED
      BY <1>1, <1>3, <1>5, <1>6, <2>1
  <1>7. QED
    BY <1>4, <1>6

(* A buffer that has been emptied begins after a boundary; one that has    *)
(* grown still begins where it did.                                        *)
LEMMA EmptyBuffer ==
    ASSUME Inv, Read(Line), PlainTriggers => Boundary(line + 1), Reset
    PROVE  BufferBegins' /\ first' \in 1..(line' + 1)
  <1>1. line \in Nat /\ line' = line + 1 /\ text' = text /\ Lines \subseteq Nat
    BY ReadSays DEF Inv, TypeOK, Lines
  <1>2. first' = line + 2 /\ first' - 1 = line + 1
    BY <1>1 DEF Reset
  <1>3. (Boundary(first - 1))' <=> Boundary(line + 1)
    BY <1>1, <1>2 DEF Boundary, Closes, InTrigger, OpensTrigger, EndsTrigger, Lines
  <1>4. \A i \in Lines : ~ (first' <= i /\ i <= line')
    BY <1>1, <1>2
  <1>5. Lines' = Lines /\ PlainTriggers' = PlainTriggers
    BY <1>1, SameText
  <1>6. QED
    BY <1>1, <1>2, <1>3, <1>4, <1>5 DEF BufferBegins

LEMMA GrownBuffer ==
    ASSUME Inv, Read(Line), PlainTriggers => ~ Boundary(line + 1), first' = first,
           text[line + 1] \notin {"begin_tx", "commit_tx"}
    PROVE  BufferBegins' /\ first' \in 1..(line' + 1)
  <1>1. /\ line \in Nat /\ line' = line + 1 /\ text' = text /\ Lines \subseteq Nat
        /\ Lines' = Lines /\ first \in 1..(line + 1) /\ PlainTriggers' = PlainTriggers
    BY ReadSays, SameText DEF Inv, TypeOK, Lines
  <1>2. ASSUME PlainTriggers
        PROVE  /\ first = 1 \/ Boundary(first - 1)
               /\ \A i \in Lines : first <= i /\ i <= line + 1 => ~ Boundary(i)
    BY <1>1, <1>2 DEF Inv, BufferBegins, Read
  <1>3. \A i \in Lines : first <= i /\ i <= line + 1 =>
                            text[i] \notin {"begin_tx", "commit_tx"}
    BY <1>1 DEF Inv, BufferBegins, Read
  <1>4. \A i : Boundary(i)' = Boundary(i)
    BY <1>1, SameText
  <1>5. (Boundary(first - 1))' <=> Boundary(first - 1)
    BY <1>1 DEF Boundary, Closes, InTrigger, OpensTrigger, EndsTrigger, Lines
  <1>6. QED
    BY <1>1, <1>2, <1>3, <1>4, <1>5 DEF BufferBegins

LEMMA CollectInv == ASSUME Inv, StartTrigger \/ Collect PROVE Inv'
  <1>1. Read(Line) /\ text' = text
    BY DEF StartTrigger, Collect, Read, Line, Statement, Beginning
  <1>2. /\ first' = first /\ tx' = tx /\ db' = db /\ ran' = ran /\ pc' = pc
        /\ pc = "reading"
    BY DEF StartTrigger, Collect, Read
  <1>3. /\ text[line + 1] \notin Ending \cup {"begin_tx", "commit_tx"}
        /\ text[line + 1] \in Statement => trigger
    BY DEF StartTrigger, Collect, Read, Ending, Statement
  <1>4. PlainTriggers => ~ Closes(line + 1) /\ ~ Boundary(line + 1)
    BY <1>1, <1>3, PlainSays, ReadSays DEF Inv, FlagsTell, Boundary
  <1>5. PlainTriggers => (trigger' <=> (InTrigger(line + 1))')
    <2>1. trigger' <=> trigger \/ text[line + 1] = "trigger"
      BY DEF StartTrigger, Collect, Read, Statement
    <2>2. QED
      BY <1>1, <1>3, <2>1, PlainSays, ReadSays DEF Inv, FlagsTell, Ending
  <1>6. tx' <=> (InTransaction(line + 1))'
    BY <1>1, <1>2, <1>3, ReadSays DEF Inv, FlagsTell
  <1>7. TypeOK'
    <2>1. trigger' \in BOOLEAN
      BY Zenon DEF StartTrigger, Collect, Inv, TypeOK
    <2>2. line' \in 0..Len(text') /\ Lines' = Lines
      BY <1>1, ReadSays DEF Inv, Lines
    <2>3. QED
      BY <1>1, <1>2, <1>3, <1>4, <2>1, <2>2, GrownBuffer DEF Inv, TypeOK
  <1>8. DisciplinedGoesOn'
    BY <1>2 DEF DisciplinedGoesOn
  <1>9. QED
    BY <1>1, <1>2, <1>3, <1>4, <1>5, <1>6, <1>7, <1>8, NotClosing, GrownBuffer, SameText
       DEF Inv, FlagsTell

LEMMA BeginTransactionInv == ASSUME Inv, BeginTransaction PROVE Inv'
  <1>1. /\ Read(Line) /\ text[line + 1] = "begin_tx" /\ Reset
        /\ text' = text /\ trigger' = trigger /\ ran' = ran
    BY DEF BeginTransaction, Read, Line
  <1>2. ~ Closes(line + 1) /\ Boundary(line + 1)
    BY <1>1 DEF Closes, Boundary, Ending, Statement
  <1>3. \/ tx /\ pc' = "blocked" /\ db' = db
        \/ pc' = "err" /\ db' = db
        \/ /\ tx' /\ pc' = "reading"
           /\ \E c \in {db, Abort(db)} : db' = After(c, "begin", 0)
    BY DEF BeginTransaction, Read
  <1>4. tx' \in BOOLEAN
    BY Zenon DEF BeginTransaction, Inv, TypeOK
  <1>5. db' \in Connection
    <2>1. db \in Connection /\ Abort(db) \in Connection
      BY AbortDrops DEF Inv, TypeOK
    <2>2. \A c \in {db, Abort(db)} : After(c, "begin", 0) \in Connection
      BY <2>1, AfterAdds DEF Kind
    <2>3. QED
      BY <1>3, <2>1, <2>2
  <1>6. FlagsTell'
    BY <1>1, <1>2, <1>3, ReadSays, PlainSays, SameText DEF Inv, FlagsTell
  <1>7. TypeOK'
    <2>1. line' \in 0..Len(text') /\ Lines' = Lines
      BY <1>1, ReadSays DEF Inv, Lines
    <2>2. QED
      BY <1>1, <1>2, <1>3, <1>4, <1>5, <2>1, EmptyBuffer DEF Inv, TypeOK
  <1>8. DisciplinedGoesOn'
    <2>1. CASE tx
      <3>1. line + 1 \in Lines /\ InTransaction(line + 1)
        BY <1>1, <2>1, ReadSays DEF Inv, FlagsTell, Read
      <3>2. ~ Disciplined
        BY <1>1, <3>1 DEF Disciplined
      <3>3. QED
        BY <1>1, <3>2, SameText DEF DisciplinedGoesOn
    <2>2. CASE ~ tx
      <3>1. pc' \in {"err", "reading"}
        BY <1>3, <2>2
      <3>2. QED
        BY <3>1 DEF DisciplinedGoesOn
    <2>3. QED
      BY <2>1, <2>2
  <1>9. QED
    BY <1>1, <1>2, <1>6, <1>7, <1>8, NotClosing, EmptyBuffer DEF Inv

LEMMA CommitInv == ASSUME Inv, Commit PROVE Inv'
  <1>1. /\ Read(Line) /\ text[line + 1] = "commit_tx"
        /\ text' = text /\ trigger' = trigger /\ ran' = ran
    BY DEF Commit, Read, Line
  <1>2. ~ Closes(line + 1) /\ Boundary(line + 1)
    BY <1>1 DEF Closes, Boundary, Ending, Statement
  <1>3. \/ ~ tx /\ pc' = "panicked" /\ db' = db /\ first' = first
        \/ /\ pc' = "err" /\ first' = first
           /\ db' \in {db, After(db, "commit", 0)}
        \/ /\ ~ tx' /\ pc' = "reading" /\ Reset
           /\ db' = After(db, "commit", 0)
    BY DEF Commit, Read
  <1>4. tx' \in BOOLEAN
    BY Zenon DEF Commit, Inv, TypeOK
  <1>5. db' \in Connection
    <2>1. db \in Connection /\ "commit" \in Kind /\ 0 \in Nat
      BY DEF Inv, TypeOK, Kind
    <2>2. After(db, "commit", 0) \in Connection
      BY <2>1, AfterAdds
    <2>3. QED
      BY <1>3, <2>1, <2>2
  <1>6. FlagsTell'
    BY <1>1, <1>2, <1>3, ReadSays, PlainSays, SameText DEF Inv, FlagsTell
  <1>7. TypeOK'
    <2>1. line' \in 0..Len(text') /\ Lines' = Lines /\ line' = line + 1
      BY <1>1, ReadSays DEF Inv, Lines
    <2>2. first' \in 1..(line' + 1)
      BY <1>1, <1>2, <1>3, <2>1, EmptyBuffer DEF Inv, TypeOK
    <2>3. QED
      BY <1>1, <1>3, <1>4, <1>5, <2>1, <2>2 DEF Inv, TypeOK
  <1>8. BufferBegins'
    <2>1. CASE pc' = "reading"
      BY <1>1, <1>2, <1>3, <2>1, EmptyBuffer
    <2>2. CASE pc' # "reading"
      BY <2>2 DEF BufferBegins
    <2>3. QED
      BY <2>1, <2>2
  <1>9. DisciplinedGoesOn'
    <2>1. CASE pc' = "panicked"
      <3>1. line + 1 \in Lines /\ ~ InTransaction(line + 1)
        BY <1>1, <1>3, <2>1, ReadSays DEF Inv, FlagsTell, Read
      <3>2. ~ Disciplined
        BY <1>1, <3>1 DEF Disciplined
      <3>3. QED
        BY <1>1, <3>2, SameText DEF DisciplinedGoesOn
    <2>2. CASE pc' # "panicked"
      <3>1. pc' \in {"err", "reading"}
        BY <1>3, <2>2
      <3>2. QED
        BY <3>1 DEF DisciplinedGoesOn
    <2>3. QED
      BY <2>1, <2>2
  <1>10. QED
    BY <1>1, <1>2, <1>6, <1>7, <1>8, <1>9, NotClosing DEF Inv

(* What completing a statement has in common, whatever becomes of it.      *)
LEMMA CompleteSays ==
    ASSUME Inv, Complete
    PROVE  /\ Read(Line) /\ text[line + 1] \in Ending \cup Statement
           /\ PlainTriggers => Closes(line + 1) /\ Boundary(line + 1)
           /\ trigger' \in BOOLEAN
           /\ PlainTriggers => (trigger' <=> (InTrigger(line + 1))')
           /\ (InTransaction(line + 1))' <=> InTransaction(line + 1)
  <1>1. Read(Line) /\ text[line + 1] \in Ending \cup Statement
    BY DEF Complete, Read, Line
  <1>2. text[line + 1] \in Statement => ~ trigger
    BY DEF Complete, Read, Ending, Statement
  <1>3. PlainTriggers => Closes(line + 1) /\ Boundary(line + 1)
    BY <1>1, <1>2, PlainSays, ReadSays DEF Inv, FlagsTell, Boundary
  <1>4. trigger' \in BOOLEAN /\ (trigger' <=> trigger /\ text[line + 1] # "end")
    BY Zenon DEF Complete, Inv, TypeOK
  <1>5. /\ PlainTriggers => ((InTrigger(line + 1))' <=>
                                text[line + 1] # "end" /\ InTrigger(line + 1))
        /\ (InTransaction(line + 1))' <=> InTransaction(line + 1)
    BY <1>1, PlainSays, ReadSays DEF Inv, Ending, Statement
  <1>6. QED
    BY <1>1, <1>3, <1>4, <1>5 DEF Inv, FlagsTell

(* A query met inside a transaction stands inside it with its first line.  *)
LEMMA QueryInTransaction ==
    ASSUME Inv, Complete, Selects, tx
    PROVE  ~ Disciplined
  <1>1. /\ line + 1 \in Lines /\ line \in Nat /\ pc = "reading"
        /\ first \in 1..(line + 1) /\ Lines \subseteq Nat
    BY CompleteSays, ReadSays DEF Inv, TypeOK, Lines, Read
  <1>2. first \in Lines
    BY <1>1 DEF Lines
  <1>3. PICK b \in Lines :
          /\ b < line + 1 /\ text[b] = "begin_tx"
          /\ \A j \in Lines : b <= j /\ j < line + 1 => text[j] # "commit_tx"
    BY <1>1 DEF Inv, FlagsTell, InTransaction
  <1>4. ~ (first <= b /\ b <= line)
    BY <1>1, <1>3 DEF Inv, BufferBegins
  <1>5. b < first
    BY <1>1, <1>3, <1>4
  <1>6. \A j \in Lines : b <= j /\ j < first => text[j] # "commit_tx"
    BY <1>1, <1>3
  <1>7. InTransaction(first)
    BY <1>3, <1>5, <1>6 DEF InTransaction
  <1>8. QED
    BY <1>2, <1>7 DEF Disciplined, Selects

(* A statement that has ended is executed, a query, or the one that failed.*)
LEMMA ClosingStatements ==
    ASSUME Inv, Complete,
           \/ Selects /\ ran' = ran /\ pc' # "err"
           \/ ran' = ran \cup {<<first, line + 1>>} /\ pc' # "err"
           \/ ran' = ran /\ pc' = "err" /\ first' = first
    PROVE  StatementsWhole'
  <1> SUFFICES ASSUME PlainTriggers'
               PROVE  /\ \A s \in HandedOver' : IsStatement(s[1], s[2])'
                      /\ \A a, b \in Lines' :
                           /\ IsStatement(a, b)' /\ text'[a] \notin {"query_part", "query"}
                           /\ b < line' \/ (b = line' /\ pc' \in {"reading", "nil"})
                           => <<a, b>> \in ran'
    BY DEF StatementsWhole
  <1>1. /\ line + 1 \in Lines /\ line' = line + 1 /\ Lines' = Lines /\ text' = text
        /\ line \in Nat /\ pc = "reading" /\ line < Len(text)
    BY CompleteSays, ReadSays DEF Inv, TypeOK, Read
  <1>2. PlainTriggers /\ \A a, b : IsStatement(a, b)' = IsStatement(a, b)
    BY <1>1, SameText
  <1>3. /\ IsStatement(first, line + 1)
        /\ \A a \in Lines : IsStatement(a, line + 1) => a = first
    BY <1>1, <1>2, CompleteSays, BufferIsStatement DEF Inv
  <1>4. \A s \in HandedOver' : IsStatement(s[1], s[2])
    <2>1. HandedOver' \subseteq ran \cup {<<first, line + 1>>}
      BY <1>1 DEF HandedOver
    <2>2. \A s \in ran : IsStatement(s[1], s[2])
      BY <1>2 DEF Inv, StatementsWhole, HandedOver
    <2>3. QED
      BY <1>3, <2>1, <2>2
  <1>5. ASSUME NEW a \in Lines, NEW b \in Lines, IsStatement(a, b),
               text[a] \notin {"query_part", "query"},
               b < line + 1 \/ (b = line + 1 /\ pc' \in {"reading", "nil"})
        PROVE  <<a, b>> \in ran'
    <2>1. CASE b = line + 1
      BY <1>1, <1>3, <1>5, <2>1 DEF Selects
    <2>2. CASE b < line + 1
      <3>1. b < line \/ b = line
        BY <1>1, <2>2 DEF Lines
      <3>2. <<a, b>> \in ran
        BY <1>1, <1>2, <1>5, <3>1 DEF Inv, StatementsWhole
      <3>3. QED
        BY <3>2
    <2>3. QED
      BY <1>5, <2>1, <2>2
  <1>6. QED
    BY <1>1, <1>2, <1>4, <1>5

LEMMA ExecutedTyped ==
    ASSUME Inv, Complete, Executed
    PROVE  db' \in Connection
  <1>1. db \in Connection /\ Abort(db) \in Connection /\ first \in Nat
    BY AbortDrops DEF Inv, TypeOK
  <1>2. Does(first, line + 1) \in Kind
    BY DEF Does, Kind
  <1>3. PICK c \in {db, Abort(db)} :
          LET d == After(c, Does(first, line + 1), first)
          IN  db' = d \/ \E k \in Kind : db' = After(d, k, first)
    BY DEF Executed
  <1>4. After(c, Does(first, line + 1), first) \in Connection
    BY <1>1, <1>2, AfterAdds
  <1>5. QED
    BY <1>1, <1>3, <1>4, AfterAdds

LEMMA CompleteInv ==
    ASSUME Inv, Select \/ Exec \/ ExecFails
    PROVE  Inv'
  <1>1. Complete /\ Read(Line) /\ tx' = tx
    BY CompleteSays DEF Select, Exec, ExecFails
  <1>2. /\ line + 1 \in Lines /\ line' = line + 1 /\ Lines' = Lines /\ text' = text
        /\ line \in Nat /\ pc = "reading" /\ line' \in 0..Len(text')
    BY <1>1, ReadSays DEF Inv, TypeOK, Read, Lines
  <1>3. \/ Selects /\ tx /\ pc' = "blocked" /\ first' = first /\ ran' = ran
        \/ Selects /\ pc' = "reading" /\ Reset /\ ran' = ran
        \/ pc' = "reading" /\ Reset /\ ran' = ran \cup {<<first, line + 1>>}
        \/ pc' = "err" /\ first' = first /\ ran' = ran
    BY <1>2 DEF Select, Exec, ExecFails
  <1>4. StatementsWhole'
    BY <1>1, <1>3, ClosingStatements
  <1>5. BufferBegins'
    <2>1. CASE pc' = "reading"
      BY <1>1, <1>3, <2>1, CompleteSays, EmptyBuffer
    <2>2. CASE pc' # "reading"
      BY <2>2 DEF BufferBegins
    <2>3. QED
      BY <2>1, <2>2
  <1>6. FlagsTell'
    BY <1>1, <1>2, CompleteSays, SameText DEF Inv, FlagsTell
  <1>7. DisciplinedGoesOn'
    <2>1. CASE Selects /\ tx
      BY <1>1, <1>2, <2>1, QueryInTransaction, SameText DEF DisciplinedGoesOn
    <2>2. CASE ~ (Selects /\ tx)
      BY <1>3, <2>2 DEF DisciplinedGoesOn
    <2>3. QED
      BY <2>1, <2>2
  <1>8. TypeOK'
    <2>1. db' \in Connection
      BY <1>1, ExecutedTyped DEF Select, Exec, ExecFails, Inv, TypeOK
    <2>2. first' \in 1..(line' + 1)
      BY <1>1, <1>2, <1>3, CompleteSays, EmptyBuffer DEF Inv, TypeOK
    <2>3. first \in Lines
      BY <1>2 DEF Inv, TypeOK, Lines
    <2>4. ran' \subseteq Lines \X Lines
      BY <1>2, <1>3, <2>3 DEF Inv, TypeOK
    <2>5. tx' \in BOOLEAN /\ trigger' \in BOOLEAN
      BY <1>1, CompleteSays, Zenon DEF Inv, TypeOK
    <2>6. QED
      BY <1>2, <1>3, <2>1, <2>2, <2>4, <2>5 DEF Inv, TypeOK
  <1>9. QED
    BY <1>4, <1>5, <1>6, <1>7, <1>8 DEF Inv

LEMMA EndOfTextInv == ASSUME Inv, EndOfText PROVE Inv'
  <1>1. /\ UNCHANGED <<text, line, first, trigger, tx, db, ran>>
        /\ pc = "reading" /\ pc' = "nil"
    BY DEF EndOfText
  <1>2. Lines' = Lines /\ \A a, b : IsStatement(a, b)' = IsStatement(a, b)
    BY <1>1, SameText
  <1>3. StatementsWhole'
    BY <1>1, <1>2, SameText DEF Inv, StatementsWhole, HandedOver
  <1>4. /\ (InTrigger(line + 1))' <=> InTrigger(line + 1)
        /\ PlainTriggers' = PlainTriggers
    BY <1>1, SameText DEF InTrigger, OpensTrigger, EndsTrigger, Lines
  <1>5. FlagsTell' /\ BufferBegins' /\ DisciplinedGoesOn'
    BY <1>1, <1>4 DEF Inv, FlagsTell, BufferBegins, DisciplinedGoesOn
  <1>6. TypeOK'
    BY <1>1, <1>2 DEF Inv, TypeOK
  <1>7. QED
    BY <1>3, <1>5, <1>6 DEF Inv

LEMMA InvNext == Inv /\ [Next]_vars => Inv'
  <1> SUFFICES ASSUME Inv, [Next]_vars PROVE Inv'
    OBVIOUS
  <1>1. CASE UNCHANGED vars
    BY <1>1 DEF vars, Inv, TypeOK, FlagsTell, BufferBegins, StatementsWhole,
                HandedOver, DisciplinedGoesOn, Disciplined, PlainTriggers, InTrigger,
                OpensTrigger, EndsTrigger, InTransaction, IsStatement, Boundary,
                Closes, Lines
  <1>2. QED
    BY <1>1, BeginTransactionInv, CommitInv, CollectInv, CompleteInv,
       EndOfTextInv DEF Next

LEMMA Invariant == Spec => []Inv
  BY InitInv, InvNext, PTL DEF Spec

------------------------------------------------------------------------------
(* Transactions.  A statement that begins on line a has taken effect when  *)
(* the lines up to l have been read.                                       *)
Settled(a, l) == ~ InTransaction(a) \/ \E c \in a..l : text[c] = "commit_tx"

(* While Batch reads, the connection is in a transaction just when Batch   *)
(* has one, and has what the settled statements did durable, the rest      *)
(* pending; nothing is on it yet of the statement in the buffer.           *)
ConnectionTells ==
    /\ db.open <=> tx
    /\ ~ tx => db.pending = {}
    /\ \A a \in db.durable \cup db.pending : a < first
    /\ \A s \in ran : /\ s[2] < first
                      /\ s[1] \in db.durable <=> Settled(s[1], line)
                      /\ s[1] \in db.durable \cup db.pending

Standing == PlainTriggers /\ OnlyTx /\ pc = "reading" => ConnectionTells

(* TransactionsWhole, of the statements R that were executed, the durable  *)
(* ones D, and the lines up to which a COMMIT may and must have counted.   *)
Whole(R, D, may, must) ==
    LET Due(s, l) == \/ ~ InTransaction(s[1])
                     \/ \E c \in s[2]..l : text[c] = "commit_tx"
    IN  /\ \A s \in R : s[1] \in D => Due(s, may)
        /\ \A s \in R : Due(s, must) => s[1] \in D
        /\ \A s, t \in R :
             /\ s[1] < t[1] /\ InTransaction(s[1])
             /\ \A i \in s[1]..t[1] : text[i] # "commit_tx"
             => (s[1] \in D <=> t[1] \in D)

(* A transaction goes on until a COMMIT.                                   *)
LEMMA GoesOn ==
    ASSUME NEW a \in Nat \ {0}, NEW b \in Nat, a <= b, b <= Len(text) + 1,
           Len(text) \in Nat, InTransaction(a),
           \A c \in Lines : a <= c /\ c < b => text[c] # "commit_tx"
    PROVE  InTransaction(b)
  <1>1. PICK g \in Lines : /\ g < a /\ text[g] = "begin_tx"
                           /\ \A j \in Lines : g <= j /\ j < a => text[j] # "commit_tx"
    BY DEF InTransaction
  <1>2. Lines \subseteq Nat
    BY DEF Lines
  <1>3. \A j \in Lines : g <= j /\ j < b => text[j] # "commit_tx"
    BY <1>1, <1>2
  <1>4. QED
    BY <1>1, <1>2, <1>3 DEF InTransaction

(* What makes transactions whole: the durable statements are the settled.  *)
LEMMA WholeIf ==
    ASSUME text \in Seq(Line), NEW R \in SUBSET (Lines \X Lines), NEW D,
           NEW may \in 0..Len(text), NEW must \in Nat, must = may \/ must + 1 = may,
           NEW l \in {must, may},
           \A s \in R : IsStatement(s[1], s[2]),
           \A s \in R : s[1] \in D <=> Settled(s[1], l)
    PROVE  Whole(R, D, may, must)
  <1> DEFINE Due(s, k) == \/ ~ InTransaction(s[1])
                          \/ \E c \in s[2]..k : text[c] = "commit_tx"
  <1>1. /\ Len(text) \in Nat /\ Lines \subseteq Nat /\ \A s \in R : s[1] \in Lines /\ s[2] \in Lines
        /\ may \in Nat /\ l \in Nat /\ must <= l /\ l <= may /\ may <= Len(text)
    <2>1. Len(text) \in Nat
      OBVIOUS
    <2>2. \A s \in R : s[1] \in Lines /\ s[2] \in Lines
      OBVIOUS
    <2>3. /\ may \in Nat /\ l \in Nat
          /\ must <= l /\ l <= may /\ may <= Len(text)
      BY <2>1
    <2>4. QED
      BY <2>1, <2>2, <2>3 DEF Lines
  <1>2. ASSUME NEW s \in R, NEW k \in {must, l, may}
        PROVE  Due(s, k) <=> Settled(s[1], k)
    <2>1. s[1] \in Nat /\ s[2] \in Nat /\ s[1] \in Lines /\ k \in Nat /\ k <= Len(text)
      <3>1. s[1] \in Lines /\ s[2] \in Lines
        BY <1>1
      <3>2. k \in Nat /\ k <= Len(text)
        BY <1>1
      <3>3. QED
        BY <1>1, <3>1, <3>2
    <2>2. s[1] <= s[2] /\ text[s[2]] # "commit_tx"
          /\ \A i \in Lines : s[1] <= i /\ i < s[2] => text[i] # "commit_tx"
      BY <1>1 DEF IsStatement, Closes, Boundary, Ending, Statement
    <2>3. ASSUME NEW c \in s[1]..k, text[c] = "commit_tx"
          PROVE  c \in s[2]..k
      <3>1. c \in Lines
        BY <1>1, <2>1 DEF Lines
      <3>2. QED
        BY <2>1, <2>2, <2>3, <3>1
    <2>4. ASSUME NEW c \in s[2]..k
          PROVE  c \in s[1]..k
      BY <2>1, <2>2
    <2>5. QED
      BY <2>3, <2>4 DEF Settled
  <1>3. \A s \in R : s[1] \in D => Due(s, may)
    <2>1. \A s \in R : Settled(s[1], l) => Settled(s[1], may)
      BY <1>1 DEF Settled
    <2>2. QED
      BY <1>2, <2>1
  <1>4. \A s \in R : Due(s, must) => s[1] \in D
    <2>1. \A s \in R : Settled(s[1], must) => Settled(s[1], l)
      BY <1>1 DEF Settled
    <2>2. QED
      BY <1>2, <2>1
  <1>5. ASSUME NEW s \in R, NEW t \in R, s[1] < t[1], InTransaction(s[1]),
               \A i \in s[1]..t[1] : text[i] # "commit_tx"
        PROVE  s[1] \in D <=> t[1] \in D
    <2>1. /\ s[1] \in Nat \ {0} /\ t[1] \in Nat /\ s[1] <= t[1] /\ t[1] <= Len(text) + 1
          /\ \A c \in Lines : s[1] <= c /\ c < t[1] => text[c] # "commit_tx"
      BY <1>1, <1>5 DEF Lines
    <2>2. InTransaction(t[1])
      BY <1>1, <1>5, <2>1, GoesOn
    <2>3. \A c \in s[1]..l : text[c] = "commit_tx" => c \in t[1]..l
      BY <1>1, <1>5, <2>1
    <2>4. \A c \in t[1]..l : c \in s[1]..l
      BY <1>1, <2>1
    <2>5. Settled(s[1], l) <=> Settled(t[1], l)
      BY <1>5, <2>2, <2>3, <2>4 DEF Settled
    <2>6. QED
      BY <2>5
  <1>6. QED
    BY <1>3, <1>4, <1>5 DEF Whole

LEMMA WholeNext ==
    ASSUME text' = text, pc' # "err" \/ line' # 0,
           Whole(ran', db'.durable, line', IF pc' = "err" THEN line' - 1 ELSE line')
    PROVE  TransactionsWhole'
  <1>1. \A a : InTransaction(a)' <=> InTransaction(a)
    BY DEF InTransaction, Lines
  <1>2. QED
    BY <1>1 DEF TransactionsWhole, Whole

LEMMA SettledStep ==
    ASSUME NEW a \in Nat, NEW n \in Nat, a <= n + 1
    PROVE  Settled(a, n + 1) <=> Settled(a, n) \/ text[n + 1] = "commit_tx"
  <1>1. a..(n + 1) = (a..n) \cup {n + 1}
    OBVIOUS
  <1>2. QED
    BY <1>1 DEF Settled

(* What a line read means for the statements executed before.              *)
LEMMA RanSays ==
    ASSUME Inv, ConnectionTells, PlainTriggers, Read(Line)
    PROVE  /\ text \in Seq(Line) /\ text' = text /\ line \in Nat /\ line' = line + 1
           /\ line + 1 \in 0..Len(text)
           /\ ran \in SUBSET (Lines \X Lines)
           /\ \A s \in ran : IsStatement(s[1], s[2])
           /\ \A s \in ran : Settled(s[1], line + 1) <=>
                                Settled(s[1], line) \/ text[line + 1] = "commit_tx"
           /\ ~ tx => \A s \in ran : Settled(s[1], line)
           /\ \A s \in ran : s[1] < first
  <1>1. /\ text \in Seq(Line) /\ text' = text /\ line \in Nat /\ line' = line + 1
        /\ line + 1 \in Lines /\ ran \in SUBSET (Lines \X Lines) /\ Len(text) \in Nat
        /\ first \in 1..(line + 1) /\ pc = "reading"
    BY ReadSays DEF Inv, TypeOK, Read
  <1>2. line + 1 \in 0..Len(text) /\ Lines \subseteq Nat \ {0}
    BY <1>1 DEF Lines
  <1>3. \A s \in ran : IsStatement(s[1], s[2])
    BY DEF Inv, StatementsWhole, HandedOver
  <1>4. ASSUME NEW s \in ran
        PROVE  s[1] \in Nat \ {0} /\ s[1] < first /\ s[1] <= line /\ s[1] <= s[2]
    <2>1. s[1] \in Lines /\ s[2] \in Lines
      BY <1>1
    <2>2. s[1] <= s[2] /\ s[2] < first
      BY <1>3 DEF IsStatement, ConnectionTells
    <2>3. s[1] \in Nat \ {0} /\ s[2] \in Nat
      BY <1>2, <2>1
    <2>4. first \in Nat /\ line \in Nat /\ first <= line + 1
      BY <1>1
    <2>5. QED
      BY <2>2, <2>3, <2>4
  <1>5. ASSUME NEW s \in ran
        PROVE  Settled(s[1], line + 1) <=> Settled(s[1], line) \/ text[line + 1] = "commit_tx"
    <2>1. s[1] \in Nat /\ s[1] <= line + 1
      BY <1>1, <1>4
    <2>2. QED
      BY <1>1, <2>1, SettledStep
  <1>6. ASSUME NEW s \in ran, ~ Settled(s[1], line)
        PROVE  tx
    <2>1. /\ InTransaction(s[1])
          /\ \A c \in Lines : s[1] <= c /\ c < line + 1 => text[c] # "commit_tx"
      BY <1>1, <1>2, <1>4, <1>6 DEF Settled
    <2>2. s[1] \in Nat \ {0} /\ s[1] <= line + 1 /\ line + 1 <= Len(text) + 1 /\ line + 1 \in Nat
      BY <1>1, <1>2, <1>4
    <2>3. InTransaction(line + 1)
      BY <1>1, <2>1, <2>2, GoesOn
    <2>4. QED
      BY <1>1, <2>3 DEF Inv, FlagsTell
  <1>7. QED
    BY <1>1, <1>2, <1>3, <1>4, <1>5, <1>6

(* The connection keeps what it has, and no COMMIT was read.               *)
LEMMA QuietWhole ==
    ASSUME Inv, ConnectionTells, PlainTriggers, Read(Line), ran' = ran, text[line + 1] # "commit_tx",
           \A s \in ran : s[1] \in db'.durable <=> s[1] \in db.durable
    PROVE  /\ TransactionsWhole'
           /\ \A s \in ran : s[1] \in db'.durable <=> Settled(s[1], line')
  <1>1. \A s \in ran : s[1] \in db'.durable <=> Settled(s[1], line')
    BY RanSays DEF ConnectionTells
  <1>2. ASSUME NEW must \in Nat, must = line' \/ must + 1 = line'
        PROVE  Whole(ran', db'.durable, line', must)
    BY <1>1, <1>2, RanSays, WholeIf
  <1>3. TransactionsWhole'
    <2>1. /\ line' # 0 /\ line' \in Nat /\ line' - 1 \in Nat /\ (line' - 1) + 1 = line'
      BY RanSays
    <2>2. Whole(ran', db'.durable, line', IF pc' = "err" THEN line' - 1 ELSE line')
      BY <1>2, <2>1
    <2>3. QED
      BY <2>1, <2>2, RanSays, WholeNext
  <1>4. QED
    BY <1>1, <1>3

LEMMA SettledSame ==
    ASSUME text' = text, line' \in Nat
    PROVE  \A a : Settled(a, line)' <=> Settled(a, line')
  BY DEF Settled, InTransaction, Lines

(* What lies before the buffer still does when it has been emptied.        *)
LEMMA FirstGrows ==
    ASSUME Inv, ConnectionTells
    PROVE  /\ \A a \in db.durable \cup db.pending : a < line + 2
           /\ \A s \in ran : s[2] < line + 2
  <1>1. /\ first \in Nat /\ line \in Nat /\ first <= line + 1
        /\ db \in Connection /\ ran \in SUBSET (Lines \X Lines) /\ Lines \subseteq Nat
    BY DEF Inv, TypeOK, Lines
  <1>2. ASSUME NEW a \in Nat, a < first
        PROVE  a < line + 2
    BY <1>1, <1>2
  <1>3. \A a \in db.durable \cup db.pending : a \in Nat
    BY <1>1 DEF Connection
  <1>4. \A s \in ran : s[2] \in Nat
    BY <1>1
  <1>5. QED
    BY <1>2, <1>3, <1>4 DEF ConnectionTells

LEMMA LinesStanding ==
    ASSUME Inv, Standing, PlainTriggers, OnlyTx, StartTrigger \/ Collect
    PROVE  Standing' /\ TransactionsWhole'
  <1>1. /\ Read(Line) /\ pc = "reading" /\ text[line + 1] # "commit_tx"
        /\ UNCHANGED <<first, tx, db, ran, pc>>
    BY DEF StartTrigger, Collect, Read, Line, Statement, Beginning
  <1>2. ConnectionTells
    BY <1>1 DEF Standing
  <1>3. TransactionsWhole' /\ \A s \in ran : s[1] \in db.durable <=> Settled(s[1], line')
    BY <1>1, <1>2, QuietWhole
  <1>4. ConnectionTells'
    BY <1>1, <1>2, <1>3, SettledSame, RanSays DEF ConnectionTells
  <1>5. QED
    BY <1>3, <1>4 DEF Standing

LEMMA BeginStanding ==
    ASSUME Inv, Standing, PlainTriggers, OnlyTx, BeginTransaction
    PROVE  Standing' /\ TransactionsWhole'
  <1>1. /\ Read(Line) /\ pc = "reading" /\ text[line + 1] # "commit_tx"
        /\ ran' = ran /\ first' = line + 2
    BY DEF BeginTransaction, Read, Line, Reset
  <1>2. ConnectionTells /\ db \in Connection
    BY <1>1 DEF Standing, Inv, TypeOK
  <1>3. \/ pc' # "reading" /\ db' = db
        \/ tx' /\ db' = Conn(TRUE, {}, db.durable) /\ ~ tx
    <2>1. \/ pc' # "reading" /\ db' = db
          \/ ~ tx /\ tx' /\ \E c \in {db, Abort(db)} : db' = After(c, "begin", 0)
      BY DEF BeginTransaction
    <2>2. ASSUME ~ tx, NEW c \in {db, Abort(db)}
          PROVE  After(c, "begin", 0) = Conn(TRUE, {}, db.durable)
      <3>1. c \in Connection /\ c.pending = {} /\ c.durable = db.durable
        BY <1>2, <2>2, AbortDrops DEF ConnectionTells
      <3>2. QED
        BY <3>1, AfterBegin
    <2>3. QED
      BY <2>1, <2>2
  <1>4. db'.durable = db.durable
    BY <1>3 DEF Conn
  <1>5. TransactionsWhole' /\ \A s \in ran : s[1] \in db'.durable <=> Settled(s[1], line')
    BY <1>1, <1>2, <1>4, QuietWhole
  <1>6. ASSUME pc' = "reading"
        PROVE  ConnectionTells'
    <2>1. tx' /\ db'.open /\ db'.pending = {} /\ ~ tx
      BY <1>3, <1>6 DEF Conn
    <2>2. \A a \in db'.durable : a < first'
      BY <1>1, <1>2, <1>4, FirstGrows
    <2>3. \A s \in ran : s[2] < first'
      BY <1>1, <1>2, FirstGrows
    <2>4. \A s \in ran : Settled(s[1], line')
      BY <1>1, <1>2, <2>1, RanSays
    <2>5. \A s \in ran : Settled(s[1], line)' /\ s[1] \in db'.durable
      BY <1>1, <1>2, <1>5, <2>4, SettledSame, RanSays
    <2>6. QED
      BY <1>1, <2>1, <2>2, <2>3, <2>5 DEF ConnectionTells
  <1>7. QED
    BY <1>5, <1>6 DEF Standing

LEMMA CommitStanding ==
    ASSUME Inv, Standing, PlainTriggers, OnlyTx, Commit
    PROVE  Standing' /\ TransactionsWhole'
  <1>1. /\ Read(Line) /\ pc = "reading" /\ text[line + 1] = "commit_tx" /\ ran' = ran
    BY DEF Commit, Read, Line
  <1>2. ConnectionTells /\ db \in Connection
    BY <1>1 DEF Standing, Inv, TypeOK
  <1>3. After(db, "commit", 0) = Conn(FALSE, {}, db.durable \cup db.pending)
    BY <1>2, AfterCommit
  <1>4. \/ pc' = "panicked" /\ ~ tx /\ db' = db
        \/ pc' = "err" /\ db' = db
        \/ /\ db' = Conn(FALSE, {}, db.durable \cup db.pending)
           /\ pc' = "err" \/ (pc' = "reading" /\ ~ tx' /\ first' = line + 2)
    BY <1>1, <1>3 DEF Commit, Reset
  <1>5. \A s \in ran : Settled(s[1], line')
    BY <1>1, <1>2, RanSays
  <1>6. CASE \A s \in ran : s[1] \in db'.durable
    <2>1. ASSUME NEW must \in Nat, must = line' \/ must + 1 = line'
          PROVE  Whole(ran', db'.durable, line', must)
      BY <1>1, <1>2, <1>5, <1>6, <2>1, RanSays, WholeIf
    <2>2. /\ line' # 0 /\ line' \in Nat /\ line' - 1 \in Nat /\ (line' - 1) + 1 = line'
      BY <1>1, <1>2, RanSays
    <2>3. Whole(ran', db'.durable, line', IF pc' = "err" THEN line' - 1 ELSE line')
      BY <2>1, <2>2
    <2>4. TransactionsWhole'
      BY <1>1, <1>2, <2>2, <2>3, RanSays, WholeNext
    <2>5. ASSUME pc' = "reading"
          PROVE  ConnectionTells'
      <3>1. ~ tx' /\ ~ db'.open /\ db'.pending = {} /\ db'.durable = db.durable \cup db.pending
        BY <1>4, <2>5 DEF Conn
      <3>2. /\ \A a \in db'.durable : a < first'
            /\ \A s \in ran : s[2] < first'
        BY <1>1, <1>2, <1>4, <2>5, <3>1, FirstGrows
      <3>3. QED
        BY <1>1, <1>2, <1>5, <1>6, <3>1, <3>2, SettledSame, RanSays DEF ConnectionTells
    <2>6. QED
      BY <2>4, <2>5 DEF Standing
  <1>7. CASE pc' = "err" /\ db' = db
    <2>1. /\ line \in Nat /\ line' = line + 1 /\ line' - 1 = line /\ line' # 0
      BY <1>1, <1>2, RanSays
    <2>2. \A s \in ran : s[1] \in db'.durable <=> Settled(s[1], line)
      BY <1>2, <1>7 DEF ConnectionTells
    <2>3. Whole(ran', db'.durable, line', line)
      BY <1>1, <1>2, <2>1, <2>2, RanSays, WholeIf
    <2>4. TransactionsWhole'
      BY <1>1, <1>2, <1>7, <2>1, <2>3, RanSays, WholeNext
    <2>5. QED
      BY <1>7, <2>4 DEF Standing
  <1>8. CASE ~ (pc' = "err" /\ db' = db)
    <2>1. \A s \in ran : s[1] \in db'.durable
      <3>1. CASE ~ tx /\ db' = db
        BY <1>1, <1>2, <3>1, RanSays DEF ConnectionTells
      <3>2. CASE db' = Conn(FALSE, {}, db.durable \cup db.pending)
        BY <1>2, <3>2 DEF Conn, ConnectionTells
      <3>3. QED
        BY <1>4, <1>8, <3>1, <3>2
    <2>2. QED
      BY <1>6, <2>1
  <1>9. QED
    BY <1>7, <1>8

(* The statement in the buffer belongs to the transaction there is; it has *)
(* not been executed before.                                               *)
LEMMA BufferStanding ==
    ASSUME Inv, ConnectionTells, PlainTriggers, OnlyTx, Complete
    PROVE  /\ Does(first, line + 1) = "plain" /\ ~ Several(first, line + 1)
           /\ first \in Nat /\ first <= line + 1 /\ text[line + 1] # "commit_tx"
           /\ \A s \in ran : s[1] # first
           /\ Settled(first, line + 1) <=> ~ tx
  <1>1. /\ line \in Nat /\ first \in Nat \ {0} /\ first <= line + 1 /\ line + 1 \in Lines
        /\ Len(text) \in Nat /\ text \in Seq(Line) /\ pc = "reading" /\ line < Len(text)
        /\ Closes(line + 1) /\ Boundary(line + 1)
    BY CompleteSays, ReadSays DEF Inv, TypeOK, Read
  <1>2. first \in Lines /\ Lines \subseteq Nat
    BY <1>1 DEF Lines
  <1>3. IsStatement(first, line + 1)
    BY <1>1, BufferIsStatement DEF Inv
  <1>4. Does(first, line + 1) = "plain"
    BY <1>1, <1>2, <1>3 DEF OnlyTx
  <1>5. text[line + 1] # "commit_tx"
    BY <1>1 DEF Closes, Ending, Statement
  <1>6. \A i \in Lines : first <= i /\ i <= line => text[i] \notin {"begin_tx", "commit_tx"}
    BY <1>1 DEF Inv, BufferBegins, Boundary
  <1>7. \A s \in ran : s[1] # first
    BY <1>1, <1>2, CompleteSays, RanSays
  <1>8. \A c \in first..(line + 1) : text[c] # "commit_tx"
    <2> SUFFICES ASSUME NEW c \in first..(line + 1) PROVE text[c] # "commit_tx"
      OBVIOUS
    <2>1. c = line + 1 \/ (c \in Lines /\ first <= c /\ c <= line)
      BY <1>1 DEF Lines
    <2>2. QED
      BY <1>5, <1>6, <2>1
  <1>9. tx <=> InTransaction(line + 1)
    BY <1>1 DEF Inv, FlagsTell
  <1>10. ASSUME tx
         PROVE  InTransaction(first)
    <2>1. PICK b \in Lines :
            /\ b < line + 1 /\ text[b] = "begin_tx"
            /\ \A j \in Lines : b <= j /\ j < line + 1 => text[j] # "commit_tx"
      BY <1>9, <1>10 DEF InTransaction
    <2>2. b < first
      BY <1>1, <1>2, <1>6, <2>1
    <2>3. \A j \in Lines : b <= j /\ j < first => text[j] # "commit_tx"
      BY <1>1, <1>2, <2>1
    <2>4. QED
      BY <2>1, <2>2, <2>3 DEF InTransaction
  <1>11. ASSUME InTransaction(first)
         PROVE  tx
    <2>1. \A c \in Lines : first <= c /\ c < line + 1 => text[c] # "commit_tx"
      BY <1>1, <1>2, <1>6
    <2>2. line + 1 <= Len(text) + 1 /\ line + 1 \in Nat
      BY <1>1
    <2>3. InTransaction(line + 1)
      BY <1>1, <1>11, <2>1, <2>2, GoesOn
    <2>4. QED
      BY <1>9, <2>3
  <1>12. ~ Several(first, line + 1)
    <2>1. \A i \in first..(line + 1) : i \in Lines
      BY <1>1 DEF Lines
    <2>2. QED
      BY <2>1, PlainSays DEF Several
  <1>13. QED
    BY <1>1, <1>4, <1>5, <1>7, <1>8, <1>10, <1>11, <1>12 DEF Settled

(* A statement that is executed is pending when there is a transaction,    *)
(* and durable when there is none.                                         *)
LEMMA ExecutedStanding ==
    ASSUME Inv, ConnectionTells, PlainTriggers, OnlyTx, Complete, Executed
    PROVE  \/ tx /\ db' = Conn(TRUE, db.pending \cup {first}, db.durable)
           \/ ~ tx /\ db' = Conn(FALSE, {}, db.durable \cup {first})
  <1>1. db \in Connection /\ first \in Nat /\ (db.open <=> tx) /\ (~ tx => db.pending = {})
    BY DEF Inv, TypeOK, ConnectionTells
  <1>2. Does(first, line + 1) = "plain" /\ ~ Several(first, line + 1)
    BY BufferStanding
  <1>3. CASE tx
    <2>1. db' = After(db, "plain", first)
      BY <1>2, <1>3 DEF Executed
    <2>2. QED
      BY <1>1, <1>3, <2>1, AfterPlain
  <1>4. CASE ~ tx
    <2>1. PICK c \in {db, Abort(db)} : db' = After(c, "plain", first)
      BY <1>2, <1>4 DEF Executed
    <2>2. c \in Connection /\ ~ c.open /\ c.pending = {} /\ c.durable = db.durable
      BY <1>1, <1>4, AbortDrops
    <2>3. After(c, "plain", first) = Conn(FALSE, {}, db.durable \cup {first})
      BY <1>1, <2>2, AfterPlainAlone
    <2>4. QED
      BY <1>4, <2>1, <2>3
  <1>5. QED
    BY <1>3, <1>4

LEMMA SelectStanding ==
    ASSUME Inv, Standing, PlainTriggers, OnlyTx, Select
    PROVE  Standing' /\ TransactionsWhole'
  <1>1. /\ Complete /\ Read(Line) /\ pc = "reading" /\ UNCHANGED <<tx, db, ran>>
        /\ pc' = "blocked" \/ (pc' = "reading" /\ first' = line + 2)
    BY CompleteSays DEF Select, Read, Reset
  <1>2. ConnectionTells
    BY <1>1 DEF Standing
  <1>3. TransactionsWhole' /\ \A s \in ran : s[1] \in db.durable <=> Settled(s[1], line')
    BY <1>1, <1>2, BufferStanding, QuietWhole
  <1>4. ASSUME pc' = "reading"
        PROVE  ConnectionTells'
    BY <1>1, <1>2, <1>3, <1>4, FirstGrows, SettledSame, RanSays DEF ConnectionTells
  <1>5. QED
    BY <1>3, <1>4 DEF Standing

LEMMA ExecFailsStanding ==
    ASSUME Inv, Standing, PlainTriggers, OnlyTx, ExecFails
    PROVE  Standing' /\ TransactionsWhole'
  <1>1. /\ Complete /\ Read(Line) /\ pc = "reading" /\ ran' = ran /\ pc' = "err"
        /\ Executed \/ db' = db
    BY CompleteSays DEF ExecFails, Read
  <1>2. ConnectionTells
    BY <1>1 DEF Standing
  <1>3. \A s \in ran : s[1] \in db'.durable <=> s[1] \in db.durable
    BY <1>1, <1>2, BufferStanding, ExecutedStanding DEF Conn
  <1>4. TransactionsWhole'
    BY <1>1, <1>2, <1>3, BufferStanding, QuietWhole
  <1>5. QED
    BY <1>1, <1>4 DEF Standing

LEMMA ExecStanding ==
    ASSUME Inv, Inv', Standing, PlainTriggers, OnlyTx, Exec
    PROVE  Standing' /\ TransactionsWhole'
  <1>1. /\ Complete /\ Read(Line) /\ pc = "reading" /\ pc' = "reading" /\ tx' = tx
        /\ ran' = ran \cup {<<first, line + 1>>} /\ first' = line + 2 /\ Executed
    BY CompleteSays DEF Exec, Read, Reset
  <1>2. ConnectionTells /\ text' = text /\ line' = line + 1 /\ line \in Nat
    BY <1>1, RanSays DEF Standing
  <1>3. /\ text[line + 1] # "commit_tx" /\ first \in Nat /\ first <= line + 1
        /\ \A s \in ran : s[1] # first
        /\ Settled(first, line') <=> ~ tx
    BY <1>1, <1>2, BufferStanding
  <1>4. \/ tx /\ db' = Conn(TRUE, db.pending \cup {first}, db.durable)
        \/ ~ tx /\ db' = Conn(FALSE, {}, db.durable \cup {first})
    BY <1>1, <1>2, ExecutedStanding
  <1>5. ASSUME NEW s \in ran
        PROVE  /\ s[1] \in db'.durable <=> Settled(s[1], line')
               /\ s[1] \in db'.durable \cup db'.pending
    <2>1. /\ s[1] \in db.durable <=> Settled(s[1], line')
          /\ s[1] \in db.durable \cup db.pending /\ s[1] # first
          /\ ~ tx => db.pending = {}
      BY <1>1, <1>2, <1>3, RanSays DEF ConnectionTells
    <2>2. QED
      BY <1>4, <2>1 DEF Conn
  <1>6. /\ first \in db'.durable <=> Settled(first, line')
        /\ first \in db'.durable \cup db'.pending
    <2>1. first \notin db.durable
      BY <1>2, <1>3 DEF ConnectionTells
    <2>2. QED
      BY <1>3, <1>4, <2>1 DEF Conn
  <1>7. \A s \in ran' : /\ s[1] \in db'.durable <=> Settled(s[1], line')
                        /\ s[1] \in db'.durable \cup db'.pending
    BY <1>1, <1>5, <1>6
  <1>8. TransactionsWhole'
    <2>1. /\ ran' \in SUBSET (Lines \X Lines) /\ \A s \in ran' : IsStatement(s[1], s[2])
      BY <1>2, SameText DEF Inv, TypeOK, StatementsWhole, HandedOver
    <2>2. text \in Seq(Line) /\ line' \in 0..Len(text) /\ line' \in Nat /\ line' # 0
      BY <1>1, <1>2, RanSays
    <2>3. Whole(ran', db'.durable, line', line')
      BY <1>7, <2>1, <2>2, WholeIf
    <2>4. QED
      BY <1>1, <1>2, <2>2, <2>3, WholeNext
  <1>9. ConnectionTells'
    <2>1. (db'.open <=> tx') /\ (~ tx' => db'.pending = {})
      BY <1>1, <1>4 DEF Conn
    <2>2. \A a \in db'.durable \cup db'.pending : a < first'
      <3>1. \A a \in db.durable \cup db.pending \cup {first} : a < line + 2
        BY <1>2, <1>3, FirstGrows
      <3>2. QED
        BY <1>1, <1>4, <3>1 DEF Conn
    <2>3. \A s \in ran' : s[2] < first'
      <3>1. \A s \in ran : s[2] < line + 2
        BY <1>2, FirstGrows
      <3>2. QED
        BY <1>1, <1>2, <3>1
    <2>4. \A s \in ran' : Settled(s[1], line)' <=> Settled(s[1], line')
      BY <1>2, SettledSame
    <2>5. QED
      BY <1>7, <2>1, <2>2, <2>3, <2>4 DEF ConnectionTells
  <1>10. QED
    BY <1>8, <1>9 DEF Standing

(* Nothing happens to the connection at the end of the text, or after it.  *)
LEMMA RestStanding ==
    ASSUME Inv, Standing, TransactionsWhole, PlainTriggers, OnlyTx,
           EndOfText \/ UNCHANGED vars
    PROVE  Standing' /\ TransactionsWhole'
  <1>1. /\ UNCHANGED <<text, line, first, tx, db, ran>>
        /\ pc' = pc \/ (pc = "reading" /\ pc' = "nil")
    BY DEF EndOfText, vars
  <1>2. \A a : InTransaction(a)' <=> InTransaction(a)
    BY <1>1 DEF InTransaction, Lines
  <1>3. TransactionsWhole'
    <2>1. Whole(ran, db.durable, line, IF pc = "err" THEN line - 1 ELSE line)
      BY DEF TransactionsWhole, Whole
    <2>2. (pc' = "err") <=> (pc = "err")
      BY <1>1
    <2>3. Whole(ran', db'.durable, line', IF pc' = "err" THEN line' - 1 ELSE line')
      BY <1>1, <2>1, <2>2
    <2>4. QED
      BY <1>1, <1>2, <2>3 DEF TransactionsWhole, Whole
  <1>4. \A a : Settled(a, line)' <=> Settled(a, line)
    BY <1>1, <1>2 DEF Settled
  <1>5. Standing'
    BY <1>1, <1>4 DEF Standing, ConnectionTells, OnlyTx
  <1>6. QED
    BY <1>3, <1>5

LEMMA OnlyTxStays == ASSUME text' = text PROVE OnlyTx' <=> OnlyTx
  BY SameText DEF OnlyTx, Does

LEMMA TransactionsNext ==
    Inv /\ Standing /\ TransactionsWhole /\ [Next]_vars => Standing' /\ TransactionsWhole'
  <1> SUFFICES ASSUME Inv, Standing, TransactionsWhole, [Next]_vars
               PROVE  Standing' /\ TransactionsWhole'
    OBVIOUS
  <1>1. text' = text
    BY DEF Next, vars, BeginTransaction, Commit, StartTrigger, Collect, Select,
           Exec, ExecFails, Complete, EndOfText, Read
  <1>2. CASE ~ (PlainTriggers /\ OnlyTx)
    BY <1>1, <1>2, OnlyTxStays, SameText DEF Standing, TransactionsWhole
  <1>3. CASE PlainTriggers /\ OnlyTx
    BY <1>3, InvNext, LinesStanding, BeginStanding, CommitStanding, SelectStanding,
       ExecStanding, ExecFailsStanding, RestStanding DEF Next
  <1>4. QED
    BY <1>2, <1>3
------------------------------------------------------------------------------
(* What Batch keeps of the text is of the right type.                      *)
THEOREM TypeCorrect == Spec => []TypeOK
  <1>1. Inv => TypeOK
    BY DEF Inv
  <1>2. QED
    BY <1>1, Invariant, PTL

(* Of a text whose triggers end on a line of their own, or are written on  *)
(* one line, Batch hands over what SQL takes for its statements, executes  *)
(* each from its first line to its last, and nothing else, however         *)
(* triggers, statements and transactions are mixed.                        *)
THEOREM StatementsWholeAlways == Spec => []StatementsWhole
  <1>1. Inv => StatementsWhole
    BY DEF Inv
  <1>2. QED
    BY <1>1, Invariant, PTL

(* Batch waits for its own transaction, or commits one it does not have,   *)
(* only for a text that breaks the discipline of transactions.             *)
THEOREM DisciplinedGoesOnAlways == Spec => []DisciplinedGoesOn
  <1>1. Inv => DisciplinedGoesOn
    BY DEF Inv
  <1>2. QED
    BY <1>1, Invariant, PTL

(* What BEGIN TRANSACTION and COMMIT; enclose takes effect together: with  *)
(* the COMMIT, or not at all; what they do not enclose, at once.           *)
THEOREM TransactionsWholeAlways == Spec => []TransactionsWhole
  <1>1. Init => Standing /\ TransactionsWhole
    BY DEF Init, Standing, ConnectionTells, TransactionsWhole, Fresh, Conn
  <1>2. QED
    BY <1>1, Invariant, TransactionsNext, PTL DEF Spec
==============================================================================
