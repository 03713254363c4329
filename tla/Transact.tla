------------------------------- MODULE Transact ------------------------------
(***************************************************************************)
(* Loading a file as one transaction (db.go): loadFile opens the file and  *)
(* hands it to liner, whose goroutine scans it and sends each line on a    *)
(* channel without a buffer; transact receives the lines, executes each in *)
(* a transaction and commits when the channel is closed.                   *)
(*                                                                         *)
(* The two goroutines share the channel and the file: loadFile closes the  *)
(* file when transact returns, liner when it has scanned it.               *)
(*                                                                         *)
(* A line is known by its number; what it does to the database is its      *)
(* kind: the lines of a dump may themselves begin or end a transaction.    *)
(***************************************************************************)
EXTENDS Database, Sequences

CONSTANT MaxLine    (* bound: the most lines a file has                     *)

ASSUME TransactAssumption == MaxLine \in Nat

VARIABLES
    file,       (* the kinds of the lines up to the end or a read error     *)
    consumer,   (* where loadFile and transact are                          *)
    producer,   (* where the goroutine of liner is                          *)
    line,       (* the last line scanned                                    *)
    current,    (* the line transact is executing                           *)
    applied,    (* the lines executed, in order                             *)
    db,         (* the connection of the transaction                        *)
    result      (* what loadFile returned                                   *)

vars == <<file, consumer, producer, line, current, applied, db, result>>

Init ==
    /\ file \in UNION {[1..n -> Kind] : n \in 0..MaxLine}
    /\ consumer = "opening"
    /\ producer = "none"
    /\ line = 0
    /\ current = 0
    /\ applied = <<>>
    /\ db = Fresh
    /\ result = "none"

Consume(from, to) ==
    /\ consumer = from
    /\ consumer' = to

Produce(from, to) ==
    /\ producer = from
    /\ producer' = to

(* The numbers of the lines of the file.                                   *)
Lines == 1..Len(file)

(* No line of the file ends the transaction it is executed in.             *)
Single == \A i \in Lines : file[i] \notin {"commit", "rollback"}

------------------------------------------------------------------------------
(* The goroutine of liner.                                                 *)

(* Mutation of Scan: the line after the last one is sent too.              *)
ScanPastEnd ==
    /\ line <= Len(file)
    /\ Produce("scanning", "sending")
    /\ line' = line + 1
    /\ UNCHANGED <<file, consumer, current, applied, db, result>>

Scan ==
    /\ line < Len(file)
    /\ Produce("scanning", "sending")
    /\ line' = line + 1
    /\ UNCHANGED <<file, consumer, current, applied, db, result>>

(* Mutation of ScanEnds: the goroutine ends without closing the channel.   *)
ScanEndsSilently ==
    /\ line = Len(file) \/ consumer = "returned"
    /\ Produce("scanning", "none")
    /\ UNCHANGED <<file, consumer, line, current, applied, db, result>>

(* The end of the file, a read error (an over-long line is one), or the    *)
(* file has been closed: each closes the channel.                          *)
ScanEnds ==
    /\ line = Len(file) \/ consumer = "returned"
    /\ Produce("scanning", "closed")
    /\ UNCHANGED <<file, consumer, line, current, applied, db, result>>

CloseReader ==
    /\ Produce("closed", "ended")
    /\ UNCHANGED <<file, consumer, line, current, applied, db, result>>

------------------------------------------------------------------------------
(* loadFile and transact.                                                  *)

Fails(from) ==
    /\ Consume(from, "returned")
    /\ result' = "err"

OpenFails ==
    /\ Fails("opening")
    /\ UNCHANGED <<file, producer, line, current, applied, db>>

(* liner(f) starts its goroutine before transact is called.                *)
OpenFile ==
    /\ Consume("opening", "beginning")
    /\ Produce("none", "scanning")
    /\ UNCHANGED <<file, line, current, applied, db, result>>

BeginFails ==
    /\ Fails("beginning")
    /\ UNCHANGED <<file, producer, line, current, applied, db>>

Begin ==
    /\ Consume("beginning", "receiving")
    /\ db' = After(db, "begin", 0)
    /\ UNCHANGED <<file, producer, line, current, applied, result>>

(* c <- scanner.Text() meets the loop over the channel.                    *)
Receive ==
    /\ Consume("receiving", "executing")
    /\ Produce("sending", "scanning")
    /\ current' = line
    /\ UNCHANGED <<file, line, applied, db, result>>

Exec ==
    /\ Consume("executing", "receiving")
    /\ Accepts(db, file[current])
    /\ db' = After(db, file[current], current)
    /\ applied' = Append(applied, current)
    /\ UNCHANGED <<file, producer, line, current, result>>

(* Mutations of ExecFails: the loop is left, not the function; the line is *)
(* skipped.                                                                *)
ExecFailsBreak ==
    /\ Consume("executing", "committing")
    /\ UNCHANGED <<file, producer, line, current, applied, db, result>>

ExecFailsContinue ==
    /\ Consume("executing", "receiving")
    /\ UNCHANGED <<file, producer, line, current, applied, db, result>>

(* Mutation of ExecFails: the transaction is not rolled back.              *)
ExecFailsOpen ==
    /\ Fails("executing")
    /\ UNCHANGED <<file, producer, line, current, applied, db>>

(* tx.Rollback(), whether the line was refused or executed and its answer  *)
(* lost; the goroutine of liner is left as it is.                          *)
ExecFails ==
    /\ Fails("executing")
    /\ \/ db' = Abort(db)
       \/ /\ Accepts(db, file[current])
          /\ db' = Abort(After(db, file[current], current))
    /\ UNCHANGED <<file, producer, line, current, applied>>

(* Mutation of EndOfLines: transact ends when no line is waiting.          *)
EndWhenIdle ==
    /\ producer # "sending"
    /\ Consume("receiving", "committing")
    /\ UNCHANGED <<file, producer, line, current, applied, db, result>>

(* The channel is closed and the loop over it ends. *)
EndOfLines ==
    /\ producer \in {"closed", "ended"}
    /\ Consume("receiving", "committing")
    /\ UNCHANGED <<file, producer, line, current, applied, db, result>>

(* tx.Commit(): its error is dropped, transact returns nil.                *)
Commit ==
    /\ Consume("committing", "returned")
    /\ \/ db' = Abort(db)
       \/ Accepts(db, "commit") /\ db' = After(db, "commit", 0)
    /\ result' = "nil"
    /\ UNCHANGED <<file, producer, line, current, applied>>

------------------------------------------------------------------------------
Liner == Scan \/ ScanEnds \/ CloseReader
Load == \/ OpenFails \/ OpenFile \/ BeginFails \/ Begin
        \/ Exec \/ ExecFails \/ EndOfLines \/ Commit

Next == Liner \/ Load \/ Receive

(* Both goroutines run; the calls to the database return.                  *)
Spec == Init /\ [][Next]_vars
          /\ WF_vars(Liner) /\ WF_vars(Load) /\ WF_vars(Receive)

------------------------------------------------------------------------------
TypeOK ==
    /\ file \in Seq(Kind) /\ Len(file) <= MaxLine
    /\ consumer \in {"opening", "beginning", "receiving", "executing",
                     "committing", "returned"}
    /\ producer \in {"none", "scanning", "sending", "closed", "ended"}
    /\ line \in 0..Len(file) /\ current \in 0..line
    /\ applied \in Seq(1..MaxLine)
    /\ db \in Connection
    /\ result \in {"none", "nil", "err"}

(* The lines reach the database in the order of the file, with none        *)
(* skipped and none twice, however the two goroutines are scheduled.       *)
InFileOrder == applied = [i \in 1..Len(applied) |-> i]

(* Unless a line of the file itself ends the transaction, a load that      *)
(* reports an error has changed nothing, and a load that changed something *)
(* has executed every line that could be read: nothing in between.         *)
AllOrNothing == Single =>
    /\ result = "err" => db.durable = {}
    /\ db.durable \in {{}, Lines}

(* A line that ends the transaction takes no more with it than the lines   *)
(* before it, and no transaction stays open once the load has returned:    *)
(* what is durable was executed, and nothing is pending.                   *)
NothingLeftPending ==
    /\ db.durable \cup db.pending \subseteq 1..line
    /\ consumer = "returned" => ~ db.open /\ db.pending = {}

(* The goroutine of liner stays blocked on a line nobody will receive only *)
(* when the load failed; a load that returns nil leaves nothing behind.    *)
LeftBehindOnlyOnError ==
    result = "nil" => producer \in {"closed", "ended"}

(* The load returns, whatever the file and the database do, and then the   *)
(* scanning goroutine is done with the file or blocked for good.           *)
LoadReturns == <>(consumer = "returned")
LinerEnds == result = "nil" ~> producer = "ended"

(* "transact executes the collection of statements as a single             *)
(* transaction" (db.go:669): when it returns nil the lines are there.      *)
NilMeansCommitted == Single /\ result = "nil" => db.durable = Lines
==============================================================================
