--------------------------------- MODULE Batch -------------------------------
(***************************************************************************)
(* DBX.Batch of db.go: a text, such as a dump, is read line by line; lines *)
(* are collected in a buffer until they make a statement, which is then    *)
(* executed.  BEGIN TRANSACTION and COMMIT; are not executed but made into *)
(* a sql.Tx.  The semicolons inside a trigger do not end a statement.      *)
(*                                                                         *)
(* A line, trimmed and free of comments, is modelled by what Batch makes   *)
(* of it, a statement by the numbers of its first and last line: the       *)
(* buffer always holds the lines from first to line.                       *)
(*                                                                         *)
(* The pool of the database has one connection (SetMaxOpenConns(1)), which *)
(* an open sql.Tx keeps for itself.                                        *)
(***************************************************************************)
EXTENDS Database, Sequences

CONSTANT MaxLine    (* bound: the most lines a text has                     *)

ASSUME BatchAssumption == MaxLine \in Nat

(* The lines Batch tells apart, named for how they begin: "begin_tx" is    *)
(* BEGIN TRANSACTION, "commit_tx" COMMIT;, "trigger" CREATE TRIGGER, "end" *)
(* END;, "begin" and "rollback" are BEGIN; and ROLLBACK; "query" is any    *)
(* SELECT and "change" any other statement.  A "_part" has no semicolon,   *)
(* nor has "trigger".  A CREATE TRIGGER with a semicolon is either a       *)
(* "whole_trigger", END; included, or a "short_trigger" with only the      *)
(* first statements of its body.  "change_end" is a change with the END;   *)
(* of a trigger on the same line, which Batch has no eye for.              *)
Ending    == {"whole_trigger", "short_trigger", "end"}
Statement == {"query", "change", "change_end", "begin", "rollback"}
Beginning == {"trigger", "query_part", "change_part"}
Line == {"begin_tx", "commit_tx"} \cup Ending \cup Statement \cup Beginning

VARIABLES
    text,       (* the lines that are not blank                             *)
    line,       (* the lines read                                           *)
    first,      (* the first line in the buffer, line + 1 when it is empty  *)
    trigger,    (* inside a trigger                                         *)
    tx,         (* tx # nil                                                 *)
    db,         (* the connection                                           *)
    ran,        (* the statements executed: first and last line of each     *)
    pc          (* "reading", or how Batch has ended                        *)

vars == <<text, line, first, trigger, tx, db, ran, pc>>

Init ==
    /\ text \in UNION {[1..n -> Line] : n \in 0..MaxLine}
    /\ line = 0
    /\ first = 1
    /\ trigger = FALSE
    /\ tx = FALSE
    /\ db = Fresh
    /\ ran = {}
    /\ pc = "reading"

(* The next line is one of those given.                                    *)
Read(kinds) ==
    /\ pc = "reading" /\ line < Len(text)
    /\ text[line + 1] \in kinds
    /\ line' = line + 1
    /\ UNCHANGED text

(* Mutation of Reset: the next line is dropped as well.                    *)
ResetNext == first' = line + 3

(* statement.Reset()                                                       *)
Reset == first' = line + 2

------------------------------------------------------------------------------
(* The lines that are not executed.                                        *)

(* Mutation of BeginTransaction: the line is skipped, no transaction begun. *)
BeginSkipped ==
    /\ Read({"begin_tx"}) /\ Reset
    /\ UNCHANGED <<trigger, tx, db, ran, pc>>

(* dx.db.Begin(): it waits for the connection, for ever if tx holds it.    *)
BeginTransaction ==
    /\ Read({"begin_tx"}) /\ Reset
    /\ \/ tx /\ pc' = "blocked" /\ UNCHANGED <<tx, db>>
       \/ ~ tx /\ pc' = "err" /\ UNCHANGED <<tx, db>>
       \/ /\ ~ tx /\ tx' = TRUE
          /\ \E c \in {db, Abort(db)} :
               Accepts(c, "begin") /\ db' = After(c, "begin", 0)
          /\ UNCHANGED pc
    /\ UNCHANGED <<trigger, ran>>

(* Mutation of Commit: the transaction is kept.                            *)
CommitKeepsTx ==
    /\ Read({"commit_tx"}) /\ Reset
    /\ \/ ~ tx /\ pc' = "panicked" /\ UNCHANGED db
       \/ tx /\ pc' = "err" /\ UNCHANGED db
       \/ /\ tx /\ Accepts(db, "commit")
          /\ db' = After(db, "commit", 0)
          /\ UNCHANGED pc
    /\ UNCHANGED <<trigger, tx, ran>>

(* tx.Commit(), of a nil pointer when there is no transaction.             *)
Commit ==
    /\ Read({"commit_tx"})
    /\ \/ ~ tx /\ pc' = "panicked" /\ UNCHANGED <<first, tx, db>>
       \/ /\ tx /\ pc' = "err"
          /\ \/ UNCHANGED db
             \/ Accepts(db, "commit") /\ db' = After(db, "commit", 0)
          /\ UNCHANGED <<first, tx>>
       \/ /\ tx /\ tx' = FALSE /\ Reset
          /\ Accepts(db, "commit") /\ db' = After(db, "commit", 0)
          /\ UNCHANGED pc
    /\ UNCHANGED <<trigger, ran>>

StartTrigger ==
    /\ Read({"trigger"})
    /\ trigger' = TRUE
    /\ UNCHANGED <<first, tx, db, ran, pc>>

(* The body of a trigger, and a line without a semicolon.                  *)
Collect ==
    /\ \/ trigger /\ Read(Statement \cup {"query_part", "change_part"})
       \/ ~ trigger /\ Read({"query_part", "change_part"})
    /\ UNCHANGED <<first, trigger, tx, db, ran, pc>>

------------------------------------------------------------------------------
(* The lines that complete a statement: the lines of the buffer and this.  *)

(* Mutation of Complete: a semicolon ends a statement in a trigger, too.   *)
CompleteInTrigger ==
    /\ Read(Ending \cup Statement)
    /\ trigger' = (trigger /\ text[line + 1] # "end")

Complete ==
    /\ Read(Ending \cup (IF trigger THEN {} ELSE Statement))
    /\ trigger' = (trigger /\ text[line + 1] # "end")

Selects == text[first] \in {"query_part", "query"}

(* What the statement from line a to line b does to the database.          *)
Does(a, b) == CASE a = b /\ text[a] = "begin"    -> "begin"
                [] a = b /\ text[a] = "rollback" -> "rollback"
                [] a = b /\ text[a] = "end"      -> "commit"
                [] OTHER                          -> "plain"

(* dx.query on the pool: it waits for ever if tx holds the connection; its *)
(* error is ignored.                                                       *)
Select ==
    /\ Complete /\ Selects
    /\ IF tx THEN pc' = "blocked" /\ UNCHANGED first
             ELSE Reset /\ UNCHANGED pc
    /\ UNCHANGED <<tx, db, ran>>

(* The database knows a trigger by its END, wherever that stands: there is *)
(* more than one statement, or part of one only.                           *)
Several(a, b) == \E i \in a..b : text[i] = "change_end"
CutOff == text[line + 1] = "short_trigger"

(* tx.Exec on the connection of tx; dx.exec on the pool, which takes a new *)
(* connection when the one at hand has broken.  Of several statements the  *)
(* first has been executed and maybe, in sum, some of the rest.            *)
Executed ==
    /\ CutOff => Several(first, line)
    /\ \E c \in IF tx THEN {db} ELSE {db, Abort(db)} :
         LET d == After(c, Does(first, line + 1), first)
         IN  /\ Accepts(c, Does(first, line + 1))
             /\ \/ db' = d
                \/ /\ Several(first, line + 1)
                   /\ \E k \in Kind : Accepts(d, k) /\ db' = After(d, k, first)

Exec ==
    /\ Complete /\ ~ Selects
    /\ ~ CutOff /\ Executed
    /\ ran' = ran \cup {<<first, line + 1>>}
    /\ Reset
    /\ UNCHANGED <<tx, pc>>

(* The error is returned, tx left as it is; the statement may have been    *)
(* executed all the same.                                                  *)
ExecFails ==
    /\ Complete /\ ~ Selects
    /\ pc' = "err"
    /\ Executed \/ UNCHANGED db
    /\ UNCHANGED <<first, tx, ran>>

(* The end of the text: what is in the buffer, and tx, are left.           *)
EndOfText ==
    /\ pc = "reading" /\ line = Len(text)
    /\ pc' = "nil"
    /\ UNCHANGED <<text, line, first, trigger, tx, db, ran>>

------------------------------------------------------------------------------
Next == \/ BeginTransaction \/ Commit \/ StartTrigger \/ Collect
        \/ Select \/ Exec \/ ExecFails \/ EndOfText

Spec == Init /\ [][Next]_vars

------------------------------------------------------------------------------
(* What the lines mean, from the text alone.                               *)

Lines == 1..Len(text)

(* A trigger goes on after line i, or one ends there that began before.    *)
OpensTrigger(i) == text[i] \in {"trigger", "short_trigger"}
EndsTrigger(i)  == text[i] \in {"end", "change_end"}

(* Line i is inside a trigger that began on an earlier line.               *)
InTrigger(i) == \E t \in Lines :
    /\ t < i /\ OpensTrigger(t)
    /\ \A j \in Lines : t <= j /\ j < i => ~ EndsTrigger(j)

(* Line i is inside a transaction: of the BEGIN and COMMIT lines before it *)
(* the last is a BEGIN.                                                    *)
InTransaction(i) == \E b \in Lines :
    /\ b < i /\ text[b] = "begin_tx"
    /\ \A j \in Lines : b <= j /\ j < i => text[j] # "commit_tx"

(* The line ends a statement: an END that closes a trigger does, and a     *)
(* semicolon that is not inside one.                                       *)
Closes(i) == \/ text[i] \in {"whole_trigger", "end", "change_end"}
             \/ text[i] \in Statement /\ ~ InTrigger(i)

(* No statement goes on past the line.                                     *)
Boundary(i) == Closes(i) \/ text[i] \in {"begin_tx", "commit_tx"}

(* The lines from a to b are one statement.                                *)
IsStatement(a, b) ==
    /\ a <= b /\ Closes(b)
    /\ \A i \in Lines : a <= i /\ i < b => ~ Boundary(i)
    /\ a = 1 \/ Boundary(a - 1)

(* Every trigger is written on one line, or with END; and no semicolon of  *)
(* its body on the lines where it ends and begins.                         *)
PlainTriggers == \A i \in Lines : text[i] \notin {"short_trigger", "change_end"}

(* Every trigger that is begun is ended, and only its body is in between.  *)
TriggersEnded == \A i \in Lines :
    /\ OpensTrigger(i) => \E e \in Lines :
         /\ i < e /\ EndsTrigger(e)
         /\ \A j \in (i + 1)..(e - 1) :
              text[j] \in {"query", "change", "query_part", "change_part"}
    /\ EndsTrigger(i) => InTrigger(i)

(* BEGIN and COMMIT alternate, and no query stands between them.           *)
Disciplined == \A i \in Lines :
    /\ text[i] = "commit_tx" => InTransaction(i)
    /\ text[i] = "begin_tx" => ~ InTransaction(i)
    /\ text[i] \in {"query_part", "query"} => ~ InTransaction(i)

(* No statement but the lines BEGIN TRANSACTION and COMMIT; begins or ends *)
(* a transaction.                                                          *)
OnlyTx == \A a, b \in Lines : IsStatement(a, b) => Does(a, b) = "plain"

------------------------------------------------------------------------------
TypeOK ==
    /\ text \in Seq(Line) /\ Len(text) <= MaxLine
    /\ line \in 0..Len(text)
    /\ first \in 1..(line + 1)
    /\ trigger \in BOOLEAN /\ tx \in BOOLEAN
    /\ db \in Connection
    /\ ran \subseteq Lines \X Lines
    /\ pc \in {"reading", "nil", "err", "blocked", "panicked"}

(* What Batch has given to be executed: what was, and what failed.         *)
HandedOver ==
    ran \cup IF pc = "err" /\ text[line] \notin {"begin_tx", "commit_tx"}
             THEN {<<first, line>>} ELSE {}

(* Triggers reach the database whole, and so do other statements: what has *)
(* been handed over are statements of the text up to here, from the first  *)
(* line to the last, and all of them have been executed, the queries and   *)
(* the failed one aside.  So it is when triggers are written plainly.      *)
StatementsWhole == PlainTriggers =>
    /\ \A s \in HandedOver : IsStatement(s[1], s[2])
    /\ \A a, b \in Lines :
         /\ IsStatement(a, b) /\ text[a] \notin {"query_part", "query"}
         /\ b < line \/ (b = line /\ pc \in {"reading", "nil"})
         => <<a, b>> \in ran

(* "This is complicated by trigger statements which include one or more    *)
(* statements with their own ; occurrences between the BEGIN and END"      *)
(* (db.go:726-728): however a trigger is written, as long as it ends, no   *)
(* part of it is handed over for a statement, and once Batch returns nil   *)
(* it has been executed.                                                   *)
TriggersWhole == TriggersEnded =>
    /\ \A s \in HandedOver : IsStatement(s[1], s[2])
    /\ pc = "nil" => \A a, b \in Lines :
         IsStatement(a, b) /\ EndsTrigger(b) => <<a, b>> \in ran

(* A statement executed outside a transaction takes effect at once, one    *)
(* inside it with its COMMIT; and not before; if that fails, it takes      *)
(* effect together with the rest of its transaction or not at all.  This   *)
(* is of texts whose triggers are written plainly, too.                    *)
TransactionsWhole ==
    LET Due(s, l) == \/ ~ InTransaction(s[1])
                     \/ \E c \in s[2]..l : text[c] = "commit_tx"
    IN  PlainTriggers /\ OnlyTx =>
          /\ \A s \in ran : s[1] \in db.durable => Due(s, line)
          /\ \A s \in ran :
               Due(s, IF pc = "err" THEN line - 1 ELSE line) => s[1] \in db.durable
          /\ \A s, t \in ran :
               /\ s[1] < t[1] /\ InTransaction(s[1])
               /\ \A i \in s[1]..t[1] : text[i] # "commit_tx"
               => (s[1] \in db.durable <=> t[1] \in db.durable)

(* A text that keeps to the discipline of transactions never blocks and    *)
(* never panics.                                                           *)
DisciplinedGoesOn == Disciplined => pc \notin {"blocked", "panicked"}

(* "Batch emulates the client reading a series of commands" (db.go:720): a *)
(* query gets its answer.                                                  *)
QueriesAnswered == pc = "blocked" => text[line] \notin {"query_part", "query"}
==============================================================================
