-------------------------------- MODULE Session ------------------------------
(***************************************************************************)
(* The commands that open the database and execute statements on it one    *)
(* after another: adhoc with DBX.Eval, query with DBX.queryFile, and load  *)
(* with DBX.Batch (main.go, db.go).  A write goes through DBX.exec, which  *)
(* is module Exec, anything else through DBX.query.  What is here is the   *)
(* loop around them, and the one connection that both need.                *)
(*                                                                         *)
(* A statement is modelled by what the loop makes of it: "select", a       *)
(* "pragma" without and a "setting" with an equals sign, a "change", and   *)
(* for adhoc also nothing at all and nothing but blanks.  Transactions     *)
(* inside a load are the subject of Batch.                                 *)
(***************************************************************************)
EXTENDS Exec, Sequences

CONSTANT MaxStatement   (* bound: the most statements of a load             *)

(* The calls of exec are named for the statements they execute.            *)
ASSUME SessionAssumption ==
    MaxStatement \in Nat \ {0} /\ Call = 1..MaxStatement

VARIABLES
    by,         (* the command                                              *)
    script,     (* its statements                                           *)
    at,         (* which of them is next, 0 before the database is open     *)
    status,     (* "running", or what the command's function has returned   *)
    query       (* how far dx.query has got                                 *)

session == <<by, script, at, status, query>>
svars == <<vars, session>>

Scripts == [adhoc |-> {<<k>> : k \in {"select", "pragma", "setting", "change",
                                      "empty", "blank"}},
            query |-> {<<"select">>},
            load  |-> UNION {[1..n -> {"select", "pragma", "change"}] :
                               n \in 0..MaxStatement}]

SessionInit ==
    /\ Init
    /\ by \in DOMAIN Scripts
    /\ script \in Scripts[by]
    /\ at = 0
    /\ status = "running"
    /\ query = "none"

(* The statements that go to dx.exec and to dx.query.  Batch has no eye    *)
(* for pragmas.                                                            *)
Execs(c) == \/ script[c] \in {"setting", "change"}
            \/ script[c] = "pragma" /\ by = "load"
Queries(c) == script[c] \in {"select", "pragma"} /\ ~ Execs(c)

Turn(c) == status = "running" /\ at = c /\ c <= Len(script)

GoOn == at' = at + 1 /\ UNCHANGED status
Stop(s) == status' = s /\ UNCHANGED at

------------------------------------------------------------------------------
(* NewConnection.                                                          *)
Open ==
    /\ status = "running" /\ at = 0
    /\ GoOn \/ Stop("err")
    /\ UNCHANGED <<vars, by, script, query>>

(* A statement that is no statement: Eval returns an error, or asks for    *)
(* the first of no fields.                                                 *)
Refuse ==
    /\ Turn(1)
    /\ \/ script[1] = "empty" /\ Stop("err")
       \/ script[1] = "blank" /\ Stop("panicked")
    /\ UNCHANGED <<vars, by, script, query>>

(* dx.exec; while rows are open their connection is not to be had.         *)
InExec(c) ==
    /\ Turn(c) /\ Execs(c)
    /\ \/ Begin(c) \/ Answer(c) \/ Sleep(c)
       \/ query # "open" /\ (Send(c) \/ Resend(c) \/ FailAttempt(c))
    /\ UNCHANGED session

(* Mutation of ExecReturns: the loop goes on after an error.               *)
ExecReturnsAny(c) ==
    /\ Turn(c) /\ Execs(c) /\ pc[c] = "done"
    /\ GoOn
    /\ UNCHANGED <<vars, by, script, query>>

ExecReturns(c) ==
    /\ Turn(c) /\ Execs(c) /\ pc[c] = "done"
    /\ IF result[c] = "ok" THEN GoOn ELSE Stop("err")
    /\ UNCHANGED <<vars, by, script, query>>

QueryBegins(c) ==
    /\ Turn(c) /\ Queries(c) /\ query = "none"
    /\ query' = IF disabled THEN "failed" ELSE "waiting"
    /\ UNCHANGED <<vars, by, script, at, status>>

(* db.Query waits for the connection, and keeps it until the rows are      *)
(* closed.                                                                 *)
QuerySent ==
    /\ query = "waiting" /\ \A c \in Call : pc[c] \notin OnConnection
    /\ query' \in {"open", "failed"}
    /\ UNCHANGED <<vars, by, script, at, status>>

(* Mutations of QueryReturns: a row that cannot be scanned leaves the rows *)
(* open; a load ends with the error of a query.                            *)
QueryReturnsOpen(c) ==
    /\ Turn(c) /\ Queries(c)
    /\ \/ query = "open" /\ query' = "none" /\ GoOn
       \/ /\ \/ query = "open" /\ UNCHANGED query
             \/ query = "failed" /\ query' = "none"
          /\ IF by = "load" THEN GoOn ELSE Stop("err")
    /\ UNCHANGED <<vars, by, script>>

QueryReturnsStop(c) ==
    /\ Turn(c) /\ Queries(c) /\ query \in {"open", "failed"}
    /\ query' = "none"
    /\ (query = "open" /\ GoOn) \/ Stop("err")
    /\ UNCHANGED <<vars, by, script>>

(* The rows are closed on every path: after the last row, or the last that *)
(* arrived, since nobody asks for rows.Err; after one that cannot be       *)
(* scanned.  Batch ignores the error.                                      *)
QueryReturns(c) ==
    /\ Turn(c) /\ Queries(c) /\ query \in {"open", "failed"}
    /\ query' = "none"
    /\ \/ query = "open" /\ GoOn
       \/ IF by = "load" THEN GoOn ELSE Stop("err")
    /\ UNCHANGED <<vars, by, script>>

Finish ==
    /\ status = "running" /\ at = Len(script) + 1
    /\ Stop("nil")
    /\ UNCHANGED <<vars, by, script, query>>

------------------------------------------------------------------------------
Own == \/ Open \/ Refuse \/ QuerySent \/ Finish
       \/ \E c \in Call : \/ InExec(c) \/ ExecReturns(c)
                          \/ QueryBegins(c) \/ QueryReturns(c)

(* The breaker is set while the command runs, and what it sent may be      *)
(* applied even after it has ended.                                        *)
Outside == /\ \/ SetBreaker /\ status = "running"
              \/ \E c \in Call : ApplyStray(c)
           /\ UNCHANGED session

SessionNext == Own \/ Outside

(* The process gets on; sends and queries end, with an answer or an error. *)
SessionSpec == SessionInit /\ [][SessionNext]_svars /\ WF_svars(Own)

------------------------------------------------------------------------------
SessionTypeOK ==
    /\ TypeOK
    /\ by \in DOMAIN Scripts /\ script \in Scripts[by]
    /\ at \in 0..(Len(script) + 1)
    /\ status \in {"running", "nil", "err", "panicked"}
    /\ query \in {"none", "waiting", "open", "failed"}

(* When a statement is applied, the ones before it in the script have been *)
(* applied.  Statements sent again, and late ones, can still end up behind *)
(* their successors, but only as repeats: what is applied after a later    *)
(* statement has been applied before, and was sent more than once (db.go,  *)
(* the loops around dx.exec, which await each answer).                     *)
OnlyRepeatsComeLate == [][\A c \in 1..Len(script) :
    Execs(c) /\ rows'[c] > rows[c] =>
        /\ \A d \in 1..(c - 1) : Execs(d) => rows[d] > 0
        /\ (\E d \in (c + 1)..Len(script) : rows[d] > 0)
               => rows[c] > 0 /\ total[c] > 1]_svars

(* Every command ends, if only by a panic: attempts are bounded, and no    *)
(* statement waits for a connection that its own process keeps.            *)
SessionEnds == <>(status # "running")

------------------------------------------------------------------------------
(* A load implements Batch: what is one step there, an execution that      *)
(* succeeds or fails, is here all the attempts of exec.                    *)
Loading == by = "load" /\ at > 0
LinesRead == IF ~ Loading THEN 0 ELSE IF status = "err" THEN at ELSE at - 1
Failed == Loading /\ status = "err"
Acknowledged == {c \in 1..LinesRead : Execs(c) /\ result[c] = "ok"}

AsBatch == INSTANCE Batch WITH
    MaxLine <- MaxStatement,
    text    <- IF by # "load" THEN <<>>
               ELSE [c \in 1..Len(script) |-> IF Execs(c) THEN "change" ELSE "query"],
    line    <- LinesRead,
    first   <- IF Failed THEN LinesRead ELSE LinesRead + 1,
    trigger <- FALSE,
    tx      <- FALSE,
    db      <- [open |-> FALSE, pending |-> {}, durable |-> Acknowledged],
    ran     <- {<<c, c>> : c \in Acknowledged},
    pc      <- IF Loading /\ status # "running" THEN status ELSE "reading"

(* The statements are executed as Batch lets them be, in order and each    *)
(* once, up to the first that fails.                                       *)
ImplementsBatch == AsBatch!Spec
==============================================================================
