-------------------------------- MODULE Hammer -------------------------------
(***************************************************************************)
(* The load test of hammer.go: hammerPrep makes an empty table, hammerTime *)
(* inserts Count rows one after another and compares what it counts with   *)
(* the ids of the rows.                                                    *)
(*                                                                         *)
(* An insert whose answer is lost is sent again by database/sql, and may   *)
(* have been applied, or may still be.  The table is the hammer's own, and *)
(* the two statements of hammerPrep, once answered, are settled.           *)
(***************************************************************************)
EXTENDS Naturals

CONSTANTS
    Count,      (* the inserts to make                                      *)
    MaxSend     (* how often database/sql sends one insert                  *)

ASSUME HammerAssumption == Count \in Nat /\ MaxSend \in Nat \ {0}

VARIABLES
    pc,         (* "drop", "create", "insert"; "executed" while an answer   *)
                (* is on its way; or how the hammer has ended               *)
    i,          (* the inserts attempted                                    *)
    last,       (* the id of the last row inserted                          *)
    good,       (* the rows counted                                         *)
    fails,      (* the failures since the last success                      *)
    rows,       (* the rows of the table: their ids are 1 to rows           *)
    id,         (* the id in the answer on its way, 0 if none               *)
    late,       (* the inserts given up that may still be applied           *)
    acked       (* the inserts answered with success                        *)

vars == <<pc, i, last, good, fails, rows, id, late, acked>>

Init ==
    /\ pc = "drop"
    /\ i = 0 /\ last = 0 /\ good = 0 /\ fails = 0
    /\ rows \in 0..Count        (* left by an earlier hammer                *)
    /\ id = 0 /\ late = 0 /\ acked = 0

------------------------------------------------------------------------------
(* hammerPrep.                                                             *)

Drop ==
    /\ pc = "drop" /\ pc' = "create"
    /\ rows' = 0
    /\ UNCHANGED <<i, last, good, fails, id, late, acked>>

Create ==
    /\ pc = "create" /\ pc' = "insert"
    /\ UNCHANGED <<i, last, good, fails, rows, id, late, acked>>

(* Either statement fails, having been applied or not.                     *)
PrepFails ==
    /\ pc \in {"drop", "create"} /\ pc' = "fatal"
    /\ rows' \in {0, rows}
    /\ UNCHANGED <<i, last, good, fails, id, late, acked>>

------------------------------------------------------------------------------
(* hammerTime.                                                             *)

(* Mutation of Attempt: one insert too many.                               *)
AttemptPastEnd == pc = "insert" /\ i <= Count

Attempt == pc = "insert" /\ i < Count

(* Of n inserts sent without an answer, some have been applied, and some   *)
(* may be later; ids are given in the order in which rows are inserted.    *)
Unanswered(n, applied, delayed) ==
    /\ applied \in 0..n /\ delayed \in 0..n
    /\ applied + delayed <= n
    /\ late' = late + delayed

(* Mutation of Counted: good is not reset to the last id.                  *)
CountedOneByOne(row) == good + 1

(* The rows counted after the insert of a row: good is set to its id when  *)
(* it is off.                                                              *)
Counted(row) == IF row # good + 1 THEN row ELSE good + 1

(* The database executes an insert, and its answer will arrive; until it   *)
(* does, inserts given up before may be applied too.                       *)
Execute ==
    /\ Attempt /\ pc' = "executed"
    /\ \E applied, delayed \in 0..(MaxSend - 1) :
         /\ Unanswered(MaxSend - 1, applied, delayed)
         /\ rows' = rows + applied + 1
    /\ id' = rows'
    /\ UNCHANGED <<i, last, good, fails, acked>>

(* The answer has arrived: the hammer counts.                              *)
Succeed ==
    /\ pc = "executed" /\ pc' = "insert"
    /\ i' = i + 1
    /\ last' = id /\ id' = 0
    /\ good' = Counted(id)
    /\ fails' = 0
    /\ acked' = acked + 1
    /\ UNCHANGED <<rows, late>>

(* Mutation of Failure: the insert is counted before its error is seen.    *)
FailureCounts ==
    /\ Attempt
    /\ \E applied, delayed \in 0..MaxSend :
         /\ Unanswered(MaxSend, applied, delayed)
         /\ rows' = rows + applied
    /\ fails' = fails + 1
    /\ good' = good + 1
    /\ UNCHANGED <<last, id, acked>>

Failure ==
    /\ Attempt
    /\ \E applied, delayed \in 0..MaxSend :
         /\ Unanswered(MaxSend, applied, delayed)
         /\ rows' = rows + applied
    /\ fails' = fails + 1
    /\ UNCHANGED <<last, good, id, acked>>

(* io.EOF: on to the next insert.                                          *)
Eof ==
    /\ Failure
    /\ i' = i + 1
    /\ UNCHANGED pc

(* Any other error: the loop that unwraps it leaves err nil, on which      *)
(* err.Error() is called.                                                  *)
OtherError ==
    /\ Failure
    /\ pc' = "panicked"
    /\ UNCHANGED i

Finish ==
    /\ pc = "insert" /\ i = Count
    /\ pc' = "done"
    /\ UNCHANGED <<i, last, good, fails, rows, id, late, acked>>

(* An insert given up is applied after all, whatever the hammer does.      *)
ApplyLate ==
    /\ late > 0
    /\ late' = late - 1
    /\ rows' = rows + 1
    /\ UNCHANGED <<pc, i, last, good, fails, id, acked>>

------------------------------------------------------------------------------
Next == \/ Drop \/ Create \/ PrepFails
        \/ Execute \/ Succeed \/ Eof \/ OtherError \/ Finish \/ ApplyLate

Spec == Init /\ [][Next]_vars

------------------------------------------------------------------------------
TypeOK ==
    /\ pc \in {"drop", "create", "insert", "executed", "done", "fatal", "panicked"}
    /\ i \in 0..Count
    /\ last \in Nat /\ good \in Nat /\ fails \in Nat
    /\ rows \in Nat /\ id \in Nat /\ late \in Nat /\ acked \in Nat

Hammering == pc \in {"insert", "executed", "done", "panicked"}

(* The inserts begun, the one in hand and the one that failed included.    *)
Begun == IF pc \in {"executed", "panicked"} THEN i + 1 ELSE i

(* What the hammer counts lies between what it was told and what is there, *)
(* however many answers were lost: good, though reset again and again,     *)
(* covers every success and no row that does not exist; and no row appears *)
(* that was not sent.                                                      *)
CountsBetween == Hammering =>
    /\ acked <= good /\ good <= rows
    /\ rows + late <= MaxSend * Begun

(* Resetting good to the last id never takes a row back: whatever was lost *)
(* or applied late before, the id that comes with a success is beyond all  *)
(* rows counted so far, and good catches up with it.  Rows applied late    *)
(* after it, even before its answer has arrived, wait for the next success *)
(* (hammer.go:100-114).                                                    *)
GoodCatchesUp ==
    [][good' >= good /\ (acked' > acked => good' > good /\ good' = id)]_vars
==============================================================================
