------------------------------- MODULE Database ------------------------------
(***************************************************************************)
(* What db.go relies on of the database: one connection, on which          *)
(* statements take effect at once or, in a transaction, when it commits.   *)
(* A statement that changes data is known by a number; what it changed is  *)
(* either pending or durable.                                              *)
(***************************************************************************)
EXTENDS Naturals

Connection == [open : BOOLEAN, pending : SUBSET Nat, durable : SUBSET Nat]

Conn(o, p, d) == [open |-> o, pending |-> p, durable |-> d]

(* The connection before anything was executed.                            *)
Fresh == Conn(FALSE, {}, {})

(* What a statement does: change data, or begin, commit or roll back.      *)
Kind == {"plain", "begin", "commit", "rollback"}

(* A transaction does not begin inside another one, nor end outside one.   *)
Accepts(db, kind) ==
    \/ kind = "plain"
    \/ kind = "begin" /\ ~ db.open
    \/ kind \in {"commit", "rollback"} /\ db.open

(* The connection after statement s, of an accepted kind.                  *)
After(db, kind, s) ==
    CASE kind = "plain" /\ db.open ->
            Conn(TRUE, db.pending \cup {s}, db.durable)
      [] kind = "plain" /\ ~ db.open ->
            Conn(FALSE, db.pending, db.durable \cup {s})
      [] kind = "begin"    -> Conn(TRUE, db.pending, db.durable)
      [] kind = "commit"   -> Conn(FALSE, {}, db.durable \cup db.pending)
      [] kind = "rollback" -> Conn(FALSE, {}, db.durable)

(* The connection breaks or is closed, or its transaction is rolled back.  *)
Abort(db) == Conn(FALSE, {}, db.durable)
==============================================================================
