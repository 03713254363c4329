-------------------------------- MODULE Exec ---------------------------------
(***************************************************************************)
(* DBX.exec of db.go: a write statement is tried up to retryLimit times,   *)
(* with a delay after each, until the database accepts or rejects it.     *)
(* Calls share the one pooled connection of a cached database, and the     *)
(* circuit breaker, which is consulted before the first attempt only.      *)
(*                                                                         *)
(* One attempt is one db.Exec: database/sql sends the statement again, on  *)
(* a new connection, when the driver reports a bad one.  A statement whose *)
(* answer did not arrive may have been applied, or still be applied later. *)
(***************************************************************************)
EXTENDS Naturals

CONSTANTS
    Call,       (* the calls of exec                                        *)
    RetryLimit, (* retryLimit, 10 in the code                               *)
    MaxSend     (* how often database/sql sends in one attempt, 3           *)

ASSUME ExecAssumption == RetryLimit \in Nat \ {0} /\ MaxSend \in Nat \ {0}

VARIABLES
    pc,         (* pc[c]: where the call is                                 *)
    disabled,   (* dbxDisabled, the circuit breaker                         *)
    tries,      (* tries[c]: failed attempts                                *)
    sends,      (* sends[c]: sends of the present attempt                   *)
    total,      (* total[c]: sends of all attempts                          *)
    rows,       (* rows[c]: how often the statement has been applied        *)
    stray,      (* stray[c]: sends given up that may yet be applied         *)
    result      (* result[c]: what the call returned                        *)

vars == <<pc, disabled, tries, sends, total, rows, stray, result>>

OnConnection == {"sent", "applied", "rejected"}
Location == {"idle", "waiting", "sleeping", "done"} \cup OnConnection

Init ==
    /\ pc       = [c \in Call |-> "idle"]
    /\ disabled = FALSE
    /\ tries    = [c \in Call |-> 0]
    /\ sends    = [c \in Call |-> 0]
    /\ total    = [c \in Call |-> 0]
    /\ rows     = [c \in Call |-> 0]
    /\ stray    = [c \in Call |-> 0]
    /\ result   = [c \in Call |-> "none"]

Goto(c, from, to) ==
    /\ pc[c] = from
    /\ pc' = [pc EXCEPT ![c] = to]

Return(c, from, r) ==
    /\ Goto(c, from, "done")
    /\ result' = [result EXCEPT ![c] = r]

------------------------------------------------------------------------------
(* EnableDatabase. *)
SetBreaker ==
    /\ disabled' = ~ disabled
    /\ UNCHANGED <<pc, tries, sends, total, rows, stray, result>>

Begin(c) ==
    /\ IF disabled THEN Return(c, "idle", "unavailable")
                   ELSE Goto(c, "idle", "waiting") /\ UNCHANGED result
    /\ UNCHANGED <<disabled, tries, sends, total, rows, stray>>

(* Mutation of Send: the breaker is consulted before every attempt.        *)
SendUnlessDisabled(c) ==
    /\ \A d \in Call : pc[d] \notin OnConnection
    /\ IF disabled
         THEN Return(c, "waiting", "unavailable") /\ UNCHANGED <<sends, total>>
         ELSE /\ Goto(c, "waiting", "sent")
              /\ sends' = [sends EXCEPT ![c] = @ + 1]
              /\ total' = [total EXCEPT ![c] = @ + 1]
              /\ UNCHANGED result
    /\ UNCHANGED <<disabled, tries, rows, stray>>

(* SetMaxOpenConns(1): the call waits until nobody holds the connection.   *)
Send(c) ==
    /\ \A d \in Call : pc[d] \notin OnConnection
    /\ Goto(c, "waiting", "sent")
    /\ sends' = [sends EXCEPT ![c] = @ + 1]
    /\ total' = [total EXCEPT ![c] = @ + 1]
    /\ UNCHANGED <<disabled, tries, rows, stray, result>>

(* The database executes the statement, or answers with a Code above 0.    *)
Apply(c) ==
    /\ Goto(c, "sent", "applied")
    /\ rows' = [rows EXCEPT ![c] = @ + 1]
    /\ UNCHANGED <<disabled, tries, sends, total, stray, result>>

Reject(c) ==
    /\ Goto(c, "sent", "rejected")
    /\ UNCHANGED <<disabled, tries, sends, total, rows, stray, result>>

(* A send that was given up is applied after all, if ever.                 *)
ApplyStray(c) ==
    /\ stray[c] > 0
    /\ stray' = [stray EXCEPT ![c] = @ - 1]
    /\ rows' = [rows EXCEPT ![c] = @ + 1]
    /\ UNCHANGED <<pc, disabled, tries, sends, total, result>>

(* Mutation of Succeed: the call does not wait for the answer.             *)
SucceedUnawaited(c) ==
    /\ Return(c, "sent", "ok")
    /\ stray' = [stray EXCEPT ![c] = @ + 1]
    /\ UNCHANGED <<disabled, tries, sends, total, rows>>

Succeed(c) ==
    /\ Return(c, "applied", "ok")
    /\ UNCHANGED <<disabled, tries, sends, total, rows, stray>>

(* The answer of a send is given up; unless the database has decided by    *)
(* then, the statement may be applied later.                               *)
GiveUp(c) ==
    stray' = IF pc[c] = "sent" THEN [stray EXCEPT ![c] = @ + 1] ELSE stray

(* Mutation of FailSql: a failed connection counts as an SQL error.        *)
FailSqlAny(c) ==
    /\ pc[c] \in OnConnection
    /\ Return(c, pc[c], "sqlerr")
    /\ GiveUp(c)
    /\ UNCHANGED <<disabled, tries, sends, total, rows>>

(* derr.Code > 0: not retried. *)
FailSql(c) ==
    /\ Return(c, "rejected", "sqlerr")
    /\ UNCHANGED <<disabled, tries, sends, total, rows, stray>>

(* The connection is bad: database/sql sends again.                        *)
Resend(c) ==
    /\ pc[c] \in OnConnection /\ sends[c] < MaxSend
    /\ Goto(c, pc[c], "waiting")
    /\ GiveUp(c)
    /\ UNCHANGED <<disabled, tries, sends, total, rows, result>>

(* The attempt fails with anything but an SQL error: a bad connection once *)
(* too often, another network error, or no connection to be had.           *)
FailAttempt(c) ==
    /\ pc[c] \in OnConnection \cup {"waiting"}
    /\ Goto(c, pc[c], "sleeping")
    /\ GiveUp(c)
    /\ UNCHANGED <<disabled, tries, sends, total, rows, result>>

(* Mutation of Sleep: the loop is left one attempt late.                   *)
SleepOnceMore(c) ==
    /\ tries' = [tries EXCEPT ![c] = @ + 1]
    /\ sends' = [sends EXCEPT ![c] = 0]
    /\ IF tries[c] <= RetryLimit
         THEN Goto(c, "sleeping", "waiting") /\ UNCHANGED result
         ELSE Return(c, "sleeping", "exhausted")
    /\ UNCHANGED <<disabled, total, rows, stray>>

(* time.Sleep(delay), longer each time; and the next turn of the loop.     *)
Sleep(c) ==
    /\ tries' = [tries EXCEPT ![c] = @ + 1]
    /\ sends' = [sends EXCEPT ![c] = 0]
    /\ IF tries[c] + 1 < RetryLimit
         THEN Goto(c, "sleeping", "waiting") /\ UNCHANGED result
         ELSE Return(c, "sleeping", "exhausted")
    /\ UNCHANGED <<disabled, total, rows, stray>>

------------------------------------------------------------------------------
Answer(c) == Apply(c) \/ Reject(c) \/ Succeed(c) \/ FailSql(c)
Attempt(c) == Send(c) \/ Answer(c) \/ Resend(c) \/ FailAttempt(c)

Next == \/ SetBreaker
        \/ \E c \in Call : Begin(c) \/ Attempt(c) \/ Sleep(c) \/ ApplyStray(c)

(* An attempt gets on, with an answer or an error, and a sleep ends.       *)
Fairness == \A c \in Call : WF_vars(Attempt(c)) /\ WF_vars(Sleep(c))

Spec == Init /\ [][Next]_vars /\ Fairness

------------------------------------------------------------------------------
TypeOK ==
    /\ pc \in [Call -> Location]
    /\ disabled \in BOOLEAN
    /\ tries \in [Call -> 0..RetryLimit]
    /\ sends \in [Call -> 0..MaxSend]
    /\ total \in [Call -> Nat]
    /\ rows \in [Call -> Nat] /\ stray \in [Call -> Nat]
    /\ result \in [Call -> {"none", "ok", "sqlerr", "exhausted", "unavailable"}]

(* A statement is applied at most once for each time it was sent, and a    *)
(* send that was rejected, or is undecided, accounts for one more; so a    *)
(* statement never takes effect twice unless an answer was given up.       *)
EffectsAccounted == \A c \in Call :
    rows[c] + stray[c]
      + (IF pc[c] \in {"sent", "rejected"} \/ result[c] = "sqlerr" THEN 1 ELSE 0)
    <= total[c]

(* Retries and resends together are bounded: no statement is sent, and     *)
(* hence applied, more than RetryLimit * MaxSend times.                    *)
SendsBounded == \A c \in Call : total[c] <= RetryLimit * MaxSend

(* What a result says of the statement: success that it was applied, the   *)
(* breaker's refusal that it never reached the database, giving up that    *)
(* all attempts were made.                                                 *)
ResultTellsEffect == \A c \in Call :
    /\ result[c] = "ok" => rows[c] > 0
    /\ result[c] = "unavailable" => total[c] = 0 /\ rows[c] = 0 /\ stray[c] = 0
    /\ result[c] = "exhausted" => tries[c] = RetryLimit

------------------------------------------------------------------------------
(* The calls implement AtLeastOnce. *)
Phase(c) == CASE pc[c] = "idle" -> "idle"
              [] pc[c] = "done" -> "done"
              [] OTHER -> "busy"

Promise == INSTANCE AtLeastOnce WITH
    MaxEffect <- RetryLimit * MaxSend,
    phase     <- [c \in Call |-> Phase(c)],
    effects   <- rows,
    outcome   <- result

(* exec keeps its promise, including that every call returns.              *)
ImplementsAtLeastOnce == Promise!Spec
==============================================================================
