------------------------------ MODULE ExecProofs -----------------------------
(***************************************************************************)
(* Proofs about Exec, for any set of calls, any retry limit and any number *)
(* of sends per attempt: the invariants, and that the calls implement the  *)
(* safety part of AtLeastOnce.  Then about Session, for any number of      *)
(* statements: a command makes no step that exec does not, its statements  *)
(* take effect in order but for repeats, and a load implements Batch.      *)
(*                                                                         *)
(* SendsBounded is not inductive: the bound on the sends of a call comes   *)
(* from its failed attempts and the sends of the present one, BudgetKept.  *)
(***************************************************************************)
EXTENDS Session, TLAPS

(* Each failed attempt stands for at most MaxSend sends.                   *)
BudgetKept == \A c \in Call : total[c] <= tries[c] * MaxSend + sends[c]

(* A call that still tries has an attempt left, and a call that waits for  *)
(* the connection a send left in its attempt.                              *)
AttemptLeft == \A c \in Call :
    /\ pc[c] \in OnConnection \cup {"waiting", "sleeping"} => tries[c] < RetryLimit
    /\ pc[c] = "waiting" => sends[c] < MaxSend
    /\ tries[c] = RetryLimit => sends[c] = 0

(* What is known of a call from where it is.                               *)
PlaceTells == \A c \in Call :
    /\ pc[c] = "idle" => /\ tries[c] = 0 /\ sends[c] = 0 /\ total[c] = 0
                         /\ rows[c] = 0 /\ stray[c] = 0
    /\ pc[c] = "applied" => rows[c] > 0
    /\ result[c] = "none" <=> pc[c] # "done"

Inv == /\ TypeOK /\ EffectsAccounted /\ ResultTellsEffect
       /\ BudgetKept /\ AttemptLeft /\ PlaceTells

LEMMA NextTurn ==
    ASSUME NEW t \in Nat, NEW m \in Nat
    PROVE  t * m \in Nat /\ (t + 1) * m = t * m + m
  OBVIOUS

LEMMA TurnsBounded ==
    ASSUME NEW t \in Nat, NEW l \in Nat, NEW m \in Nat, t < l
    PROVE  t * m + m <= l * m
  <1>1. (l - (t + 1)) * m >= 0
    OBVIOUS
  <1>2. (l - (t + 1)) * m = l * m - (t * m + m)
    OBVIOUS
  <1>3. QED
    BY <1>1, <1>2

LEMMA InitInv == Init => Inv
  <1> SUFFICES ASSUME Init PROVE Inv
    OBVIOUS
  <1> USE ExecAssumption DEF Init
  <1>1. TypeOK
    <2>1. RetryLimit \in Nat /\ MaxSend \in Nat
      OBVIOUS
    <2>2. 0 \in 0..RetryLimit /\ 0 \in 0..MaxSend
      BY <2>1
    <2>3. pc \in [Call -> Location] /\ disabled \in BOOLEAN
      BY DEF Location
    <2>4. /\ tries \in [Call -> 0..RetryLimit] /\ sends \in [Call -> 0..MaxSend]
          /\ result \in [Call -> {"none", "ok", "sqlerr", "exhausted", "unavailable"}]
      BY <2>2
    <2>5. QED
      BY <2>3, <2>4 DEF TypeOK
  <1>2. EffectsAccounted /\ ResultTellsEffect
    BY DEF EffectsAccounted, ResultTellsEffect
  <1>3. BudgetKept
    <2>1. 0 * MaxSend = 0
      OBVIOUS
    <2>2. SUFFICES ASSUME NEW c \in Call
                   PROVE  total[c] <= tries[c] * MaxSend + sends[c]
      BY DEF BudgetKept
    <2>3. total[c] = 0 /\ tries[c] = 0 /\ sends[c] = 0
      OBVIOUS
    <2>4. QED
      BY <2>1, <2>3
  <1>4. AttemptLeft /\ PlaceTells
    BY DEF AttemptLeft, PlaceTells, OnConnection
  <1>5. QED
    BY <1>1, <1>2, <1>3, <1>4 DEF Inv

LEMMA BeginInv ==
    ASSUME NEW c \in Call, Inv, Begin(c)
    PROVE  Inv'
  <1> USE ExecAssumption DEF Begin, Return, Goto, Inv, TypeOK
  <1>1. TypeOK'
    BY DEF Location
  <1>2. EffectsAccounted' /\ ResultTellsEffect'
    BY DEF EffectsAccounted, ResultTellsEffect, PlaceTells
  <1>3. BudgetKept'
    BY DEF BudgetKept
  <1>4. AttemptLeft' /\ PlaceTells'
    BY DEF AttemptLeft, PlaceTells, OnConnection
  <1>5. QED
    BY <1>1, <1>2, <1>3, <1>4

LEMMA SendInv ==
    ASSUME NEW c \in Call, Inv, Send(c)
    PROVE  Inv'
  <1> USE ExecAssumption DEF Send, Goto, Inv, TypeOK
  <1>1. TypeOK'
    BY DEF AttemptLeft, Location, OnConnection
  <1>2. EffectsAccounted' /\ ResultTellsEffect'
    BY DEF EffectsAccounted, ResultTellsEffect, PlaceTells
  <1>3. BudgetKept'
    <2>1. \A d \in Call : tries[d] * MaxSend \in Nat
      BY NextTurn
    <2>2. QED
      BY <2>1 DEF BudgetKept
  <1>4. AttemptLeft' /\ PlaceTells'
    BY DEF AttemptLeft, PlaceTells, OnConnection
  <1>5. QED
    BY <1>1, <1>2, <1>3, <1>4

(* The steps of the database, and the return of a call it has answered.    *)
LEMMA AnswerInv ==
    ASSUME NEW c \in Call, Inv, Answer(c) \/ ApplyStray(c)
    PROVE  Inv'
  <1> USE ExecAssumption
      DEF Return, Goto, Inv, TypeOK, EffectsAccounted, ResultTellsEffect,
          BudgetKept, AttemptLeft, PlaceTells, Location, OnConnection
  <1>1. CASE Apply(c)
    BY <1>1 DEF Apply
  <1>2. CASE Reject(c)
    BY <1>2 DEF Reject
  <1>3. CASE Succeed(c)
    BY <1>3 DEF Succeed
  <1>4. CASE FailSql(c)
    BY <1>4 DEF FailSql
  <1>5. CASE ApplyStray(c)
    BY <1>5 DEF ApplyStray
  <1>6. QED
    BY <1>1, <1>2, <1>3, <1>4, <1>5 DEF Answer

(* An answer that is given up leaves at most one stray send in its place.  *)
LEMMA GiveUpInv ==
    ASSUME NEW c \in Call, Inv, Resend(c) \/ FailAttempt(c)
    PROVE  Inv'
  <1> USE ExecAssumption
      DEF GiveUp, Goto, Inv, TypeOK, EffectsAccounted, ResultTellsEffect,
          BudgetKept, AttemptLeft, PlaceTells, Location, OnConnection
  <1>1. CASE Resend(c)
    BY <1>1 DEF Resend
  <1>2. CASE FailAttempt(c)
    <2>1. CASE pc[c] = "sent"
      BY <1>2, <2>1 DEF FailAttempt
    <2>2. CASE pc[c] # "sent"
      BY <1>2, <2>2 DEF FailAttempt
    <2>3. QED
      BY <2>1, <2>2
  <1>3. QED
    BY <1>1, <1>2

LEMMA SleepInv ==
    ASSUME NEW c \in Call, Inv, Sleep(c)
    PROVE  Inv'
  <1> USE ExecAssumption DEF Inv, Sleep, Return, Goto
  <1>1. tries[c] < RetryLimit /\ pc[c] = "sleeping"
    BY DEF AttemptLeft
  <1>2. TypeOK'
    BY <1>1 DEF TypeOK, Location
  <1>3. EffectsAccounted' /\ ResultTellsEffect'
    <2>1. EffectsAccounted'
      BY <1>1 DEF TypeOK, EffectsAccounted
    <2>2. ResultTellsEffect'
      BY <1>1 DEF TypeOK, ResultTellsEffect
    <2>3. QED
      BY <2>1, <2>2
  <1>4. BudgetKept'
    <2>1. tries[c] * MaxSend \in Nat
          /\ (tries[c] + 1) * MaxSend = tries[c] * MaxSend + MaxSend
      BY NextTurn DEF TypeOK
    <2>2. total[c] <= (tries[c] + 1) * MaxSend + 0
      BY <2>1 DEF TypeOK, BudgetKept
    <2>3. QED
      BY <2>2 DEF TypeOK, BudgetKept
  <1>5. AttemptLeft'
    BY <1>1 DEF TypeOK, AttemptLeft, OnConnection
  <1>6. PlaceTells'
    BY <1>1 DEF TypeOK, PlaceTells
  <1>7. QED
    BY <1>2, <1>3, <1>4, <1>5, <1>6

LEMMA NextInv == Inv /\ [Next]_vars => Inv'
  <1> SUFFICES ASSUME Inv, [Next]_vars PROVE Inv'
    OBVIOUS
  <1>1. CASE SetBreaker
    BY <1>1 DEF SetBreaker, Inv, TypeOK, EffectsAccounted, ResultTellsEffect,
                BudgetKept, AttemptLeft, PlaceTells
  <1>2. CASE UNCHANGED vars
    BY <1>2 DEF vars, Inv, TypeOK, EffectsAccounted, ResultTellsEffect,
                BudgetKept, AttemptLeft, PlaceTells
  <1>3. QED
    BY <1>1, <1>2, BeginInv, SendInv, AnswerInv, GiveUpInv, SleepInv
       DEF Next, Attempt

LEMMA Invariant == Spec => []Inv
  BY InitInv, NextInv, PTL DEF Spec

LEMMA InvBound == Inv => SendsBounded
  <1> SUFFICES ASSUME Inv, NEW c \in Call
               PROVE  total[c] <= RetryLimit * MaxSend
    BY DEF SendsBounded
  <1> USE ExecAssumption DEF Inv, TypeOK
  <1>1. tries[c] * MaxSend \in Nat /\ RetryLimit * MaxSend \in Nat
    BY NextTurn
  <1>2. CASE tries[c] < RetryLimit
    <2>1. tries[c] * MaxSend + MaxSend <= RetryLimit * MaxSend
      BY <1>2, TurnsBounded
    <2>2. QED
      BY <1>1, <2>1 DEF BudgetKept
  <1>3. CASE tries[c] = RetryLimit
    BY <1>1, <1>3 DEF BudgetKept, AttemptLeft
  <1>4. QED
    BY <1>2, <1>3

------------------------------------------------------------------------------
(* The state of the calls is of the right type; in particular no call      *)
(* makes more than RetryLimit attempts.                                    *)
THEOREM TypeCorrect == Spec => []TypeOK
  <1>1. Inv => TypeOK
    BY DEF Inv
  <1>2. QED
    BY <1>1, Invariant, PTL

(* A statement takes effect twice only if an answer was given up.          *)
THEOREM EffectsAccountedAlways == Spec => []EffectsAccounted
  <1>1. Inv => EffectsAccounted
    BY DEF Inv
  <1>2. QED
    BY <1>1, Invariant, PTL

(* Retries and resends multiply, and no more than that.                    *)
THEOREM SendsBoundedAlways == Spec => []SendsBounded
  BY InvBound, Invariant, PTL

(* The result of a call can be relied upon.                                *)
THEOREM ResultTellsEffectAlways == Spec => []ResultTellsEffect
  <1>1. Inv => ResultTellsEffect
    BY DEF Inv
  <1>2. QED
    BY <1>1, Invariant, PTL

------------------------------------------------------------------------------
(* The refinement: applying a statement is an effect, reaching the first   *)
(* attempt a start, and everything else in between is invisible.           *)
LEMMA RefinesInit == Init => Promise!Init
  BY DEF Init, Promise!Init, Phase

LEMMA RefinesNext == Inv /\ Inv' /\ [Next]_vars => [Promise!Next]_Promise!vars
  <1> SUFFICES ASSUME Inv, Inv', [Next]_vars
               PROVE  [Promise!Next]_Promise!vars
    OBVIOUS
  <1> USE DEF Inv
  <1> DEFINE phase == [c \in Call |-> Phase(c)]
  <1>1. ASSUME phase' = phase, UNCHANGED <<rows, result>>
        PROVE  UNCHANGED Promise!vars
    BY <1>1 DEF Promise!vars
  <1>2. ASSUME NEW c \in Call, rows[c] + 1 <= total[c], pc[c] # "idle",
               result[c] # "unavailable", phase' = phase, result' = result,
               rows' = [rows EXCEPT ![c] = @ + 1]
        PROVE  Promise!Next
    <2>1. rows[c] < RetryLimit * MaxSend
      BY <1>2, InvBound, ExecAssumption, NextTurn DEF SendsBounded, TypeOK
    <2>2. Promise!Effect(c)
      BY <1>2, <2>1 DEF Promise!Effect, Phase, TypeOK, PlaceTells
    <2>3. QED
      BY <2>2 DEF Promise!Next
  <1>3. ASSUME NEW c \in Call, NEW from, NEW r \in Promise!Outcome,
               Return(c, from, r), from \in Location \ {"done"}, rows' = rows,
               from = "idle" <=> r = "unavailable", r = "ok" => rows[c] > 0
        PROVE  Promise!Next
    <2>1. Promise!Return(c, r)
      BY <1>3 DEF Promise!Return, Promise!Outcome, Return, Goto, Phase, TypeOK
    <2>2. QED
      BY <2>1 DEF Promise!Next
  <1>4. ASSUME NEW c \in Call, Begin(c)
        PROVE  Promise!Next
    <2>1. CASE disabled
      BY <1>3, <1>4, <2>1 DEF Begin, Return, Goto, Promise!Outcome, Location
    <2>2. CASE ~ disabled
      <3>1. Promise!Start(c)
        BY <1>4, <2>2 DEF Begin, Goto, Promise!Start, Phase, TypeOK
      <3>2. QED
        BY <3>1 DEF Promise!Next
    <2>3. QED
      BY <2>1, <2>2
  <1>5. ASSUME NEW c \in Call,
               Send(c) \/ Reject(c) \/ Resend(c) \/ FailAttempt(c)
        PROVE  UNCHANGED Promise!vars
    <2>1. phase' = phase
      BY <1>5 DEF Send, Reject, Resend, FailAttempt, Goto, Phase, TypeOK,
                  OnConnection
    <2>2. QED
      BY <1>1, <1>5, <2>1 DEF Send, Reject, Resend, FailAttempt
  <1>6. ASSUME NEW c \in Call, Apply(c)
        PROVE  Promise!Next
    <2>1. phase' = phase
      BY <1>6 DEF Apply, Goto, Phase, TypeOK
    <2>2. rows[c] + 1 <= total[c] /\ result[c] # "unavailable"
      BY <1>6 DEF Apply, Goto, TypeOK, EffectsAccounted, PlaceTells
    <2>3. QED
      BY <1>2, <1>6, <2>1, <2>2 DEF Apply, Goto
  <1>7. ASSUME NEW c \in Call, ApplyStray(c)
        PROVE  Promise!Next
    <2>1. phase' = phase
      BY <1>7 DEF ApplyStray, Phase
    <2>2. /\ rows[c] + 1 <= total[c] /\ pc[c] # "idle"
          /\ result[c] # "unavailable"
      BY <1>7 DEF ApplyStray, TypeOK, EffectsAccounted, PlaceTells,
                  ResultTellsEffect
    <2>3. QED
      BY <1>2, <1>7, <2>1, <2>2 DEF ApplyStray
  <1>8. ASSUME NEW c \in Call, Succeed(c) \/ FailSql(c)
        PROVE  Promise!Next
    BY <1>3, <1>8 DEF Succeed, FailSql, Return, Goto, Promise!Outcome, Location,
                      OnConnection, PlaceTells
  <1>9. ASSUME NEW c \in Call, Sleep(c)
        PROVE  [Promise!Next]_Promise!vars
    <2>1. CASE tries[c] + 1 < RetryLimit
      <3>1. phase' = phase
        BY <1>9, <2>1 DEF Sleep, Goto, Phase, TypeOK
      <3>2. QED
        BY <1>1, <1>9, <2>1, <3>1 DEF Sleep
    <2>2. CASE ~ (tries[c] + 1 < RetryLimit)
      BY <1>3, <1>9, <2>2 DEF Sleep, Return, Goto, Promise!Outcome, Location
    <2>3. QED
      BY <2>1, <2>2
  <1>10. CASE SetBreaker \/ UNCHANGED vars
    BY <1>1, <1>10 DEF SetBreaker, vars, Phase
  <1>11. QED
    BY <1>4, <1>5, <1>6, <1>7, <1>8, <1>9, <1>10 DEF Next, Attempt, Answer

(* Every call of exec behaves as AtLeastOnce allows, whatever the limits:  *)
(* at most RetryLimit * MaxSend effects, success only after one of them,   *)
(* and none at all when the breaker refused the call.                      *)
THEOREM ExecIsAtLeastOnce == Spec => Promise!Safety
  BY RefinesInit, RefinesNext, Invariant, PTL DEF Spec, Promise!Safety
------------------------------------------------------------------------------
(* Session.                                                                *)

(* What is known of the statements from which of them is next: those after *)
(* it have not begun, and those before it were acknowledged.               *)
InTurn ==
    /\ \A c \in Call : c > at => pc[c] = "idle"
    /\ \A c \in Call : c < at /\ c <= Len(script) /\ Execs(c) => result[c] = "ok"
    /\ status = "nil" => at = Len(script) + 1

(* A load that has failed has done so at a statement it executed.          *)
FailedAt == by = "load" /\ status = "err" /\ at > 0 =>
    at <= Len(script) /\ Execs(at) /\ result[at] # "ok"

SessionInv == Inv /\ SessionTypeOK /\ InTurn /\ FailedAt

LEMMA ScriptFits ==
    ASSUME by \in DOMAIN Scripts, script \in Scripts[by]
    PROVE  /\ Len(script) \in 0..MaxStatement
           /\ 1..Len(script) \subseteq Call
           /\ script \in Seq({"select", "pragma", "setting", "change",
                              "empty", "blank"})
  <1> USE SessionAssumption
  <1>1. CASE by = "adhoc"
    <2>1. PICK k \in {"select", "pragma", "setting", "change", "empty", "blank"} :
            script = <<k>>
      BY <1>1 DEF Scripts
    <2>2. Len(script) = 1 /\ 1 \in 0..MaxStatement /\ 1..1 \subseteq Call
      BY <2>1
    <2>3. script \in Seq({"select", "pragma", "setting", "change", "empty", "blank"})
      BY <2>1
    <2>4. QED
      BY <2>2, <2>3
  <1>2. CASE by = "query"
    <2>1. script = <<"select">>
      BY <1>2 DEF Scripts
    <2>2. Len(script) = 1 /\ 1 \in 0..MaxStatement /\ 1..1 \subseteq Call
      BY <2>1
    <2>3. script \in Seq({"select", "pragma", "setting", "change", "empty", "blank"})
      BY <2>1
    <2>4. QED
      BY <2>2, <2>3
  <1>3. CASE by = "load"
    <2>1. PICK n \in 0..MaxStatement :
            script \in [1..n -> {"select", "pragma", "change"}]
      BY <1>3 DEF Scripts
    <2>2. Len(script) = n
      BY <2>1
    <2>3. QED
      BY <2>1, <2>2
  <1>4. QED
    BY <1>1, <1>2, <1>3 DEF Scripts

(* In a load nothing is refused by Eval.                                   *)
LEMMA LoadKinds ==
    ASSUME by = "load", script \in Scripts[by], NEW c \in 1..Len(script)
    PROVE  Execs(c) <=> ~ Queries(c)
  <1>1. PICK n \in 0..MaxStatement :
          script \in [1..n -> {"select", "pragma", "change"}]
    BY DEF Scripts
  <1>2. Len(script) = n
    BY <1>1, SessionAssumption
  <1>3. script[c] \in {"select", "pragma", "change"}
    BY <1>1, <1>2
  <1>4. QED
    BY <1>3 DEF Execs, Queries

(* A command makes no step on the state of exec but those of exec.         *)
LEMMA StepOfExec == [SessionNext]_svars => [Next]_vars
  BY DEF SessionNext, Own, Outside, Open, Refuse, QuerySent, Finish, InExec,
         ExecReturns, QueryBegins, QueryReturns, svars, Next, Attempt

(* A call in progress is the only one to change, and its result comes last. *)
LEMMA OneCall ==
    ASSUME NEW c \in Call, TypeOK,
           Begin(c) \/ Answer(c) \/ Sleep(c) \/ Send(c) \/ Resend(c) \/ FailAttempt(c)
    PROVE  /\ pc[c] # "done"
           /\ \A d \in Call \ {c} : pc'[d] = pc[d] /\ result'[d] = result[d]
  BY DEF TypeOK, Begin, Answer, Apply, Reject, Succeed, FailSql, Sleep, Send,
         Resend, FailAttempt, Return, Goto, OnConnection

LEMMA SessionInitInv == SessionInit => SessionInv
  <1> SUFFICES ASSUME SessionInit PROVE SessionInv
    OBVIOUS
  <1>1. Inv
    BY InitInv DEF SessionInit
  <1>2. Len(script) \in Nat
    BY ScriptFits, SessionAssumption DEF SessionInit
  <1>3. SessionTypeOK
    BY <1>1, <1>2 DEF SessionInit, SessionTypeOK, Inv
  <1>4. InTurn /\ FailedAt
    BY SessionAssumption DEF SessionInit, Init, InTurn, FailedAt
  <1>5. QED
    BY <1>1, <1>3, <1>4 DEF SessionInv

LEMMA SessionNextInv == SessionInv /\ [SessionNext]_svars => SessionInv'
  <1> SUFFICES ASSUME SessionInv, [SessionNext]_svars PROVE SessionInv'
    OBVIOUS
  <1>1. Inv'
    BY StepOfExec, NextInv DEF SessionInv
  <1>2. TypeOK'
    BY <1>1 DEF Inv
  <1>3. /\ Len(script) \in Nat /\ 1..Len(script) \subseteq Call /\ Call \subseteq Nat
        /\ at \in 0..(Len(script) + 1)
    BY ScriptFits, SessionAssumption DEF SessionInv, SessionTypeOK
  <1>4. by' = by /\ script' = script
    BY DEF SessionNext, Own, Outside, Open, Refuse, QuerySent, Finish, InExec,
           ExecReturns, QueryBegins, QueryReturns, svars, session
  <1>5. \A c : Execs(c)' <=> Execs(c)
    BY <1>4 DEF Execs
  <1> USE DEF SessionInv, SessionTypeOK, InTurn, FailedAt
  <1>6. CASE Open
    BY <1>1, <1>2, <1>3, <1>4, <1>5, <1>6, SessionAssumption DEF Open, GoOn, Stop, vars
  <1>7. CASE Refuse
    BY <1>1, <1>2, <1>3, <1>4, <1>5, <1>6, <1>7
       DEF Refuse, Stop, vars, Turn, Scripts
  <1>8. CASE QuerySent
    BY <1>1, <1>2, <1>3, <1>4, <1>5, <1>8 DEF QuerySent, vars
  <1>9. CASE Finish
    BY <1>1, <1>2, <1>3, <1>4, <1>5, <1>9 DEF Finish, Stop, vars
  <1>10. ASSUME NEW c \in Call, InExec(c)
         PROVE  SessionInv'
    BY <1>1, <1>2, <1>3, <1>4, <1>5, <1>10, OneCall DEF InExec, session, Turn
  <1>11. ASSUME NEW c \in Call, ExecReturns(c)
         PROVE  SessionInv'
    BY <1>1, <1>2, <1>3, <1>4, <1>5, <1>11 DEF ExecReturns, GoOn, Stop, Turn, vars
  <1>12. ASSUME NEW c \in Call, QueryBegins(c)
         PROVE  SessionInv'
    BY <1>1, <1>2, <1>3, <1>4, <1>5, <1>12 DEF QueryBegins, vars
  <1>13. ASSUME NEW c \in Call, QueryReturns(c)
         PROVE  SessionInv'
    BY <1>1, <1>2, <1>3, <1>4, <1>5, <1>13
       DEF QueryReturns, GoOn, Stop, Turn, vars, Queries
  <1>14. CASE Outside
    BY <1>1, <1>2, <1>3, <1>4, <1>5, <1>14
       DEF Outside, SetBreaker, ApplyStray, session
  <1>15. CASE UNCHANGED svars
    BY <1>1, <1>2, <1>3, <1>4, <1>5, <1>15 DEF svars, session, vars
  <1>16. QED
    BY <1>6, <1>7, <1>8, <1>9, <1>10, <1>11, <1>12, <1>13, <1>14, <1>15
       DEF SessionNext, Own
LEMMA SessionInvariant == SessionSpec => []SessionInv
  BY SessionInitInv, SessionNextInv, PTL DEF SessionSpec

(* The state of a command is of the right type, that of its calls of exec  *)
(* included.                                                               *)
THEOREM SessionTypeCorrect == SessionSpec => []SessionTypeOK
  <1>1. SessionInv => SessionTypeOK
    BY DEF SessionInv
  <1>2. QED
    BY <1>1, SessionInvariant, PTL

(* What is true of the calls of exec in any order is true of those that a  *)
(* command makes.                                                          *)
THEOREM SessionKeepsExec ==
    SessionSpec => [](EffectsAccounted /\ SendsBounded /\ ResultTellsEffect)
  <1>1. SessionInv => EffectsAccounted /\ SendsBounded /\ ResultTellsEffect
    BY InvBound DEF SessionInv, Inv
  <1>2. QED
    BY <1>1, SessionInvariant, PTL

(* Among the statements of a command, however many and however often they  *)
(* are sent, each is first applied in its turn; what is applied out of     *)
(* turn repeats a statement that was applied, and sent more than once.     *)
THEOREM OnlyRepeatsComeLateAlways == SessionSpec => OnlyRepeatsComeLate
  <1> DEFINE InTurnOrRepeat ==
        \A c \in 1..Len(script) : Execs(c) /\ rows'[c] > rows[c] =>
            /\ \A d \in 1..(c - 1) : Execs(d) => rows[d] > 0
            /\ (\E d \in (c + 1)..Len(script) : rows[d] > 0)
                   => rows[c] > 0 /\ total[c] > 1
  <1>1. SessionInv /\ [SessionNext]_svars => [InTurnOrRepeat]_svars
    <2> SUFFICES ASSUME SessionInv, [SessionNext]_svars,
                        NEW c \in 1..Len(script), Execs(c), rows'[c] > rows[c]
                 PROVE  /\ \A d \in 1..(c - 1) : Execs(d) => rows[d] > 0
                        /\ (\E d \in (c + 1)..Len(script) : rows[d] > 0)
                               => rows[c] > 0 /\ total[c] > 1
      OBVIOUS
    <2>1. /\ Len(script) \in Nat /\ 1..Len(script) \subseteq Call
          /\ at \in Nat /\ c \in Call
      BY ScriptFits, SessionAssumption DEF SessionInv, SessionTypeOK
    <2> USE DEF SessionInv, Inv
    <2>2. ASSUME NEW d \in 1..Len(script), pc[d] # "idle"
          PROVE  \A e \in 1..(d - 1) : Execs(e) => rows[e] > 0 /\ result[e] = "ok"
      BY <2>1, <2>2 DEF InTurn, ResultTellsEffect
    <2>3. (Apply(c) /\ pc[c] = "sent") \/ (ApplyStray(c) /\ stray[c] > 0)
      <3>1. rows \in [Call -> Nat] /\ rows' # rows
        BY <2>1 DEF TypeOK
      <3>2. PICK d \in Call : Apply(d) \/ ApplyStray(d)
        BY <3>1, StepOfExec
           DEF Next, vars, SetBreaker, Begin, Attempt, Send, Answer, Reject,
               Succeed, FailSql, Resend, FailAttempt, Sleep
      <3>3. d = c
        BY <2>1, <3>1, <3>2 DEF Apply, ApplyStray
      <3>4. QED
        BY <3>2, <3>3 DEF Apply, ApplyStray, Goto
    <2>4. pc[c] # "idle"
      BY <2>1, <2>3 DEF PlaceTells
    <2>5. ASSUME NEW d \in (c + 1)..Len(script), rows[d] > 0
          PROVE  rows[c] > 0 /\ total[c] > 1
      <3>1. d \in 1..Len(script) /\ pc[d] # "idle"
        BY <2>1, <2>5 DEF PlaceTells
      <3>2. rows[c] > 0 /\ result[c] = "ok"
        BY <2>1, <2>2, <2>5, <3>1
      <3>3. pc[c] = "done" /\ stray[c] > 0
        BY <2>1, <2>3, <3>2 DEF PlaceTells
      <3>4. rows[c] + stray[c] <= total[c]
        <4>1. /\ rows[c] \in Nat /\ stray[c] \in Nat /\ total[c] \in Nat
              /\ rows[c] + stray[c] + 0 <= total[c]
          BY <2>1, <3>2, <3>3 DEF EffectsAccounted, TypeOK
        <4>2. QED
          BY <4>1
      <3>5. QED
        BY <2>1, <3>2, <3>3, <3>4 DEF TypeOK
    <2>6. QED
      BY <2>1, <2>2, <2>4, <2>5
  <1>2. QED
    BY <1>1, SessionInvariant, PTL DEF SessionSpec, OnlyRepeatsComeLate

------------------------------------------------------------------------------
(* The refinement of Batch: opening the database, what exec does, and what *)
(* a query does before it returns are invisible.                           *)
LEMMA BatchInit == SessionInit => AsBatch!Init
  <1> SUFFICES ASSUME SessionInit PROVE AsBatch!Init
    OBVIOUS
  <1>1. LinesRead = 0 /\ ~ Loading /\ ~ Failed /\ Acknowledged = {}
    BY DEF SessionInit, Loading, LinesRead, Failed, Acknowledged
  <1>2. Len(script) \in 0..MaxStatement
    BY ScriptFits DEF SessionInit
  <1> DEFINE text == IF by # "load" THEN <<>>
                     ELSE [c \in 1..Len(script) |-> IF Execs(c) THEN "change" ELSE "query"]
  <1>3. text \in UNION {[1..n -> AsBatch!Line] : n \in 0..MaxStatement}
    <2>1. CASE by = "load"
      <3>1. text \in [1..Len(script) -> AsBatch!Line]
        BY <2>1 DEF AsBatch!Line, AsBatch!Statement
      <3>2. QED
        BY <1>2, <3>1
    <2>2. CASE by # "load"
      <3>1. text \in [1..0 -> AsBatch!Line] /\ 0 \in 0..MaxStatement
        BY <2>2, SessionAssumption
      <3>2. QED
        BY <3>1
    <2>3. QED
      BY <2>1, <2>2
  <1>4. QED
    BY <1>1, <1>3 DEF AsBatch!Init, AsBatch!Fresh, AsBatch!Conn

LEMMA ScriptStays ==
    [SessionNext]_svars => /\ by' = by /\ script' = script
                           /\ \A c : Execs(c)' <=> Execs(c)
  BY DEF SessionNext, Own, Outside, Open, Refuse, QuerySent, Finish, InExec,
         ExecReturns, QueryBegins, QueryReturns, svars, session, Execs

(* The text Batch reads.                                                   *)
Text == IF by # "load" THEN <<>>
        ELSE [c \in 1..Len(script) |-> IF Execs(c) THEN "change" ELSE "query"]

LEMMA TextStays == [SessionNext]_svars => Text' = Text
  BY ScriptStays DEF Text

(* At statement c, c - 1 lines have been read; after it c have.            *)
LEMMA ReadBefore ==
    ASSUME SessionInv, by = "load", NEW c \in Call, Turn(c)
    PROVE  /\ LinesRead = c - 1 /\ ~ Failed
           /\ c \in 1..Len(Text) /\ Len(Text) = Len(script)
           /\ Text[c] = IF Execs(c) THEN "change" ELSE "query"
           /\ Loading /\ status = "running"
  BY ScriptFits, SessionAssumption
     DEF SessionInv, SessionTypeOK, Turn, LinesRead, Failed, Loading, Text

LEMMA ReadAfter ==
    ASSUME SessionInv, by = "load", NEW c \in Call, Turn(c), [SessionNext]_svars,
           GoOn \/ Stop("err")
    PROVE  /\ LinesRead' = c
           /\ Loading'
           /\ GoOn => ~ Failed' /\ status' = "running"
           /\ Stop("err") => Failed' /\ status' = "err"
  BY ScriptStays, SessionAssumption
     DEF Turn, LinesRead, Failed, Loading, GoOn, Stop

(* Of the lines before c all statements that dx.exec got are acknowledged. *)
LEMMA AcknowledgedAfter ==
    ASSUME SessionInv, by = "load", NEW c \in Call, Turn(c), [SessionNext]_svars,
           GoOn \/ Stop("err"), result' = result
    PROVE  Acknowledged' = IF Execs(c) /\ result[c] = "ok"
                           THEN Acknowledged \cup {c} ELSE Acknowledged
  <1>1. LinesRead = c - 1 /\ LinesRead' = c /\ c \in Nat \ {0}
    BY ReadBefore, ReadAfter, SessionAssumption
  <1>2. 1..c = (1..(c - 1)) \cup {c}
    BY <1>1
  <1>3. QED
    BY <1>1, <1>2, ScriptStays DEF Acknowledged

LEMMA BatchNext == SessionInv /\ [SessionNext]_svars => [AsBatch!Next]_AsBatch!vars
  <1> SUFFICES ASSUME SessionInv, [SessionNext]_svars
               PROVE  [AsBatch!Next]_AsBatch!vars
    OBVIOUS
  <1>1. /\ by' = by /\ script' = script /\ Text' = Text
        /\ \A c : Execs(c)' <=> Execs(c)
    BY ScriptStays, TextStays
  <1>2. ASSUME LinesRead' = LinesRead, Failed' <=> Failed, Loading' <=> Loading,
               Acknowledged' = Acknowledged, Loading => status' = status
        PROVE  UNCHANGED AsBatch!vars
    BY <1>1, <1>2 DEF AsBatch!vars, Text
  <1>3. CASE by # "load"
    BY <1>1, <1>2, <1>3 DEF LinesRead, Failed, Loading, Acknowledged
  <1>4. ASSUME at' = at, status' = status, result' = result
        PROVE  UNCHANGED AsBatch!vars
    BY <1>1, <1>2, <1>4 DEF LinesRead, Failed, Loading, Acknowledged
  <1>5. CASE Open /\ by = "load"
    <2>1. LinesRead = 0 /\ LinesRead' = 0 /\ ~ Failed /\ ~ Failed'
          /\ Acknowledged = {} /\ Acknowledged' = {}
      BY <1>1, <1>5 DEF Open, GoOn, Stop, LinesRead, Failed, Loading, Acknowledged
    <2>2. QED
      BY <1>1, <1>5, <2>1 DEF Open, GoOn, Stop, Loading, AsBatch!vars, Text
  <1>6. ~ (Refuse /\ by = "load")
    <2> SUFFICES ASSUME Refuse, by = "load" PROVE FALSE
      OBVIOUS
    <2>1. 1 \in 1..Len(script)
      BY ScriptFits, SessionAssumption
         DEF Refuse, Turn, SessionInv, SessionTypeOK
    <2>2. Execs(1) <=> ~ Queries(1)
      BY <2>1, LoadKinds DEF SessionInv, SessionTypeOK
    <2>3. QED
      BY <2>2 DEF Refuse, Execs, Queries
  <1>7. CASE QuerySent
    BY <1>4, <1>7 DEF QuerySent, vars
  <1>8. ASSUME NEW c \in Call, QueryBegins(c)
        PROVE  UNCHANGED AsBatch!vars
    BY <1>4, <1>8 DEF QueryBegins, vars
  <1>9. CASE Outside \/ UNCHANGED svars
    BY <1>4, <1>9 DEF Outside, SetBreaker, ApplyStray, svars, session, vars
  <1>10. ASSUME NEW c \in Call, InExec(c), by = "load"
         PROVE  UNCHANGED AsBatch!vars
    <2>1. at' = at /\ status' = status /\ LinesRead = c - 1 /\ c \in Nat
      BY <1>10, ReadBefore, SessionAssumption DEF InExec, session
    <2>2. LinesRead' = LinesRead /\ (Failed' <=> Failed) /\ (Loading' <=> Loading)
      BY <1>1, <2>1 DEF LinesRead, Failed, Loading
    <2>3. \A d \in 1..(c - 1) : result'[d] = result[d]
      <3>1. \A d \in 1..(c - 1) : d \in Call \ {c}
        BY <1>10, SessionAssumption
      <3>2. QED
        BY <1>10, <3>1, OneCall DEF InExec, SessionInv, Inv
    <2>4. Acknowledged' = Acknowledged
      BY <1>1, <2>1, <2>2, <2>3 DEF Acknowledged
    <2>5. QED
      BY <1>2, <2>1, <2>2, <2>4
  <1>11. ASSUME NEW c \in Call, ExecReturns(c), by = "load"
         PROVE  AsBatch!Next
    <2>1. Turn(c) /\ Execs(c) /\ result' = result
      BY <1>11 DEF ExecReturns, vars
    <2>2. c \in Nat \ {0}
      BY SessionAssumption
    <2>3. CASE result[c] = "ok"
      <3>1. GoOn
        BY <1>11, <2>3 DEF ExecReturns
      <3>2. /\ LinesRead = c - 1 /\ LinesRead' = c /\ ~ Failed /\ ~ Failed'
            /\ status = "running" /\ status' = "running"
            /\ Acknowledged' = Acknowledged \cup {c}
            /\ Text[c] = "change" /\ c <= Len(Text)
        BY <1>11, <2>1, <2>3, <3>1, ReadBefore, ReadAfter, AcknowledgedAfter
      <3>3. AsBatch!Complete
        BY <1>1, <2>2, <3>2
           DEF AsBatch!Complete, AsBatch!Read, AsBatch!Ending, AsBatch!Statement, Text
      <3>4. ~ AsBatch!Selects
        BY <2>2, <3>2 DEF AsBatch!Selects, Text
      <3>5. AsBatch!Does(c, c) = "plain"
        BY <3>2 DEF AsBatch!Does, Text
      <3>6. AsBatch!Executed
        <4> DEFINE conn == [open |-> FALSE, pending |-> {}, durable |-> Acknowledged]
        <4>1. (IF Failed THEN LinesRead ELSE LinesRead + 1) = c /\ LinesRead + 1 = c
          BY <2>2, <3>2
        <4>2. AsBatch!Accepts(conn, "plain")
          BY DEF AsBatch!Accepts
        <4>3. conn' = AsBatch!After(conn, "plain", c)
          BY <3>2 DEF AsBatch!After, AsBatch!Conn
        <4> HIDE DEF conn
        <4>4. \E d \in {conn, AsBatch!Abort(conn)} :
                /\ AsBatch!Accepts(d, AsBatch!Does(c, c))
                /\ conn' = AsBatch!After(d, AsBatch!Does(c, c), c)
          BY <3>5, <4>2, <4>3
        <4>5. ~ AsBatch!CutOff
          BY <2>2, <3>2 DEF AsBatch!CutOff, Text
        <4>6. QED
          BY <4>1, <4>4, <4>5 DEF AsBatch!Executed, conn
      <3>7. {<<d, d>> : d \in Acknowledged'}
              = {<<d, d>> : d \in Acknowledged} \cup {<<c, c>>}
        BY <3>2
      <3>8. AsBatch!Exec
        BY <2>2, <3>2, <3>3, <3>4, <3>6, <3>7
           DEF AsBatch!Exec, AsBatch!Reset, AsBatch!CutOff, Text
      <3>9. QED
        BY <3>8 DEF AsBatch!Next
    <2>4. CASE result[c] # "ok"
      <3>1. Stop("err")
        BY <1>11, <2>4 DEF ExecReturns
      <3>2. /\ LinesRead = c - 1 /\ LinesRead' = c /\ ~ Failed /\ Failed'
            /\ status = "running" /\ status' = "err" /\ Loading'
            /\ Acknowledged' = Acknowledged
            /\ Text[c] = "change" /\ c <= Len(Text)
        BY <1>11, <2>1, <2>4, <3>1, ReadBefore, ReadAfter, AcknowledgedAfter
      <3>3. AsBatch!ExecFails
        BY <1>1, <2>2, <3>2
           DEF AsBatch!ExecFails, AsBatch!Complete, AsBatch!Read, AsBatch!Selects,
               AsBatch!Ending, AsBatch!Statement, Text
      <3>4. QED
        BY <3>3 DEF AsBatch!Next
    <2>5. QED
      BY <2>3, <2>4
  <1>12. ASSUME NEW c \in Call, QueryReturns(c), by = "load"
         PROVE  AsBatch!Next
    <2>1. Turn(c) /\ ~ Execs(c) /\ result' = result /\ GoOn
      BY <1>12 DEF QueryReturns, Queries, vars
    <2>2. c \in Nat \ {0}
      BY SessionAssumption
    <2>3. /\ LinesRead = c - 1 /\ LinesRead' = c /\ ~ Failed /\ ~ Failed'
          /\ status = "running" /\ status' = "running"
          /\ Acknowledged' = Acknowledged
          /\ Text[c] = "query" /\ c <= Len(Text)
      BY <1>12, <2>1, ReadBefore, ReadAfter, AcknowledgedAfter
    <2>4. AsBatch!Select
      BY <1>1, <2>2, <2>3
         DEF AsBatch!Select, AsBatch!Complete, AsBatch!Read, AsBatch!Selects,
             AsBatch!Reset, AsBatch!Ending, AsBatch!Statement, Text
    <2>5. QED
      BY <2>4 DEF AsBatch!Next
  <1>13. CASE Finish /\ by = "load"
    <2>1. /\ LinesRead = Len(script) /\ LinesRead' = LinesRead
          /\ ~ Failed /\ ~ Failed' /\ Loading /\ Loading'
          /\ status = "running" /\ status' = "nil" /\ Acknowledged' = Acknowledged
          /\ Len(Text) = Len(script)
      BY <1>1, <1>13, ScriptFits, SessionAssumption
         DEF Finish, Stop, LinesRead, Failed, Loading, Acknowledged, Text, vars,
             SessionInv, SessionTypeOK
    <2>2. AsBatch!EndOfText
      BY <1>1, <1>13, <2>1 DEF AsBatch!EndOfText, Text
    <2>3. QED
      BY <2>2 DEF AsBatch!Next
  <1>14. QED
    BY <1>3, <1>5, <1>6, <1>7, <1>8, <1>9, <1>10, <1>11, <1>12, <1>13
       DEF SessionNext, Own

(* A load of any length implements Batch: the retries of exec are hidden   *)
(* behind one step of Batch for each statement.                            *)
THEOREM LoadIsBatch == SessionSpec => ImplementsBatch
  BY BatchInit, BatchNext, SessionInvariant, PTL
     DEF SessionSpec, ImplementsBatch, AsBatch!Spec

------------------------------------------------------------------------------
(* How many steps a call, and then a command, has left: what the liveness  *)
(* properties rest on besides fairness.                                    *)

(* The steps of one attempt, in which every send takes three: sending,     *)
(* deciding and sending again.                                             *)
AttemptSteps == 3 * MaxSend + 2

StepsInAttempt(c) ==
    CASE pc[c] = "waiting"                -> 3 * (MaxSend - sends[c]) + 2
      [] pc[c] \in {"applied", "rejected"} -> 3 * (MaxSend - sends[c]) + 3
      [] pc[c] = "sent"                   -> 3 * (MaxSend - sends[c]) + 4
      [] OTHER                            -> 1

CallSteps(c) ==
    CASE pc[c] = "idle" -> RetryLimit * AttemptSteps + 1
      [] pc[c] = "done" -> 0
      [] OTHER -> (RetryLimit - tries[c] - 1) * AttemptSteps + StepsInAttempt(c)

CallStepsFall == \A c \in Call :
    (CallSteps(c))' < CallSteps(c) \/ UNCHANGED <<pc[c], tries[c], sends[c]>>

(* The steps of a command at its present statement, ExecReturns included.  *)
StatementSteps ==
    IF at \notin 1..Len(script) THEN 1
    ELSE IF Execs(at) THEN CallSteps(at) + 1
    ELSE CASE query = "none" -> 3 [] query = "waiting" -> 2 [] OTHER -> 1

MostSteps == RetryLimit * AttemptSteps + 3

SessionSteps ==
    IF status = "running"
    THEN (Len(script) + 1 - at) * MostSteps + StatementSteps
    ELSE 0

(* A query is in progress only where the script has one, and the calls of  *)
(* exec are then before or after it: neither waits for a connection that   *)
(* the command itself keeps.                                               *)
QueryInTurn ==
    /\ query # "none" => status = "running" /\ at \in 1..Len(script) /\ Queries(at)
    /\ \A c \in Call : pc[c] \notin {"idle", "done"} =>
         status = "running" /\ at = c /\ c <= Len(script) /\ Execs(c)
    /\ query = "waiting" => \A c \in Call : pc[c] \notin OnConnection
    /\ \A c \in Call : pc[c] = "waiting" =>
         query # "open" /\ \A d \in Call : pc[d] \notin OnConnection

LEMMA CallStepsType ==
    ASSUME Inv, NEW c \in Call
    PROVE  /\ CallSteps(c) \in Nat
           /\ pc[c] = "idle" => CallSteps(c) = RetryLimit * AttemptSteps + 1
  <1>1. /\ RetryLimit \in Nat /\ MaxSend \in Nat /\ pc[c] \in Location
        /\ tries[c] \in Nat /\ sends[c] \in Nat /\ sends[c] <= MaxSend
    BY ExecAssumption DEF Inv, TypeOK
  <1>2. AttemptSteps \in Nat /\ RetryLimit * AttemptSteps \in Nat
    BY <1>1, NextTurn DEF AttemptSteps
  <1>3. CASE pc[c] \in {"idle", "done"}
    BY <1>2, <1>3 DEF CallSteps
  <1>4. CASE pc[c] \notin {"idle", "done"}
    <2>1. RetryLimit - tries[c] - 1 \in Nat
      BY <1>1, <1>4 DEF Inv, AttemptLeft, Location
    <2>2. (RetryLimit - tries[c] - 1) * AttemptSteps \in Nat
      BY <1>2, <2>1, NextTurn
    <2>3. StepsInAttempt(c) \in Nat
      BY <1>1, <1>4 DEF StepsInAttempt
    <2>4. QED
      BY <1>4, <2>2, <2>3 DEF CallSteps
  <1>5. QED
    BY <1>3, <1>4

(* Within an attempt the steps left of it decrease.                        *)
LEMMA AttemptFalls ==
    ASSUME Inv, NEW c \in Call, Attempt(c)
    PROVE  (CallSteps(c))' < CallSteps(c)
  <1> DEFINE rest == (RetryLimit - tries[c] - 1) * AttemptSteps
  <1>1. /\ RetryLimit \in Nat /\ MaxSend \in Nat /\ pc \in [Call -> Location]
        /\ tries[c] \in Nat /\ sends \in [Call -> 0..MaxSend]
        /\ sends[c] \in Nat /\ sends[c] <= MaxSend
    BY ExecAssumption DEF Inv, TypeOK
  <1>2. pc[c] \in OnConnection \cup {"waiting"} /\ tries' = tries
    BY DEF Attempt, Answer, Send, Apply, Reject, Succeed, FailSql, Resend,
           FailAttempt, Return, Goto, OnConnection
  <1>3. rest \in Nat
    <2>1. RetryLimit - tries[c] - 1 \in Nat
      BY <1>1, <1>2 DEF Inv, AttemptLeft
    <2>2. AttemptSteps \in Nat
      BY <1>1 DEF AttemptSteps
    <2>3. QED
      BY <2>1, <2>2, NextTurn
  <1>4. CallSteps(c) = rest + StepsInAttempt(c)
    BY <1>2 DEF CallSteps, OnConnection
  <1>5. StepsInAttempt(c) \in Nat \ {0}
    BY <1>1, <1>2 DEF StepsInAttempt, OnConnection
  <1>6. CASE pc'[c] = "done"
    <2>1. (CallSteps(c))' = 0
      BY <1>6 DEF CallSteps
    <2>2. QED
      BY <1>3, <1>4, <1>5, <2>1
  <1>7. CASE pc'[c] # "done"
    <2>1. pc'[c] \in OnConnection \cup {"waiting", "sleeping"}
      BY <1>1, <1>7 DEF Attempt, Answer, Send, Apply, Reject, Succeed, FailSql,
                   Resend, FailAttempt, Return, Goto, OnConnection
    <2>2. (CallSteps(c))' = rest + (StepsInAttempt(c))'
      BY <1>2, <2>1 DEF CallSteps, OnConnection, AttemptSteps
    <2>3. (StepsInAttempt(c))' \in Nat /\ (StepsInAttempt(c))' < StepsInAttempt(c)
      <3>1. CASE Send(c)
        <4>1. pc[c] = "waiting" /\ pc'[c] = "sent" /\ sends'[c] = sends[c] + 1
          BY <1>1, <3>1 DEF Send, Goto
        <4>2. sends[c] < MaxSend
          BY <4>1 DEF Inv, AttemptLeft
        <4>3. QED
          BY <1>1, <4>1, <4>2 DEF StepsInAttempt
      <3>2. CASE Answer(c)
        <4>1. pc[c] = "sent" /\ pc'[c] \in {"applied", "rejected"} /\ sends' = sends
          BY <1>1, <1>7, <3>2 DEF Answer, Apply, Reject, Succeed, FailSql, Return, Goto
        <4>2. QED
          BY <1>1, <4>1 DEF StepsInAttempt
      <3>3. CASE Resend(c)
        <4>1. pc[c] \in OnConnection /\ pc'[c] = "waiting" /\ sends' = sends
          BY <1>1, <3>3 DEF Resend, Goto
        <4>2. QED
          BY <1>1, <4>1 DEF StepsInAttempt, OnConnection
      <3>4. CASE FailAttempt(c)
        <4>1. pc'[c] = "sleeping" /\ sends' = sends
          BY <1>1, <3>4 DEF FailAttempt, Goto
        <4>2. QED
          BY <1>1, <1>2, <4>1 DEF StepsInAttempt, OnConnection
      <3>5. QED
        BY <3>1, <3>2, <3>3, <3>4 DEF Attempt
    <2>4. QED
      BY <1>3, <1>4, <1>5, <2>2, <2>3
  <1>8. QED
    BY <1>6, <1>7

(* Between attempts one of those left is used up.                          *)
LEMMA TurnFalls ==
    ASSUME Inv, NEW c \in Call, Begin(c) \/ Sleep(c)
    PROVE  (CallSteps(c))' < CallSteps(c)
  <1>1. /\ RetryLimit \in Nat \ {0} /\ MaxSend \in Nat /\ pc \in [Call -> Location]
        /\ tries \in [Call -> 0..RetryLimit] /\ tries[c] \in Nat
        /\ sends \in [Call -> 0..MaxSend]
    BY ExecAssumption DEF Inv, TypeOK
  <1>2. AttemptSteps \in Nat /\ AttemptSteps = 3 * (MaxSend - 0) + 2
        /\ RetryLimit * AttemptSteps \in Nat
    BY <1>1, NextTurn DEF AttemptSteps
  <1>3. CASE pc'[c] = "done"
    <2>1. (CallSteps(c))' = 0
      BY <1>3 DEF CallSteps
    <2>2. CallSteps(c) \in Nat \ {0}
      <3>1. CASE pc[c] = "idle"
        BY <1>2, <3>1 DEF CallSteps
      <3>2. CASE pc[c] = "sleeping"
        <4>1. RetryLimit - tries[c] - 1 \in Nat
          BY <1>1, <3>2 DEF Inv, AttemptLeft
        <4>2. (RetryLimit - tries[c] - 1) * AttemptSteps \in Nat
          BY <1>2, <4>1, NextTurn
        <4>3. CallSteps(c) = (RetryLimit - tries[c] - 1) * AttemptSteps + 1
          BY <3>2 DEF CallSteps, StepsInAttempt
        <4>4. QED
          BY <4>2, <4>3
      <3>3. QED
        BY <3>1, <3>2 DEF Begin, Sleep, Return, Goto
    <2>3. QED
      BY <2>1, <2>2
  <1>4. CASE Begin(c) /\ pc'[c] # "done"
    <2>1. pc[c] = "idle" /\ pc'[c] = "waiting" /\ tries'[c] = 0 /\ sends'[c] = 0
      BY <1>1, <1>4 DEF Begin, Return, Goto, Inv, PlaceTells
    <2>2. CallSteps(c) = RetryLimit * AttemptSteps + 1
      BY <2>1 DEF CallSteps
    <2>3. (CallSteps(c))' = (RetryLimit - 0 - 1) * AttemptSteps + AttemptSteps
      BY <1>2, <2>1 DEF CallSteps, StepsInAttempt, AttemptSteps
    <2>4. RetryLimit - 0 - 1 \in Nat /\ RetryLimit - 0 - 1 + 1 = RetryLimit
      BY <1>1
    <2>5. (RetryLimit - 0 - 1) * AttemptSteps + AttemptSteps = RetryLimit * AttemptSteps
      BY <1>2, <2>4, NextTurn
    <2>6. QED
      BY <1>2, <2>2, <2>3, <2>5
  <1>5. CASE Sleep(c) /\ pc'[c] # "done"
    <2>1. /\ pc[c] = "sleeping" /\ pc'[c] = "waiting" /\ tries[c] + 1 < RetryLimit
          /\ tries'[c] = tries[c] + 1 /\ sends'[c] = 0
      BY <1>1, <1>5 DEF Sleep, Return, Goto
    <2>2. CallSteps(c) = (RetryLimit - tries[c] - 1) * AttemptSteps + 1
      BY <2>1 DEF CallSteps, StepsInAttempt
    <2>3. (CallSteps(c))' = (RetryLimit - (tries[c] + 1) - 1) * AttemptSteps + AttemptSteps
      BY <1>2, <2>1 DEF CallSteps, StepsInAttempt, AttemptSteps
    <2>4. /\ RetryLimit - (tries[c] + 1) - 1 \in Nat
          /\ RetryLimit - (tries[c] + 1) - 1 + 1 = RetryLimit - tries[c] - 1
          /\ RetryLimit - tries[c] - 1 \in Nat
      BY <1>1, <2>1
    <2>5. (RetryLimit - (tries[c] + 1) - 1) * AttemptSteps + AttemptSteps
            = (RetryLimit - tries[c] - 1) * AttemptSteps
      BY <1>2, <2>4, NextTurn
    <2>6. (RetryLimit - tries[c] - 1) * AttemptSteps \in Nat
      BY <1>2, <2>4, NextTurn
    <2>7. QED
      BY <2>2, <2>3, <2>5, <2>6
  <1>6. QED
    BY <1>3, <1>4, <1>5

(* Every step of a call of exec brings it nearer to its end, also when     *)
(* answers are lost and sent again: a call makes at most as many steps as  *)
(* RetryLimit and MaxSend allow.  This is what CallsReturn owes to the     *)
(* retry loop of db.go; that a step is always taken is its fairness.       *)
THEOREM CallStepsRunOut ==
    Spec => /\ [](\A c \in Call : CallSteps(c) \in Nat)
            /\ [][CallStepsFall]_vars
  <1>1. Inv => \A c \in Call : CallSteps(c) \in Nat
    BY CallStepsType
  <1>2. Inv /\ [Next]_vars => [CallStepsFall]_vars
    <2> SUFFICES ASSUME Inv, Next, NEW c \in Call
                 PROVE  \/ (CallSteps(c))' < CallSteps(c)
                        \/ UNCHANGED <<pc[c], tries[c], sends[c]>>
      BY DEF CallStepsFall
    <2>1. ASSUME NEW d \in Call, d # c, Begin(d) \/ Attempt(d) \/ Sleep(d)
          PROVE  UNCHANGED <<pc[c], tries[c], sends[c]>>
      BY <2>1 DEF Inv, TypeOK, Begin, Attempt, Answer, Send, Apply, Reject,
                  Succeed, FailSql, Resend, FailAttempt, Sleep, Return, Goto
    <2>2. CASE SetBreaker \/ \E d \in Call : ApplyStray(d)
      BY <2>2 DEF SetBreaker, ApplyStray
    <2>3. QED
      BY <2>1, <2>2, AttemptFalls, TurnFalls DEF Next
  <1>3. QED
    BY <1>1, <1>2, Invariant, PTL DEF Spec

(* A query and a call of exec never wait for each other.                   *)
QueryInv == SessionInv /\ QueryInTurn

LEMMA QueryInit == SessionInit => QueryInv
  BY SessionInitInv DEF SessionInit, Init, QueryInv, QueryInTurn

LEMMA QueryNext == QueryInv /\ [SessionNext]_svars => QueryInv'
  <1> SUFFICES ASSUME QueryInv, [SessionNext]_svars PROVE QueryInTurn'
    BY SessionNextInv DEF QueryInv
  <1>1. /\ Len(script) \in Nat /\ 1..Len(script) \subseteq Call /\ Call \subseteq Nat
        /\ at \in 0..(Len(script) + 1) /\ pc \in [Call -> Location]
    BY ScriptFits, SessionAssumption
       DEF QueryInv, SessionInv, SessionTypeOK, TypeOK
  <1>2. by' = by /\ script' = script
    BY DEF SessionNext, Own, Outside, Open, Refuse, QuerySent, Finish, InExec,
           ExecReturns, QueryBegins, QueryReturns, svars, session
  <1>3. \A c : (Execs(c)' <=> Execs(c)) /\ (Queries(c)' <=> Queries(c))
    BY <1>2 DEF Execs, Queries
  <1>4. \A c : Execs(c) => ~ Queries(c)
    BY DEF Queries
  <1> USE DEF QueryInv, QueryInTurn
  <1>5. CASE Open \/ Finish
    <2>1. query = "none" /\ \A c \in Call : pc[c] \in {"idle", "done"}
      BY <1>1, <1>5 DEF Open, Finish
    <2>2. query' = query /\ pc' = pc
      BY <1>5 DEF Open, Finish, vars
    <2>3. QED
      BY <2>1, <2>2 DEF OnConnection
  <1>6. CASE Refuse
    <2>1. query = "none" /\ \A c \in Call : pc[c] \in {"idle", "done"}
      BY <1>1, <1>6 DEF Refuse, Turn, Queries, Execs
    <2>2. query' = query /\ pc' = pc
      BY <1>6 DEF Refuse, vars
    <2>3. QED
      BY <2>1, <2>2 DEF OnConnection
  <1>7. CASE QuerySent
    <2>1. query = "waiting" /\ pc' = pc /\ status' = status /\ at' = at
      BY <1>7 DEF QuerySent, vars
    <2>2. \A c \in Call : pc[c] \in {"idle", "done"}
      BY <1>4, <2>1
    <2>3. QED
      BY <1>2, <1>3, <1>7, <2>1, <2>2 DEF QuerySent, OnConnection
  <1>8. ASSUME NEW c \in Call, InExec(c)
        PROVE  QueryInTurn'
    <2>1. /\ status = "running" /\ at = c /\ c <= Len(script) /\ Execs(c)
          /\ UNCHANGED <<by, script, at, status, query>>
      BY <1>8 DEF InExec, Turn, session
    <2>2. query = "none"
      BY <1>4, <2>1
    <2>3. \A d \in Call \ {c} : pc[d] \in {"idle", "done"} /\ pc'[d] = pc[d]
      <3>1. \A d \in Call \ {c} : pc'[d] = pc[d]
        BY <1>8, OneCall DEF InExec, SessionInv, Inv
      <3>2. QED
        BY <2>1, <3>1
    <2>4. pc'[c] = "waiting" => \A d \in Call : pc'[d] \notin OnConnection
      BY <2>3 DEF OnConnection
    <2>5. QED
      BY <1>3, <2>1, <2>2, <2>3, <2>4 DEF OnConnection
  <1>9. ASSUME NEW c \in Call, ExecReturns(c)
        PROVE  QueryInTurn'
    <2>1. Turn(c) /\ Execs(c) /\ pc[c] = "done" /\ query' = query /\ pc' = pc
      BY <1>9 DEF ExecReturns, vars
    <2>2. query = "none" /\ \A d \in Call : pc[d] \in {"idle", "done"}
      BY <1>4, <2>1 DEF Turn
    <2>3. QED
      BY <2>1, <2>2 DEF OnConnection
  <1>10. ASSUME NEW c \in Call, QueryBegins(c) \/ QueryReturns(c)
         PROVE  QueryInTurn'
    <2>1. Turn(c) /\ Queries(c) /\ pc' = pc
      BY <1>10 DEF QueryBegins, QueryReturns, vars
    <2>2. \A d \in Call : pc[d] \in {"idle", "done"}
      BY <1>4, <2>1 DEF Turn
    <2>3. \/ query' = "none"
          \/ query' \in {"failed", "waiting"} /\ UNCHANGED <<at, status>>
      BY <1>10 DEF QueryBegins, QueryReturns
    <2>4. c \in 1..Len(script)
      BY <1>1, <2>1, SessionAssumption DEF Turn
    <2>5. QED
      BY <1>2, <1>3, <2>1, <2>2, <2>3, <2>4 DEF OnConnection, Turn
  <1>11. CASE Outside
    BY <1>2, <1>3, <1>11 DEF Outside, SetBreaker, ApplyStray, session
  <1>12. CASE UNCHANGED svars
    BY <1>2, <1>3, <1>12 DEF svars, session, vars
  <1>13. QED
    BY <1>5, <1>6, <1>7, <1>8, <1>9, <1>10, <1>11, <1>12 DEF SessionNext, Own

LEMMA QueryInvariant == SessionSpec => []QueryInv
  BY QueryInit, QueryNext, PTL DEF SessionSpec

(* The steps of the statements still to come and of the present one.       *)
LEMMA SessionStepsType ==
    ASSUME SessionInv
    PROVE  /\ MostSteps \in Nat /\ StatementSteps \in Nat \ {0}
           /\ Len(script) \in Nat /\ Len(script) + 1 - at \in Nat
           /\ at \in 1..Len(script) => at \in Call
           /\ SessionSteps \in Nat
  <1>1. /\ Len(script) \in Nat /\ 1..Len(script) \subseteq Call
        /\ at \in 0..(Len(script) + 1)
    BY ScriptFits, SessionAssumption DEF SessionInv, SessionTypeOK
  <1>2. AttemptSteps \in Nat /\ RetryLimit \in Nat
    BY ExecAssumption DEF AttemptSteps
  <1>3. MostSteps \in Nat
    BY <1>2, NextTurn DEF MostSteps
  <1>4. StatementSteps \in Nat \ {0}
    <2>1. at \in 1..Len(script) => CallSteps(at) \in Nat
      BY <1>1, CallStepsType DEF SessionInv
    <2>2. QED
      BY <2>1 DEF StatementSteps
  <1>5. Len(script) + 1 - at \in Nat
    BY <1>1
  <1>6. (Len(script) + 1 - at) * MostSteps \in Nat
    BY <1>3, <1>5, NextTurn
  <1>7. QED
    BY <1>1, <1>3, <1>4, <1>5, <1>6 DEF SessionSteps

(* A command that ends, or goes on to the next statement, has fewer steps  *)
(* left than before.                                                       *)
LEMMA StatementEnds ==
    ASSUME QueryInv, QueryInv', status = "running", script' = script, by' = by,
           \/ status' # "running"
           \/ GoOn /\ at <= Len(script) /\ query' = "none" /\ pc' = pc
    PROVE  SessionSteps' < SessionSteps
  <1>1. /\ MostSteps \in Nat /\ StatementSteps \in Nat \ {0}
        /\ Len(script) + 1 - at \in Nat /\ Len(script) \in Nat
    BY SessionStepsType DEF QueryInv
  <1>2. (Len(script) + 1 - at) * MostSteps \in Nat
    BY <1>1, NextTurn
  <1>3. SessionSteps = (Len(script) + 1 - at) * MostSteps + StatementSteps
    BY DEF SessionSteps
  <1>4. CASE status' # "running"
    <2>1. SessionSteps' = 0
      BY <1>4 DEF SessionSteps
    <2>2. QED
      BY <1>1, <1>2, <1>3, <2>1
  <1>5. CASE /\ status' = "running" /\ at' = at + 1 /\ at <= Len(script)
             /\ query' = "none" /\ pc' = pc
    <2>1. at \in Nat /\ Call \subseteq Nat /\ at + 1 \in Nat
      BY SessionAssumption DEF QueryInv, SessionInv, SessionTypeOK
    <2> DEFINE left == Len(script) + 1 - (at + 1)
    <2>2. left \in Nat /\ Len(script) + 1 - at = left + 1
      BY <1>1, <1>5, <2>1
    <2>3. SessionSteps' = left * MostSteps + StatementSteps'
      BY <1>5 DEF SessionSteps, MostSteps, AttemptSteps
    <2>4. StatementSteps' \in Nat /\ StatementSteps' <= MostSteps
      <3>1. RetryLimit * AttemptSteps \in Nat
        BY ExecAssumption, NextTurn DEF AttemptSteps
      <3>2. CASE at + 1 \in 1..Len(script) /\ Execs(at + 1)
        <4>1. at + 1 \in Call
          BY <3>2, ScriptFits DEF QueryInv, SessionInv, SessionTypeOK
        <4>2. pc'[at + 1] = "idle"
          BY <1>5, <2>1, <4>1 DEF QueryInv, SessionInv, InTurn
        <4>3. (CallSteps(at))' = RetryLimit * AttemptSteps + 1
          BY <1>5, <4>2 DEF CallSteps, AttemptSteps
        <4>4. StatementSteps' = RetryLimit * AttemptSteps + 1 + 1
          BY <1>5, <3>2, <4>3 DEF StatementSteps, Execs
        <4>5. QED
          BY <3>1, <4>4 DEF MostSteps
      <3>3. CASE ~ (at + 1 \in 1..Len(script) /\ Execs(at + 1))
        <4>1. StatementSteps' \in {1, 3}
          BY <1>5, <3>3 DEF StatementSteps, Execs
        <4>2. QED
          BY <3>1, <4>1 DEF MostSteps
      <3>4. QED
        BY <3>2, <3>3
    <2>5. (left + 1) * MostSteps = left * MostSteps + MostSteps /\ left * MostSteps \in Nat
      BY <1>1, <2>2, NextTurn
    <2> HIDE DEF left
    <2>6. SessionSteps = left * MostSteps + MostSteps + StatementSteps
      BY <1>3, <2>2, <2>5
    <2>7. QED
      BY <1>1, <2>3, <2>4, <2>5, <2>6
  <1>6. QED
    BY <1>4, <1>5 DEF GoOn

(* The same of a command with all its statements, whatever becomes of      *)
(* them: every step of its own brings it nearer to its end, no step of the *)
(* database takes it back, and no call of exec waits for the connection    *)
(* that a query of the same command keeps.                                 *)
THEOREM SessionStepsRunOut ==
    SessionSpec => /\ [](SessionSteps \in Nat)
                   /\ [][Own => SessionSteps' < SessionSteps]_svars
                   /\ [][Outside => SessionSteps' = SessionSteps]_svars
                   /\ []QueryInTurn
  <1>1. QueryInv => SessionSteps \in Nat /\ QueryInTurn
    BY SessionStepsType DEF QueryInv
  <1> DEFINE CallsCounted == \A c \in Call : CallSteps(c) \in Nat
  <1>2. QueryInv => CallsCounted
    BY CallStepsType DEF QueryInv, SessionInv
  <1>3. QueryInv' => CallsCounted'
    BY <1>2, PTL
  <1>4. QueryInv /\ QueryInv' /\ [SessionNext]_svars =>
          [Own => SessionSteps' < SessionSteps]_svars
    <2> SUFFICES ASSUME QueryInv, QueryInv', Own
                 PROVE  SessionSteps' < SessionSteps
      OBVIOUS
    <2>1. by' = by /\ script' = script /\ status = "running"
      BY DEF Own, Open, Refuse, QuerySent, Finish, InExec, ExecReturns,
             QueryBegins, QueryReturns, session, Turn, QueryInv, QueryInTurn
    <2>2. /\ MostSteps \in Nat /\ StatementSteps \in Nat \ {0}
          /\ Len(script) + 1 - at \in Nat /\ Len(script) \in Nat
          /\ (Len(script) + 1 - at) * MostSteps \in Nat
      BY SessionStepsType, NextTurn DEF QueryInv
    <2>3. ASSUME status' = status, at' = at, StatementSteps' < StatementSteps,
                 StatementSteps' \in Nat
          PROVE  SessionSteps' < SessionSteps
      <3>1. SessionSteps = (Len(script) + 1 - at) * MostSteps + StatementSteps
        BY <2>1 DEF SessionSteps
      <3>2. SessionSteps' = (Len(script) + 1 - at) * MostSteps + StatementSteps'
        BY <2>1, <2>3 DEF SessionSteps, MostSteps, AttemptSteps
      <3>3. QED
        BY <2>2, <2>3, <3>1, <3>2
    <2>4. CASE Open
      <3>1. at <= Len(script) /\ query = "none" /\ pc' = pc /\ query' = query
        BY <2>2, <2>4 DEF Open, vars, QueryInv, QueryInTurn
      <3>2. GoOn \/ status' # "running"
        BY <2>4 DEF Open, Stop
      <3>3. QED
        BY <2>1, <3>1, <3>2, StatementEnds
    <2>5. CASE Refuse \/ Finish
      <3>1. status' # "running"
        BY <2>5 DEF Refuse, Finish, Stop
      <3>2. QED
        BY <2>1, <3>1, StatementEnds
    <2>6. CASE QuerySent
      <3>1. at \in 1..Len(script) /\ ~ Execs(at)
        BY <2>6 DEF QuerySent, QueryInv, QueryInTurn, Queries
      <3>2. StatementSteps = 2 /\ StatementSteps' = 1 /\ status' = status /\ at' = at
        BY <2>1, <2>6, <3>1 DEF QuerySent, StatementSteps, Execs
      <3>3. QED
        BY <2>3, <3>2
    <2>7. ASSUME NEW c \in Call, InExec(c)
          PROVE  SessionSteps' < SessionSteps
      <3>1. /\ at = c /\ c \in 1..Len(script) /\ Execs(c)
            /\ at' = at /\ status' = status
        BY <2>7, SessionAssumption DEF InExec, Turn, session
      <3>2. (CallSteps(c))' < CallSteps(c)
        BY <2>7, AttemptFalls, TurnFalls DEF InExec, Attempt, QueryInv, SessionInv
      <3>3. CallSteps(c) \in Nat /\ (CallSteps(c))' \in Nat
        BY <1>2, <1>3
      <3>4. StatementSteps = CallSteps(c) + 1
        BY <3>1 DEF StatementSteps
      <3>5. StatementSteps' = (CallSteps(c))' + 1
        BY <2>1, <3>1 DEF StatementSteps, Execs
      <3>6. QED
        BY <2>3, <3>1, <3>2, <3>3, <3>4, <3>5
    <2>8. ASSUME NEW c \in Call, ExecReturns(c) \/ QueryReturns(c)
          PROVE  SessionSteps' < SessionSteps
      <3>1. at <= Len(script) /\ pc' = pc
        BY <2>8 DEF ExecReturns, QueryReturns, Turn, vars
      <3>2. query' = "none"
        BY <2>8 DEF ExecReturns, QueryReturns, Turn, QueryInv, QueryInTurn, Queries
      <3>3. GoOn \/ status' # "running"
        BY <2>8 DEF ExecReturns, QueryReturns, Stop
      <3>4. QED
        BY <2>1, <3>1, <3>2, <3>3, StatementEnds
    <2>9. ASSUME NEW c \in Call, QueryBegins(c)
          PROVE  SessionSteps' < SessionSteps
      <3>1. at \in 1..Len(script) /\ ~ Execs(at) /\ at' = at /\ status' = status
        BY <2>2, <2>9, SessionAssumption DEF QueryBegins, Turn, Queries
      <3>2. StatementSteps = 3 /\ StatementSteps' \in {1, 2}
        BY <2>1, <2>9, <3>1 DEF QueryBegins, StatementSteps, Execs
      <3>3. QED
        BY <2>3, <3>1, <3>2
    <2>10. QED
      BY <2>4, <2>5, <2>6, <2>7, <2>8, <2>9 DEF Own
  <1>5. QueryInv /\ [SessionNext]_svars => [Outside => SessionSteps' = SessionSteps]_svars
    BY DEF Outside, SetBreaker, ApplyStray, session, SessionSteps, MostSteps,
           AttemptSteps, StatementSteps, CallSteps, StepsInAttempt, Execs
  <1>6. QED
    BY <1>1, <1>4, <1>5, QueryInvariant, PTL DEF SessionSpec
==============================================================================
