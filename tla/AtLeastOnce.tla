----------------------------- MODULE AtLeastOnce -----------------------------
(***************************************************************************)
(* What DBX.exec (db.go) promises its callers about one statement: it may  *)
(* take effect more than once, even after the call has returned, but never *)
(* more than MaxEffect times; success means that it took effect; a call    *)
(* refused by the circuit breaker has no effect at all; every call returns.*)
(***************************************************************************)
EXTENDS Naturals

CONSTANTS
    Call,       (* the calls of exec                                        *)
    MaxEffect   (* the most often the statement of one call takes effect    *)

VARIABLES
    phase,      (* phase[c]: "idle", "busy" or "done"                       *)
    effects,    (* effects[c]: how often the statement of c took effect     *)
    outcome     (* outcome[c]: what c returned, "none" before               *)

vars == <<phase, effects, outcome>>

Outcome == {"ok", "sqlerr", "exhausted", "unavailable"}

Init ==
    /\ phase   = [c \in Call |-> "idle"]
    /\ effects = [c \in Call |-> 0]
    /\ outcome = [c \in Call |-> "none"]

Start(c) ==
    /\ phase[c] = "idle"
    /\ phase' = [phase EXCEPT ![c] = "busy"]
    /\ UNCHANGED <<effects, outcome>>

Effect(c) ==
    /\ phase[c] # "idle" /\ outcome[c] # "unavailable"
    /\ effects[c] < MaxEffect
    /\ effects' = [effects EXCEPT ![c] = @ + 1]
    /\ UNCHANGED <<phase, outcome>>

Return(c, o) ==
    /\ phase[c] = IF o = "unavailable" THEN "idle" ELSE "busy"
    /\ o = "ok" => effects[c] > 0
    /\ phase'   = [phase EXCEPT ![c] = "done"]
    /\ outcome' = [outcome EXCEPT ![c] = o]
    /\ UNCHANGED effects

Next == \E c \in Call :
    \/ Start(c)
    \/ Effect(c)
    \/ \E o \in Outcome : Return(c, o)

Safety == Init /\ [][Next]_vars

CallsReturn == \A c \in Call : phase[c] = "busy" ~> phase[c] = "done"

Spec == Safety /\ CallsReturn
==============================================================================
