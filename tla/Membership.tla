------------------------------ MODULE Membership -----------------------------
(***************************************************************************)
(* What the commands that administer a cluster promise (cluster.go,        *)
(* main.go), without how they find the leader, what they are told and when *)
(* they look.  A command is a list of requests.  They take effect in its   *)
(* order, each once at most and as a whole, whatever other commands do in  *)
(* between.  A command that succeeds has made all of them, unless it was   *)
(* to add a node that has been a member meanwhile; then it has made none.  *)
(* A command that fails has made some of them, and at most the next one    *)
(* may still take effect later.                                            *)
(***************************************************************************)
EXTENDS Naturals, Sequences

CONSTANTS
    Op,         (* the commands that run                                    *)
    Command,    (* what they may be: see Commands                           *)
    Cluster     (* the members at first                                     *)

VARIABLES
    members,    (* the cluster: the address and role of each node           *)
    leader,     (* its leader, 0 when there is none                         *)
    cmd,        (* the commands                                             *)
    todo,       (* the requests a command may still make                    *)
    found,      (* whether an add has come upon its node in the cluster     *)
    outcome     (* "running", or how the command has ended                  *)

vars == <<members, leader, cmd, todo, found, outcome>>

To(does, n) == [does |-> does, node |-> n]

Requests(c) ==
    CASE c.kind = "add" -> IF c.role = "spare" THEN <<To("join", c.ids[1])>>
                           ELSE <<To("join", c.ids[1]), To("serve", c.ids[1])>>
      [] c.kind = "assign"   -> [k \in 1..Len(c.ids) |-> To("serve", c.ids[k])]
      [] c.kind = "transfer" -> <<To("lead", c.ids[1])>>
      [] c.kind = "remove"   -> <<To("leave", c.ids[1])>>
      [] c.kind = "dump"     -> <<>>

Voters(m) == {n \in DOMAIN m : m[n].role = "voter"}

Init ==
    /\ members = Cluster
    /\ leader \in {0} \cup Voters(Cluster)
    /\ cmd \in [Op -> Command]
    /\ todo = [o \in Op |-> Requests(cmd[o])]
    /\ found = [o \in Op |-> FALSE]
    /\ outcome = [o \in Op |-> "running"]

------------------------------------------------------------------------------
(* A leader that is no voter any more steps down.                          *)
Become(m) ==
    /\ members' = m
    /\ leader' = IF leader \in Voters(m) THEN leader ELSE 0

(* One request, at a moment when there is a leader to make it to.          *)
TakesEffect(r, c) ==
    \/ /\ r.does = "join" /\ r.node \notin DOMAIN members
       /\ \A n \in DOMAIN members : members[n].addr # c.addr
       /\ Become([n \in DOMAIN members \cup {r.node} |->
                    IF n = r.node THEN [addr |-> c.addr, role |-> "spare"]
                                  ELSE members[n]])
    \/ /\ r.does = "serve" /\ r.node \in DOMAIN members
       /\ Become([members EXCEPT ![r.node].role = c.role])
    \/ /\ r.does = "leave" /\ r.node \in DOMAIN members
       /\ Become([n \in DOMAIN members \ {r.node} |-> members[n]])
    \/ /\ r.does = "lead" /\ r.node \in Voters(members)
       /\ leader' = r.node
       /\ UNCHANGED members

(* With the last request the command succeeds, if it has not failed.       *)
Effect(o) ==
    /\ todo[o] # <<>> /\ leader # 0
    /\ TakesEffect(Head(todo[o]), cmd[o])
    /\ todo' = [todo EXCEPT ![o] = Tail(@)]
    /\ found' = [found EXCEPT ![o] = FALSE]
    /\ outcome' = [outcome EXCEPT ![o] =
                     IF @ = "running" /\ Tail(todo[o]) = <<>> THEN "ok" ELSE @]
    /\ UNCHANGED cmd

IsMember(o) ==
    LET n == cmd[o].ids[1]
    IN  n \in DOMAIN members /\ members[n].addr = cmd[o].addr

(* Only an add that has made no request yet looks for its node; what it    *)
(* has found may be out of date when it makes use of it.                   *)
Looking(o) == cmd[o].kind = "add" /\ todo[o] = Requests(cmd[o])

Look(o) ==
    /\ outcome[o] = "running" /\ Looking(o)
    /\ \E seen \in BOOLEAN :
         /\ seen => IsMember(o)
         /\ found' = [found EXCEPT ![o] = seen]
    /\ UNCHANGED <<members, leader, cmd, todo, outcome>>

End(o, how) ==
    /\ outcome[o] = "running"
    /\ outcome' = [outcome EXCEPT ![o] = how]
    /\ found' = [found EXCEPT ![o] = FALSE]
    /\ UNCHANGED <<members, leader, cmd>>

(* Nothing is to be done, or no more.                                      *)
Succeed(o) ==
    /\ \/ todo[o] = <<>>
       \/ Looking(o) /\ (found[o] \/ IsMember(o))
    /\ todo' = [todo EXCEPT ![o] = <<>>]
    /\ End(o, "ok")

Fail(o) ==
    /\ \/ todo' = [todo EXCEPT ![o] = <<>>]
       \/ todo[o] # <<>> /\ todo' = [todo EXCEPT ![o] = <<Head(@)>>]
    /\ End(o, "err")

Elect ==
    /\ leader' \in {0} \cup Voters(members)
    /\ UNCHANGED <<members, cmd, todo, found, outcome>>

Next == Elect \/ \E o \in Op : Effect(o) \/ Look(o) \/ Succeed(o) \/ Fail(o)

Spec == Init /\ [][Next]_vars
==============================================================================
