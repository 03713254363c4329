------------------------------- MODULE Commands ------------------------------
(***************************************************************************)
(* The commands that administer a cluster: add, assign, transfer and       *)
(* remove nodes, and dump the database (cluster.go, main.go, db.go).  Each *)
(* finds the leader and then asks it for one thing after another, while    *)
(* other commands run and the leader changes.                              *)
(*                                                                         *)
(* A command keeps no state; the members, their roles and the leader       *)
(* belong to the cluster, which is external code, as is client.Add: it     *)
(* adds a node as a spare and then assigns the role.  The cluster may      *)
(* refuse a request, and may carry one out for which nobody waits any      *)
(* more.                                                                   *)
(***************************************************************************)
EXTENDS Naturals, Sequences

CONSTANTS
    Op,         (* the commands that run                                    *)
    Command,    (* what they may be: see CommandType                        *)
    Cluster,    (* the members at first                                     *)
    MaxVersion  (* bound: the last version of the database                  *)

Role == {"voter", "standby", "spare"}

(* A command names the nodes it is about, one except for assign.           *)
CommandType(c) ==
    /\ c.kind \in {"add", "assign", "transfer", "remove", "dump"}
    /\ c.ids \in Seq(Nat)
    /\ c.kind \in {"add", "transfer", "remove"} => Len(c.ids) = 1
    /\ c.kind = "assign" => Len(c.ids) > 0
    /\ c.role \in Role

Address == {c.addr : c \in Command} \cup {Cluster[n].addr : n \in DOMAIN Cluster}
Members(ids) == [ids -> [addr : Address, role : Role]]

ASSUME CommandsAssumption ==
    /\ \A c \in Command : CommandType(c)
    /\ Cluster \in Members(DOMAIN Cluster)
    /\ MaxVersion \in Nat \ {0, 1}

VARIABLES
    members,    (* the cluster: the address and role of each node           *)
    leader,     (* its leader, 0 when there is none                         *)
    version,    (* that of the database                                     *)
    disk,       (* which version the files of the dump hold                 *)
    cmd,        (* the commands                                             *)
    pc,         (* how far each has got, or how it has ended                *)
    conn,       (* the node a command is connected to, or 0                 *)
    known,      (* what that node, deposed, may still take for the members  *)
    at,         (* which id or which file is next                           *)
    snap,       (* the version dumped, Cut before                           *)
    late        (* what was requested when the command ended, or "none"     *)

cluster == <<members, leader, version>>
vars == <<members, leader, version, disk, cmd, pc, conn, known, at, snap, late>>

Id(o) == cmd[o].ids[at[o]]

(* The database and its WAL; before the dumps, those of an earlier dump,   *)
(* of a version before the first one here.                                 *)
Files == 1..2
Cut == 0
Old == 1
Earlier == [f \in Files |-> Old]

Voters(m) == {n \in DOMAIN m : m[n].role = "voter"}

Init ==
    /\ members = Cluster
    /\ leader \in {0} \cup Voters(Cluster)
    /\ version = Old + 1
    /\ disk = Earlier
    /\ cmd \in [Op -> Command]
    /\ pc = [o \in Op |-> "start"]
    /\ conn = [o \in Op |-> 0]
    /\ known = [o \in Op |-> Cluster]
    /\ at = [o \in Op |-> 1]
    /\ snap = [o \in Op |-> Cut]
    /\ late = [o \in Op |-> "none"]

Go(o, from, to) ==
    /\ pc[o] = from
    /\ pc' = [pc EXCEPT ![o] = to]

------------------------------------------------------------------------------
(* The cluster.                                                            *)

(* The members change; a leader that is no voter any more steps down.      *)
Become(m) ==
    /\ members' = m
    /\ leader' = IF leader \in Voters(m) THEN leader ELSE 0
    /\ UNCHANGED version

AsSpare(o) ==
    /\ Id(o) \notin DOMAIN members
    /\ \A n \in DOMAIN members : members[n].addr # cmd[o].addr
    /\ Become([n \in DOMAIN members \cup {Id(o)} |->
                 IF n = Id(o) THEN [addr |-> cmd[o].addr, role |-> "spare"]
                              ELSE members[n]])

WithRole(o, role) ==
    /\ Id(o) \in DOMAIN members
    /\ Become([members EXCEPT ![Id(o)].role = role])

Without(o) ==
    /\ Id(o) \in DOMAIN members
    /\ Become([n \in DOMAIN members \ {Id(o)} |-> members[n]])

Led(o) ==
    /\ Id(o) \in Voters(members)
    /\ leader' = Id(o)
    /\ UNCHANGED <<members, version>>

(* The leader carries out what the command at step s requests of it.       *)
CarriedOut(o, s) ==
    /\ conn[o] = leader
    /\ CASE s = "adding"       -> AsSpare(o)
         [] s = "promoting"    -> WithRole(o, cmd[o].role)
         [] s = "assigning"    -> WithRole(o, cmd[o].role)
         [] s = "transferring" -> Led(o)
         [] s = "removing"     -> Without(o)

Requesting == {"adding", "promoting", "assigning", "transferring", "removing"}

(* Nobody waits for the answer.                                            *)
CarriedOutLate(o) ==
    /\ late[o] # "none"
    /\ CarriedOut(o, late[o])
    /\ late' = [late EXCEPT ![o] = "none"]
    /\ conn' = [conn EXCEPT ![o] = 0]
    /\ UNCHANGED <<disk, cmd, pc, known, at, snap>>

Elect ==
    /\ leader' \in ({0} \cup Voters(members)) \ {leader}
    /\ UNCHANGED <<members, version, disk, cmd, pc, conn, known, at, snap, late>>

WriteDatabase ==
    /\ version < MaxVersion /\ version' = version + 1
    /\ UNCHANGED <<members, leader, disk, cmd, pc, conn, known, at, snap, late>>

------------------------------------------------------------------------------
(* What all commands do.                                                   *)

First == [add |-> "checking", assign |-> "assigning", transfer |-> "asking",
          remove |-> "removing", dump |-> "dumping"]

(* getLeader.                                                              *)
FindLeader(o) ==
    /\ Go(o, "start", First[cmd[o].kind])
    /\ leader # 0
    /\ conn' = [conn EXCEPT ![o] = leader]
    /\ known' = [known EXCEPT ![o] = IF cmd[o].kind = "add" THEN members ELSE @]
    /\ UNCHANGED <<cluster, disk, cmd, at, snap, late>>

(* Mutation of Fail: the error of Assign is ignored.                       *)
FailIgnored(o) ==
    /\ pc[o] \notin {"ok", "err"}
    /\ Go(o, pc[o], IF pc[o] = "assigning" /\ at[o] = Len(cmd[o].ids) THEN "ok" ELSE "err")
    /\ conn' = [conn EXCEPT ![o] = 0]
    /\ UNCHANGED <<cluster, disk, cmd, known, at, snap, late>>

(* Any call fails or times out, or the command is interrupted; what it has *)
(* requested may still be carried out.                                     *)
Fail(o) ==
    /\ pc[o] \notin {"ok", "err"} /\ Go(o, pc[o], "err")
    /\ \/ UNCHANGED late /\ conn' = [conn EXCEPT ![o] = 0]
       \/ /\ pc[o] \in Requesting /\ late' = [late EXCEPT ![o] = pc[o]]
          /\ UNCHANGED conn
    /\ UNCHANGED <<cluster, disk, cmd, known, at, snap>>

(* A request is carried out, and the command is told; unless client.Add    *)
(* has another one to make, the connection is closed.                      *)
Request(o, step, next) ==
    /\ Go(o, step, next)
    /\ CarriedOut(o, step)
    /\ conn' = [conn EXCEPT ![o] = IF next = "promoting" THEN @ ELSE 0]
    /\ UNCHANGED <<disk, cmd, known, snap, late>>

------------------------------------------------------------------------------
(* add                                                                     *)

(* Mutation of Check: the address of a member is not compared.             *)
CheckIdOnly(m, o) == IF Id(o) \in DOMAIN m THEN "ok" ELSE "adding"

Check(m, o) ==
    IF Id(o) # 0 /\ Id(o) \notin DOMAIN m THEN "adding"
    ELSE IF Id(o) # 0 /\ m[Id(o)].addr = cmd[o].addr THEN "ok" ELSE "err"

(* client.Cluster: a node that is not the leader any more may answer with  *)
(* members of the past.                                                    *)
GetMembers(o) ==
    /\ \E m \in {members} \cup (IF conn[o] = leader THEN {} ELSE {known[o]}) :
         /\ Go(o, "checking", Check(m, o))
         /\ conn' = [conn EXCEPT ![o] = IF Check(m, o) = "adding" THEN @ ELSE 0]
    /\ known' = [known EXCEPT ![o] = Cluster]
    /\ UNCHANGED <<cluster, disk, cmd, at, snap, late>>

(* client.Add assigns the role unless it is that of any new node.          *)
Added(o) == IF cmd[o].role = "spare" THEN "ok" ELSE "promoting"

(* Mutation of AddNode: the role is not passed on.                         *)
AddNodeNoRole(o) == Request(o, "adding", "ok") /\ UNCHANGED at

AddNode(o) == Request(o, "adding", Added(o)) /\ UNCHANGED at
Promote(o) == Request(o, "promoting", "ok") /\ UNCHANGED at

------------------------------------------------------------------------------
(* assign, transfer and remove                                             *)

(* Mutation of Assign: the id that comes next is left out.                 *)
AssignSkips(o) ==
    IF at[o] + 1 < Len(cmd[o].ids)
    THEN Request(o, "assigning", "start") /\ at' = [at EXCEPT ![o] = @ + 2]
    ELSE Request(o, "assigning", "ok") /\ UNCHANGED at

(* Mutation of Assign: the loop does not end with the last id.             *)
AssignPastEnd(o) == Request(o, "assigning", "start") /\ at' = [at EXCEPT ![o] = @ + 1]

(* The loop over the ids finds the leader for each of them.                *)
Assign(o) ==
    IF at[o] < Len(cmd[o].ids)
    THEN Request(o, "assigning", "start") /\ at' = [at EXCEPT ![o] = @ + 1]
    ELSE Request(o, "assigning", "ok") /\ UNCHANGED at

(* client.Leader: it answers, or the command fails.                        *)
AskLeader(o) ==
    /\ Go(o, "asking", "transferring")
    /\ UNCHANGED <<cluster, disk, cmd, conn, known, at, snap, late>>

Transfer(o) == Request(o, "transferring", "ok") /\ UNCHANGED at
Remove(o) == Request(o, "removing", "ok") /\ UNCHANGED at

------------------------------------------------------------------------------
(* dump                                                                    *)

(* client.Dump: both files as they are on the node asked, which may lag    *)
(* behind when it is not the leader any more.                              *)
Fetch(o) ==
    /\ Go(o, "dumping", "creating")
    /\ \E v \in (Old + 1)..version :
         /\ conn[o] = leader => v = version
         /\ snap' = [snap EXCEPT ![o] = v]
    /\ conn' = [conn EXCEPT ![o] = 0]
    /\ UNCHANGED <<cluster, disk, cmd, known, at, late>>

Put(f, content) == disk' = [disk EXCEPT ![f] = content]

(* os.Create truncates the file.                                           *)
Create(o) ==
    /\ Go(o, "creating", "writing")
    /\ Put(at[o], Cut)
    /\ UNCHANGED <<cluster, cmd, conn, known, at, snap, late>>

(* Mutation of Write: the loop over the files ends one early.              *)
WriteFirst(o) ==
    /\ Go(o, "writing", "ok")
    /\ Put(at[o], snap[o])
    /\ UNCHANGED <<cluster, cmd, conn, known, at, snap, late>>

Write(o) ==
    /\ \/ /\ at[o] + 1 \in Files
          /\ Go(o, "writing", "creating")
          /\ at' = [at EXCEPT ![o] = @ + 1]
       \/ /\ at[o] + 1 \notin Files
          /\ Go(o, "writing", "ok")
          /\ UNCHANGED at
    /\ Put(at[o], snap[o])
    /\ UNCHANGED <<cluster, cmd, conn, known, snap, late>>

------------------------------------------------------------------------------
Step(o) == \/ FindLeader(o) \/ Fail(o) \/ CarriedOutLate(o)
           \/ GetMembers(o) \/ AddNode(o) \/ Promote(o)
           \/ Assign(o) \/ AskLeader(o) \/ Transfer(o) \/ Remove(o)
           \/ Fetch(o) \/ Create(o) \/ Write(o)

Next == Elect \/ WriteDatabase \/ \E o \in Op : Step(o)

Spec == Init /\ [][Next]_vars

------------------------------------------------------------------------------
Node == DOMAIN Cluster \cup UNION {{cmd[o].ids[k] : k \in 1..Len(cmd[o].ids)} : o \in Op}

About(o, n) == \E k \in 1..Len(cmd[o].ids) : cmd[o].ids[k] = n

TypeOK ==
    /\ members \in Members(DOMAIN members) /\ DOMAIN members \subseteq Node
    /\ leader \in {0} \cup Voters(members)
    /\ version \in (Old + 1)..MaxVersion
    /\ disk \in [Files -> 0..version] /\ snap \in [Op -> 0..version]
    /\ cmd \in [Op -> Command]
    /\ pc \in [Op -> {"start", "checking", "asking", "dumping", "creating",
                      "writing", "ok", "err"} \cup Requesting]
    /\ conn \in [Op -> {0} \cup Node]
    /\ known = [o \in Op |-> known[o]]
    /\ at \in [Op -> Nat] /\ late \in [Op -> {"none"} \cup Requesting]
    /\ \A o \in Op :
         /\ at[o] \in 1..(IF cmd[o].kind = "dump" THEN 2 ELSE Len(cmd[o].ids))
         /\ late[o] # "none" => pc[o] = "err"
         /\ known[o] \in Members(DOMAIN known[o]) /\ DOMAIN known[o] \subseteq Node

(* An add that reports success leaves the node a member under the address  *)
(* it was given, unless a command removes the node: it is not misled by    *)
(* another add of the same node, nor by a stale list of members.           *)
AddedIsMember == \A o \in Op :
    cmd[o].kind = "add" /\ pc[o] = "ok" =>
        \/ Id(o) \in DOMAIN members /\ members[Id(o)].addr = cmd[o].addr
        \/ \E p \in Op : cmd[p].kind = "remove" /\ Id(p) = Id(o) /\ pc[p] # "start"

(* When the commands about a node are adds and all of them report success, *)
(* the node has a role that one of them, or the cluster before them, gave  *)
(* it: a node is not left a spare between the two halves of an add.        *)
RoleSettled == \A n \in DOMAIN members :
    LET adding == {o \in Op : About(o, n)}
    IN  (\A o \in adding : cmd[o].kind = "add" /\ pc[o] = "ok") =>
            members[n].role \in {cmd[o].role : o \in adding}
                \cup (IF n \in DOMAIN Cluster THEN {Cluster[n].role} ELSE {})

(* An assign of several nodes goes through them in order and stops at the  *)
(* first that fails: if nobody else is about them, those before it have    *)
(* the role, those after it keep theirs.                                   *)
AssignedInOrder == \A o \in Op :
    LET ids == cmd[o].ids
        Alone(n) == n \in DOMAIN Cluster /\ \A p \in Op \ {o} : ~ About(p, n)
        Once(k) == \A j \in 1..Len(ids) : j # k => ids[j] # ids[k]
    IN  cmd[o].kind = "assign" =>
          \A k \in 1..Len(ids) : Alone(ids[k]) /\ Once(k) =>
            /\ k < at[o] \/ pc[o] = "ok" => members[ids[k]].role = cmd[o].role
            /\ k > at[o] => members[ids[k]] = Cluster[ids[k]]

(* The files of an earlier dump stay until the leader has answered; after  *)
(* a dump that reports success both files are those of one moment, unless  *)
(* another dump wrote them as well.                                        *)
DumpWhole ==
    LET fetched == {o \in Op : snap[o] # Cut}
    IN  /\ fetched = {} => disk = Earlier
        /\ \A o \in Op : fetched = {o} =>
             /\ pc[o] = "ok" => disk = [f \in Files |-> snap[o]]
             /\ \A f \in Files : disk[f] \in {Old, Cut, snap[o]}
             /\ disk[2] # Old => disk[1] = snap[o]

------------------------------------------------------------------------------
(* The commands implement Membership: finding the leader is invisible, and *)
(* so are asking for it and dumping, until they end the command.           *)
Asked(step, n) ==
    [does |-> CASE step = "adding" -> "join"
                [] step \in {"promoting", "assigning"} -> "serve"
                [] step = "transferring" -> "lead"
                [] step = "removing" -> "leave",
     node |-> n]

(* The requests from the one that is next, and those left for a command    *)
(* that is past it or has ended.                                           *)
FromNext(o) ==
    CASE cmd[o].kind = "add" /\ Added(o) = "ok" -> <<Asked("adding", Id(o))>>
      [] cmd[o].kind = "add" /\ Added(o) # "ok" ->
             <<Asked("adding", Id(o)), Asked("promoting", Id(o))>>
      [] cmd[o].kind = "assign" ->
             [k \in 1..(Len(cmd[o].ids) + 1 - at[o]) |->
                 Asked("assigning", cmd[o].ids[at[o] + k - 1])]
      [] cmd[o].kind = "transfer" -> <<Asked("transferring", Id(o))>>
      [] cmd[o].kind = "remove"   -> <<Asked("removing", Id(o))>>
      [] cmd[o].kind = "dump"     -> <<>>

Todo(o) ==
    CASE pc[o] = "ok"        -> <<>>
      [] pc[o] = "err"       -> IF late[o] = "none" THEN <<>> ELSE <<Asked(late[o], Id(o))>>
      [] pc[o] = "promoting" -> <<Asked("promoting", Id(o))>>
      [] OTHER               -> FromNext(o)

(* What an add was told when it found the leader.                          *)
Found(o) ==
    /\ cmd[o].kind = "add" /\ pc[o] = "checking"
    /\ Id(o) \in DOMAIN known[o] /\ known[o][Id(o)].addr = cmd[o].addr

Administration == INSTANCE Membership WITH
    todo    <- [o \in Op |-> Todo(o)],
    found   <- [o \in Op |-> Found(o)],
    outcome <- [o \in Op |-> IF pc[o] \in {"ok", "err"} THEN pc[o] ELSE "running"]

(* The commands keep their promise: requests take effect once, in order,   *)
(* and all of them when a command succeeds, also when the leader changes   *)
(* between them or carries one out for which nobody waits.                 *)
ImplementsMembership == Administration!Spec
==============================================================================
