---------------------------- MODULE CommandsProofs ---------------------------
(***************************************************************************)
(* Proofs about Commands, for any commands at once, any cluster and any    *)
(* number of versions of the database: what the commands leave behind.     *)
(*                                                                         *)
(* None of the properties is inductive.  All need to know where a command  *)
(* can be (InPlace) and who may change the record of a node (AddedBy,      *)
(* GivenRoleBy, RemovedBy).  Then they need what stands half way:          *)
(* RolesStand while an add has the role still to assign, AddsStand while   *)
(* it relies on members it has been told, AssignsStand at each id of an    *)
(* assign, and DumpsStand between the two files of a dump (Half).          *)
(*                                                                         *)
(* At last, that Commands implements Membership, one lemma for each kind   *)
(* of step.                                                                *)
(***************************************************************************)
EXTENDS Commands, SequenceTheorems, TLAPS

Steps(kind) ==
    {"start", "ok", "err"} \cup
    CASE kind = "add"      -> {"checking", "adding", "promoting"}
      [] kind = "assign"   -> {"assigning"}
      [] kind = "transfer" -> {"asking", "transferring"}
      [] kind = "remove"   -> {"removing"}
      [] kind = "dump"     -> {"dumping", "creating", "writing"}

InPlace == \A o \in Op :
    /\ pc[o] \in Steps(cmd[o].kind)
    /\ late[o] \in {"none"} \cup Steps(cmd[o].kind)
    /\ pc[o] \in {"creating", "writing"} => snap[o] # Cut

TypeInv == TypeOK /\ InPlace

(* The variables that no step types anew.                                  *)
LEMMA Kinds ==
    ASSUME TypeOK, NEW o \in Op
    PROVE  /\ CommandType(cmd[o]) /\ cmd[o].addr \in Address
           /\ cmd[o].kind # "dump" =>
                 at[o] \in 1..Len(cmd[o].ids) /\ About(o, Id(o)) /\ Id(o) \in Node
  <1>1. cmd[o] \in Command
    BY DEF TypeOK
  <1>2. CommandType(cmd[o]) /\ cmd[o].addr \in Address
    BY <1>1, CommandsAssumption DEF Address
  <1>3. ASSUME cmd[o].kind # "dump"
        PROVE  at[o] \in 1..Len(cmd[o].ids) /\ About(o, Id(o)) /\ Id(o) \in Node
    <2>1. at[o] \in 1..Len(cmd[o].ids)
      BY <1>3 DEF TypeOK
    <2>2. QED
      BY <2>1 DEF About, Id, Node
  <1>4. QED
    BY <1>2, <1>3

LEMMA CmdStays == [Next]_vars => cmd' = cmd
  BY DEF Next, Elect, WriteDatabase, Step, FindLeader, Fail, CarriedOutLate,
         GetMembers, AddNode, Promote, Assign, AskLeader, Transfer, Remove,
         Request, Fetch, Create, Write, vars

------------------------------------------------------------------------------
(* What a request does to the members.                                     *)
LEMMA CarriedOutIs ==
    ASSUME NEW o \in Op, NEW s \in Requesting, CarriedOut(o, s)
    PROVE  \/ s = "transferring" /\ Led(o)
           \/ s = "adding" /\ AsSpare(o)
           \/ s \in {"promoting", "assigning"} /\ WithRole(o, cmd[o].role)
           \/ s = "removing" /\ Without(o)
  BY DEF CarriedOut, Requesting

LEMMA VotersLed ==
    ASSUME NEW m, Become(m)
    PROVE  leader' \in {0} \cup Voters(members') /\ members' = m /\ version' = version
  BY DEF Become

LEMMA CarriedOutType ==
    ASSUME TypeOK, NEW o \in Op, NEW s \in Requesting, CarriedOut(o, s),
           cmd[o].kind # "dump"
    PROVE  /\ members' \in Members(DOMAIN members') /\ DOMAIN members' \subseteq Node
           /\ leader' \in {0} \cup Voters(members')
           /\ version' = version
  <1>1. /\ CommandType(cmd[o]) /\ cmd[o].addr \in Address /\ Id(o) \in Node
        /\ cmd[o].role \in Role
    BY Kinds DEF CommandType
  <1>2. members \in Members(DOMAIN members) /\ DOMAIN members \subseteq Node
    BY DEF TypeOK
  <1>3. CASE Led(o)
    BY <1>2, <1>3 DEF Led, Voters
  <1>4. CASE AsSpare(o)
    <2> DEFINE m == [n \in DOMAIN members \cup {Id(o)} |->
                       IF n = Id(o) THEN [addr |-> cmd[o].addr, role |-> "spare"]
                                    ELSE members[n]]
    <2>1. leader' \in {0} \cup Voters(members') /\ members' = m /\ version' = version
      BY <1>4, VotersLed DEF AsSpare
    <2>2. m \in Members(DOMAIN m) /\ DOMAIN m \subseteq Node
      BY <1>1, <1>2 DEF Members, Role
    <2>3. QED
      BY <2>1, <2>2
  <1>5. CASE WithRole(o, cmd[o].role)
    <2> DEFINE m == [members EXCEPT ![Id(o)].role = cmd[o].role]
    <2>1. leader' \in {0} \cup Voters(members') /\ members' = m /\ version' = version
      BY <1>5, VotersLed DEF WithRole
    <2>2. m \in Members(DOMAIN m) /\ DOMAIN m \subseteq Node
      BY <1>1, <1>2 DEF Members
    <2>3. QED
      BY <2>1, <2>2
  <1>6. CASE Without(o)
    <2> DEFINE m == [n \in DOMAIN members \ {Id(o)} |-> members[n]]
    <2>1. leader' \in {0} \cup Voters(members') /\ members' = m /\ version' = version
      BY <1>6, VotersLed DEF Without
    <2>2. m \in Members(DOMAIN m) /\ DOMAIN m \subseteq Node
      BY <1>2 DEF Members
    <2>3. QED
      BY <2>1, <2>2
  <1>7. QED
    BY <1>3, <1>4, <1>5, <1>6, CarriedOutIs

------------------------------------------------------------------------------
(* Types.                                                                  *)
LEMMA TypeInit == Init => TypeInv
  <1> SUFFICES ASSUME Init PROVE TypeInv
    OBVIOUS
  <1>1. \A o \in Op : CommandType(cmd[o])
    BY CommandsAssumption DEF Init
  <1>2. members \in Members(DOMAIN members) /\ DOMAIN members \subseteq Node
    <2>1. members = Cluster /\ Cluster \in Members(DOMAIN Cluster)
      BY CommandsAssumption DEF Init
    <2>2. DOMAIN Cluster \subseteq Node
      BY DEF Node
    <2>3. QED
      BY <2>1, <2>2
  <1>3. /\ version \in (Old + 1)..MaxVersion
        /\ disk \in [Files -> 0..version] /\ snap \in [Op -> 0..version]
    BY CommandsAssumption DEF Init, Old, Cut, Earlier
  <1>4. ASSUME NEW o \in Op
        PROVE  at[o] \in 1..(IF cmd[o].kind = "dump" THEN 2 ELSE Len(cmd[o].ids))
    <2>1. at[o] = 1
      BY DEF Init
    <2>2. cmd[o].kind # "dump" => Len(cmd[o].ids) \in Nat /\ Len(cmd[o].ids) > 0
      <3>1. CommandType(cmd[o])
        BY <1>1
      <3>2. Len(cmd[o].ids) \in Nat
        BY <3>1 DEF CommandType
      <3>3. QED
        BY <3>1, <3>2 DEF CommandType
    <2>3. QED
      BY <2>1, <2>2
  <1>5. TypeOK
    <2>1. /\ leader \in {0} \cup Voters(members) /\ cmd \in [Op -> Command]
          /\ pc \in [Op -> {"start"}] /\ \A o \in Op : late[o] = "none"
      BY DEF Init
    <2>2. pc \in [Op -> {"start", "checking", "asking", "dumping", "creating",
                         "writing", "ok", "err"} \cup Requesting]
      BY <2>1
    <2>3. \A o \in Op : late[o] \in {"none"} \cup Requesting
      BY <2>1
    <2>4. /\ conn \in [Op -> {0} \cup Node] /\ at \in [Op -> Nat]
          /\ late \in [Op -> {"none"} \cup Requesting]
      BY DEF Init
    <2>5. /\ known = [o \in Op |-> known[o]]
          /\ \A o \in Op : known[o] \in Members(DOMAIN known[o]) /\ DOMAIN known[o] \subseteq Node
      BY CommandsAssumption DEF Init, Node
    <2>6. QED
      BY <1>2, <1>3, <1>4, <2>1, <2>2, <2>3, <2>4, <2>5 DEF TypeOK
  <1>6. InPlace
    BY DEF InPlace, Steps, Init
  <1>7. QED
    BY <1>5, <1>6 DEF TypeInv

(* Where a command connects to and what it may know of the members.        *)
KnownTyped ==
    /\ known = [o \in Op |-> known[o]]
    /\ \A o \in Op : known[o] \in Members(DOMAIN known[o]) /\ DOMAIN known[o] \subseteq Node

LEMMA KnownStep ==
    ASSUME TypeOK, [Next]_vars
    PROVE  conn' \in [Op -> {0} \cup Node] /\ KnownTyped'
  <1>1. /\ conn \in [Op -> {0} \cup Node] /\ leader \in {0} \cup Node
        /\ members \in Members(DOMAIN members) /\ DOMAIN members \subseteq Node
        /\ Cluster \in Members(DOMAIN Cluster) /\ DOMAIN Cluster \subseteq Node
        /\ KnownTyped /\ Node' = Node
    <2>1. Node' = Node
      BY CmdStays DEF Node
    <2>2. DOMAIN Cluster \subseteq Node /\ Cluster \in Members(DOMAIN Cluster)
      BY CommandsAssumption DEF Node
    <2>3. Voters(members) \subseteq DOMAIN members
      BY DEF Voters
    <2>4. /\ members \in Members(DOMAIN members) /\ DOMAIN members \subseteq Node
          /\ conn \in [Op -> {0} \cup Node] /\ leader \in {0} \cup Voters(members)
      BY DEF TypeOK
    <2>5. KnownTyped
      BY DEF TypeOK, KnownTyped
    <2>6. QED
      BY <2>1, <2>2, <2>3, <2>4, <2>5
  <1>2. /\ UNCHANGED conn \/ \E o \in Op : \E n \in {leader, 0, conn[o]} : conn' = [conn EXCEPT ![o] = n]
        /\ \/ UNCHANGED known
           \/ \E o \in Op : \E m \in {members, Cluster, known[o]} : known' = [known EXCEPT ![o] = m]
    <2>1. ASSUME NEW o \in Op, Step(o)
          PROVE  /\ UNCHANGED conn \/ \E n \in {leader, 0, conn[o]} : conn' = [conn EXCEPT ![o] = n]
                 /\ UNCHANGED known \/ \E m \in {members, Cluster, known[o]} : known' = [known EXCEPT ![o] = m]
      BY <2>1 DEF Step, FindLeader, Fail, CarriedOutLate, GetMembers, AddNode,
             Promote, Assign, AskLeader, Transfer, Remove, Request, Fetch,
             Create, Write
    <2>2. CASE Elect \/ WriteDatabase \/ UNCHANGED vars
      BY <2>2 DEF Elect, WriteDatabase, vars
    <2>3. QED
      BY <2>1, <2>2 DEF Next
  <1>3. conn' \in [Op -> {0} \cup Node]
    BY <1>1, <1>2
  <1>4. KnownTyped'
    <2>1. CASE UNCHANGED known
      BY <1>1, <2>1 DEF KnownTyped
    <2>2. CASE \E o \in Op : \E m \in {members, Cluster, known[o]} : known' = [known EXCEPT ![o] = m]
      <3>1. PICK o \in Op : \E m \in {members, Cluster, known[o]} : known' = [known EXCEPT ![o] = m]
        BY <2>2
      <3>2. PICK m \in {members, Cluster, known[o]} : known' = [known EXCEPT ![o] = m]
        BY <3>1
      <3>3. m \in Members(DOMAIN m) /\ DOMAIN m \subseteq Node
        BY <1>1, <3>2 DEF KnownTyped
      <3>4. QED
        BY <1>1, <3>2, <3>3 DEF KnownTyped
    <2>3. QED
      BY <1>2, <2>1, <2>2
  <1>5. QED
    BY <1>3, <1>4

(* What is left to show of a step.                                         *)
LEMMA TypeStep ==
    ASSUME TypeInv, [Next]_vars,
           members' \in Members(DOMAIN members') /\ DOMAIN members' \subseteq Node,
           leader' \in {0} \cup Voters(members'),
           version' \in (Old + 1)..MaxVersion,
           disk' \in [Files -> 0..version'], snap' \in [Op -> 0..version'],
           NEW o \in Op,
           NEW to \in {"start", "checking", "asking", "dumping", "creating",
                       "writing", "ok", "err"} \cup Requesting,
           pc' = [pc EXCEPT ![o] = to],
           at' \in [Op -> Nat], late' \in [Op -> {"none"} \cup Requesting],
           \A p \in Op \ {o} : at'[p] = at[p] /\ late'[p] = late[p] /\ snap'[p] = snap[p],
           at'[o] \in 1..(IF cmd[o].kind = "dump" THEN 2 ELSE Len(cmd[o].ids)),
           late'[o] # "none" => to = "err",
           to \in Steps(cmd[o].kind),
           late'[o] \in {"none"} \cup Steps(cmd[o].kind),
           to \in {"creating", "writing"} => snap'[o] # Cut
    PROVE  TypeInv'
  <1>1. cmd' = cmd /\ Node' = Node
    BY CmdStays DEF Node
  <1>2. conn' \in [Op -> {0} \cup Node] /\ KnownTyped'
    BY KnownStep DEF TypeInv
  <1>3. TypeOK'
    BY <1>1, <1>2 DEF TypeInv, TypeOK, KnownTyped
  <1>4. InPlace'
    BY <1>1 DEF TypeInv, TypeOK, InPlace
  <1>5. QED
    BY <1>3, <1>4 DEF TypeInv

(* The cluster is left as it is.                                           *)
LEMMA ClusterType ==
    ASSUME TypeOK
    PROVE  /\ members \in Members(DOMAIN members) /\ DOMAIN members \subseteq Node
           /\ leader \in {0} \cup Voters(members)
           /\ version \in (Old + 1)..MaxVersion
           /\ version \in Nat /\ MaxVersion \in Nat
           /\ disk \in [Files -> 0..version] /\ snap \in [Op -> 0..version]
           /\ cmd \in [Op -> Command]
           /\ at \in [Op -> Nat] /\ late \in [Op -> {"none"} \cup Requesting]
  BY CommandsAssumption DEF TypeOK, Old

LEMMA VotersStay ==
    ASSUME members' = members, leader' = leader PROVE Voters(members') = Voters(members)
  OBVIOUS

(* The kind of a command from where it is.                                 *)
LEMMA KindFrom ==
    ASSUME TypeInv, NEW o \in Op
    PROVE  /\ cmd[o].kind \in {"add", "assign", "transfer", "remove", "dump"}
           /\ pc[o] \in {"checking", "adding", "promoting"} => cmd[o].kind = "add"
           /\ pc[o] = "assigning" => cmd[o].kind = "assign"
           /\ pc[o] \in {"asking", "transferring"} => cmd[o].kind = "transfer"
           /\ pc[o] = "removing" => cmd[o].kind = "remove"
           /\ pc[o] \in {"dumping", "creating", "writing"} => cmd[o].kind = "dump"
           /\ late[o] \in {"adding", "promoting"} => cmd[o].kind = "add"
           /\ late[o] = "assigning" => cmd[o].kind = "assign"
           /\ late[o] = "transferring" => cmd[o].kind = "transfer"
           /\ late[o] = "removing" => cmd[o].kind = "remove"
           /\ late[o] \in {"none"} \cup Requesting
           /\ pc[o] # "err" => late[o] = "none"
  <1>1. cmd[o].kind \in {"add", "assign", "transfer", "remove", "dump"}
    BY Kinds DEF TypeInv, CommandType
  <1>2. /\ pc[o] \in Steps(cmd[o].kind) /\ late[o] \in {"none"} \cup Steps(cmd[o].kind)
        /\ late[o] \in {"none"} \cup Requesting /\ (pc[o] # "err" => late[o] = "none")
    BY DEF TypeInv, TypeOK, InPlace
  <1>3. QED
    BY <1>1, <1>2 DEF Steps

LEMMA RequestType ==
    ASSUME TypeInv, [Next]_vars, NEW o \in Op, NEW s \in Requesting, NEW next,
           Request(o, s, next), next \in {"start", "promoting", "ok"},
           next \in Steps(cmd[o].kind), cmd[o].kind # "dump",
           at' = at \/ (at' = [at EXCEPT ![o] = @ + 1] /\ at[o] < Len(cmd[o].ids))
    PROVE  TypeInv'
  <1> USE DEF TypeInv
  <1>1. /\ members' \in Members(DOMAIN members') /\ DOMAIN members' \subseteq Node
        /\ leader' \in {0} \cup Voters(members') /\ version' = version
    BY CarriedOutType DEF Request
  <1>2. late[o] = "none" /\ late' = late /\ snap' = snap /\ disk' = disk
    BY KindFrom DEF Request, Go, Requesting
  <1>3. /\ at'[o] \in 1..Len(cmd[o].ids) /\ \A p \in Op \ {o} : at'[p] = at[p]
        /\ at' \in [Op -> Nat]
    <2>1. at \in [Op -> Nat] /\ at[o] \in 1..Len(cmd[o].ids) /\ Len(cmd[o].ids) \in Nat
      BY Kinds, ClusterType DEF CommandType
    <2>2. CASE at' = at
      BY <2>1, <2>2
    <2>3. CASE at' = [at EXCEPT ![o] = @ + 1] /\ at[o] < Len(cmd[o].ids)
      BY <2>1, <2>3
    <2>4. QED
      BY <2>2, <2>3
  <1>4. pc' = [pc EXCEPT ![o] = next]
    BY DEF Request, Go
  <1>5. QED
    BY <1>1, <1>2, <1>3, <1>4, ClusterType, TypeStep DEF Requesting

LEMMA RequestsType ==
    ASSUME TypeInv, [Next]_vars, NEW o \in Op,
           AddNode(o) \/ Promote(o) \/ Assign(o) \/ Transfer(o) \/ Remove(o)
    PROVE  TypeInv'
  <1>1. CASE AddNode(o)
    <2>1. pc[o] = "adding" /\ cmd[o].kind = "add"
      BY <1>1, KindFrom DEF AddNode, Request, Go
    <2>2. Added(o) \in {"start", "promoting", "ok"} /\ Added(o) \in Steps(cmd[o].kind)
      BY <2>1 DEF Added, Steps
    <2>3. QED
      BY <1>1, <2>1, <2>2, RequestType DEF AddNode, Requesting
  <1>2. CASE Promote(o)
    <2>1. cmd[o].kind = "add"
      BY <1>2, KindFrom DEF Promote, Request, Go
    <2>2. QED
      BY <1>2, <2>1, RequestType DEF Promote, Requesting, Steps
  <1>3. CASE Assign(o)
    <2>1. cmd[o].kind = "assign"
      BY <1>3, KindFrom DEF Assign, Request, Go
    <2>2. QED
      BY <1>3, <2>1, RequestType DEF Assign, Requesting, Steps
  <1>4. CASE Transfer(o)
    <2>1. cmd[o].kind = "transfer"
      BY <1>4, KindFrom DEF Transfer, Request, Go
    <2>2. QED
      BY <1>4, <2>1, RequestType DEF Transfer, Requesting, Steps
  <1>5. CASE Remove(o)
    <2>1. cmd[o].kind = "remove"
      BY <1>5, KindFrom DEF Remove, Request, Go
    <2>2. QED
      BY <1>5, <2>1, RequestType DEF Remove, Requesting, Steps
  <1>6. QED
    BY <1>1, <1>2, <1>3, <1>4, <1>5

(* The steps that ask nothing of the cluster.                              *)
LEMMA QuietType ==
    ASSUME TypeInv, [Next]_vars, NEW o \in Op,
           FindLeader(o) \/ Fail(o) \/ GetMembers(o) \/ AskLeader(o)
    PROVE  TypeInv'
  <1> USE DEF TypeInv
  <1>1. UNCHANGED <<members, leader, version, disk, snap, at>>
    BY DEF FindLeader, Fail, GetMembers, AskLeader, cluster
  <1>2. at[o] \in 1..(IF cmd[o].kind = "dump" THEN 2 ELSE Len(cmd[o].ids))
    BY DEF TypeOK
  <1>3. CASE FindLeader(o)
    <2>1. /\ First[cmd[o].kind] \in {"checking", "assigning", "asking", "removing", "dumping"}
          /\ First[cmd[o].kind] \in Steps(cmd[o].kind)
      BY KindFrom DEF First, Steps
    <2>2. late' = late /\ late[o] = "none" /\ pc' = [pc EXCEPT ![o] = First[cmd[o].kind]]
      BY <1>3, KindFrom DEF FindLeader, Go
    <2>3. QED
      BY <1>1, <1>2, <2>1, <2>2, ClusterType, TypeStep DEF Requesting
  <1>4. CASE Fail(o)
    <2>1. pc' = [pc EXCEPT ![o] = "err"] /\ "err" \in Steps(cmd[o].kind)
      BY <1>4 DEF Fail, Go, Steps
    <2>2. /\ \A p \in Op \ {o} : late'[p] = late[p]
          /\ late' \in [Op -> {"none"} \cup Requesting]
          /\ late'[o] \in {"none"} \cup Steps(cmd[o].kind)
      BY <1>4 DEF Fail, TypeOK, InPlace
    <2>3. QED
      BY <1>1, <1>2, <2>1, <2>2, ClusterType, TypeStep
  <1>5. CASE GetMembers(o)
    <2>1. PICK m : Go(o, "checking", Check(m, o))
      BY <1>5 DEF GetMembers
    <2>2. Check(m, o) \in {"adding", "ok", "err"} /\ cmd[o].kind = "add"
      BY <2>1, KindFrom DEF Check, Go
    <2>3. /\ pc' = [pc EXCEPT ![o] = Check(m, o)] /\ late' = late /\ late[o] = "none"
          /\ Check(m, o) \in Steps(cmd[o].kind)
      BY <1>5, <2>1, <2>2, KindFrom DEF GetMembers, Go, Steps
    <2>4. QED
      BY <1>1, <1>2, <2>2, <2>3, ClusterType, TypeStep DEF Requesting
  <1>6. CASE AskLeader(o)
    <2>1. /\ pc' = [pc EXCEPT ![o] = "transferring"] /\ late' = late /\ late[o] = "none"
          /\ "transferring" \in Steps(cmd[o].kind)
      BY <1>6, KindFrom DEF AskLeader, Go, Steps
    <2>2. QED
      BY <1>1, <1>2, <2>1, ClusterType, TypeStep DEF Requesting
  <1>7. QED
    BY <1>3, <1>4, <1>5, <1>6

LEMMA LateType ==
    ASSUME TypeInv, [Next]_vars, NEW o \in Op, CarriedOutLate(o)
    PROVE  TypeInv'
  <1> USE DEF TypeInv
  <1>1. late[o] \in Requesting /\ cmd[o].kind # "dump" /\ pc[o] = "err"
    BY KindFrom DEF CarriedOutLate, Requesting
  <1>2. /\ members' \in Members(DOMAIN members') /\ DOMAIN members' \subseteq Node
        /\ leader' \in {0} \cup Voters(members') /\ version' = version
    BY <1>1, CarriedOutType DEF CarriedOutLate
  <1>3. /\ pc' = [pc EXCEPT ![o] = "err"] /\ at' = at /\ snap' = snap /\ disk' = disk
        /\ late'[o] = "none" /\ \A p \in Op \ {o} : late'[p] = late[p]
        /\ late' \in [Op -> {"none"} \cup Requesting]
    BY <1>1 DEF CarriedOutLate, TypeOK
  <1>4. "err" \in Steps(cmd[o].kind) /\ at[o] \in 1..(IF cmd[o].kind = "dump" THEN 2 ELSE Len(cmd[o].ids))
    BY DEF Steps, TypeOK
  <1>5. QED
    BY <1>2, <1>3, <1>4, ClusterType, TypeStep

LEMMA DumpType ==
    ASSUME TypeInv, [Next]_vars, NEW o \in Op, Fetch(o) \/ Create(o) \/ Write(o)
    PROVE  TypeInv'
  <1> USE DEF TypeInv
  <1>1. cmd[o].kind = "dump" /\ late[o] = "none" /\ late' = late
    BY KindFrom DEF Fetch, Create, Write, Go
  <1>2. UNCHANGED <<members, leader, version>> /\ at[o] \in 1..2
    BY <1>1 DEF Fetch, Create, Write, cluster, TypeOK
  <1>3. {"creating", "writing", "ok"} \subseteq Steps(cmd[o].kind)
    BY <1>1 DEF Steps
  <1>4. CASE Fetch(o)
    <2>1. PICK v \in (Old + 1)..version : snap' = [snap EXCEPT ![o] = v]
      BY <1>4 DEF Fetch
    <2>2. snap' \in [Op -> 0..version] /\ snap'[o] # Cut
      BY <2>1, ClusterType DEF Old, Cut
    <2>3. /\ pc' = [pc EXCEPT ![o] = "creating"] /\ at' = at /\ disk' = disk
          /\ \A p \in Op \ {o} : snap'[p] = snap[p]
      BY <1>4, <2>1, ClusterType DEF Fetch, Go
    <2>4. QED
      BY <1>1, <1>2, <1>3, <2>2, <2>3, ClusterType, TypeStep
  <1>5. CASE Create(o)
    <2>1. disk' = [disk EXCEPT ![at[o]] = Cut] /\ Cut \in 0..version
      BY <1>5, ClusterType DEF Create, Put, Cut
    <2>2. disk' \in [Files -> 0..version]
      BY <2>1, <1>2, ClusterType DEF Files
    <2>3. /\ pc' = [pc EXCEPT ![o] = "writing"] /\ at' = at /\ snap' = snap
          /\ snap[o] # Cut
      BY <1>5 DEF Create, Go, InPlace
    <2>4. QED
      BY <1>1, <1>2, <1>3, <2>2, <2>3, ClusterType, TypeStep
  <1>6. CASE Write(o)
    <2>1. disk' \in [Files -> 0..version]
      BY <1>6, ClusterType DEF Write, Put
    <2>2. snap' = snap /\ snap[o] # Cut
      BY <1>6 DEF Write, Go, InPlace
    <2>3. at' = at \/ (at' = [at EXCEPT ![o] = @ + 1] /\ at[o] + 1 \in 1..2)
      BY <1>6 DEF Write, Files
    <2>4. /\ at'[o] \in 1..2 /\ at' \in [Op -> Nat]
          /\ \A p \in Op \ {o} : at'[p] = at[p]
      <3>1. CASE at' = at
        BY <1>2, <3>1, ClusterType
      <3>2. CASE at' = [at EXCEPT ![o] = @ + 1] /\ at[o] + 1 \in 1..2
        BY <1>2, <3>2, ClusterType
      <3>3. QED
        BY <2>3, <3>1, <3>2
    <2>5. PICK to \in {"creating", "ok"} : pc' = [pc EXCEPT ![o] = to]
      BY <1>6 DEF Write, Go
    <2>6. QED
      BY <1>1, <1>2, <1>3, <2>1, <2>2, <2>4, <2>5, ClusterType, TypeStep
  <1>7. QED
    BY <1>4, <1>5, <1>6

LEMMA TypeNext == TypeInv /\ [Next]_vars => TypeInv'
  <1> SUFFICES ASSUME TypeInv, [Next]_vars PROVE TypeInv'
    OBVIOUS
  <1>1. cmd' = cmd /\ Node' = Node
    BY CmdStays DEF Node
  <1>2. CASE Elect \/ WriteDatabase \/ UNCHANGED vars
    <2>1. /\ UNCHANGED <<members, disk, snap, at, late, pc>>
          /\ leader' \in {0} \cup Voters(members)
          /\ version' \in {version, version + 1} /\ version' \in (Old + 1)..MaxVersion
      BY <1>2, ClusterType DEF Elect, WriteDatabase, vars, TypeInv, Old
    <2>2. disk' \in [Files -> 0..version'] /\ snap' \in [Op -> 0..version']
      BY <2>1, ClusterType DEF TypeInv
    <2>3. TypeOK'
      BY <1>1, <2>1, <2>2, KnownStep DEF TypeInv, TypeOK, KnownTyped
    <2>4. InPlace'
      BY <1>1, <2>1 DEF TypeInv, InPlace
    <2>5. QED
      BY <2>3, <2>4 DEF TypeInv
  <1>3. QED
    BY <1>1, <1>2, RequestsType, QuietType, LateType, DumpType DEF Next, Step

(* The members, their roles and the leader are well typed: whatever order  *)
(* requests are carried out in, the leader is a voter.                     *)
THEOREM TypeCorrect == Spec => []TypeOK
  <1>1. TypeInv => TypeOK
    BY DEF TypeInv
  <1>2. QED
    BY <1>1, TypeInit, TypeNext, PTL DEF Spec

------------------------------------------------------------------------------
(* What a step does to the members, and to the commands.                   *)

(* Where a command that has one id is.                                     *)
LEMMA OneId ==
    ASSUME TypeInv, NEW o \in Op, cmd[o].kind \in {"add", "transfer", "remove"}
    PROVE  at[o] = 1 /\ Id(o) = cmd[o].ids[1] /\ \A n : About(o, n) <=> n = Id(o)
  <1>1. CommandType(cmd[o]) /\ at[o] \in 1..Len(cmd[o].ids)
    BY Kinds DEF TypeInv
  <1>2. Len(cmd[o].ids) = 1
    BY <1>1 DEF CommandType
  <1>3. at[o] = 1
    BY <1>1, <1>2
  <1>4. QED
    BY <1>2, <1>3 DEF Id, About

LEMMA IdStays ==
    ASSUME TypeInv, [Next]_vars, NEW o \in Op, cmd[o].kind \in {"add", "transfer", "remove"}
    PROVE  Id(o)' = Id(o)
  <1>1. TypeInv' /\ cmd' = cmd
    BY TypeNext, CmdStays
  <1>2. at[o] = 1 /\ at'[o] = 1
    <2>1. at[o] = 1
      BY OneId
    <2>2. at'[o] = 1
      <3>1. /\ Len(cmd[o].ids) = 1
            /\ at'[o] \in 1..Len(cmd[o].ids)
        BY <1>1, Kinds DEF TypeInv, TypeOK, CommandType
      <3>2. QED
        BY <3>1
    <2>3. QED
      BY <2>1, <2>2
  <1>3. QED
    BY <1>1, <1>2 DEF Id

(* A command that has moved has done one of its own steps.                 *)
LEMMA Others ==
    ASSUME TypeInv, [Next]_vars, NEW p \in Op,
           pc'[p] # pc[p] \/ at'[p] # at[p] \/ snap'[p] # snap[p]
    PROVE  /\ Step(p)
           /\ \A q \in Op \ {p} : pc'[q] = pc[q] /\ at'[q] = at[q] /\ snap'[q] = snap[q]
  <1>1. ~ (Elect \/ WriteDatabase \/ UNCHANGED vars)
    BY DEF Elect, WriteDatabase, vars
  <1>2. PICK o \in Op : Step(o)
    BY <1>1 DEF Next
  <1>3. pc \in [Op -> {"start", "checking", "asking", "dumping", "creating",
                       "writing", "ok", "err"} \cup Requesting]
        /\ at \in [Op -> Nat] /\ snap \in [Op -> 0..version]
    BY DEF TypeInv, TypeOK
  <1>4. /\ \E to : pc' = [pc EXCEPT ![o] = to]
        /\ at' = at \/ \E k : at' = [at EXCEPT ![o] = k]
        /\ snap' = snap \/ \E v : snap' = [snap EXCEPT ![o] = v]
    <2>1. CASE CarriedOutLate(o)
      <3>1. pc' = [pc EXCEPT ![o] = pc[o]] /\ at' = at /\ snap' = snap
        BY <1>3, <2>1 DEF CarriedOutLate
      <3>2. QED
        BY <3>1
    <2>2. CASE ~ CarriedOutLate(o)
      BY <1>2, <2>2 DEF Step, FindLeader, Fail, GetMembers, AddNode, Promote,
             Assign, AskLeader, Transfer, Remove, Request, Fetch, Create, Write, Go
    <2>3. QED
      BY <2>1, <2>2
  <1>5. \A q \in Op \ {o} : pc'[q] = pc[q] /\ at'[q] = at[q] /\ snap'[q] = snap[q]
    BY <1>3, <1>4
  <1>6. QED
    BY <1>2, <1>5
(* How the record of a node n may change: not at all, or because a command *)
(* about it adds it, gives it a role or removes it.                        *)
AddedBy(o, n) ==
    /\ cmd[o].kind = "add" /\ Id(o) = n
    /\ n \notin DOMAIN members /\ n \in DOMAIN members'
    /\ members'[n] = [addr |-> cmd[o].addr, role |-> "spare"]
    /\ pc'[o] = Added(o) \/ pc'[o] = "err"

GivenRoleBy(o, n) ==
    /\ cmd[o].kind \in {"add", "assign"} /\ Id(o) = n
    /\ n \in DOMAIN members /\ n \in DOMAIN members'
    /\ members'[n] = [members[n] EXCEPT !.role = cmd[o].role]

RemovedBy(o, n) ==
    /\ cmd[o].kind = "remove" /\ Id(o) = n
    /\ n \notin DOMAIN members' /\ pc'[o] # "start"

SameRecord(n) ==
    /\ n \in DOMAIN members <=> n \in DOMAIN members'
    /\ n \in DOMAIN members => members'[n] = members[n]

LEMMA RequestChanges ==
    ASSUME TypeInv, [Next]_vars, NEW o \in Op, NEW s \in Requesting, CarriedOut(o, s),
           \/ s = pc[o] /\ (s = "adding" => pc'[o] = Added(o))
           \/ s = late[o] /\ pc'[o] = "err",
           pc'[o] = "ok" \/ cmd[o].kind # "remove" \/ pc'[o] = "err",
           NEW n
    PROVE  SameRecord(n) \/ AddedBy(o, n) \/ GivenRoleBy(o, n) \/ RemovedBy(o, n)
  <1>1. members \in Members(DOMAIN members)
    BY DEF TypeInv, TypeOK
  <1>2. CASE Led(o)
    BY <1>2 DEF Led, SameRecord
  <1>3. CASE s = "adding" /\ AsSpare(o)
    <2>1. cmd[o].kind = "add" /\ (pc'[o] = Added(o) \/ pc'[o] = "err")
      BY <1>3, KindFrom
    <2>2. Id(o) \notin DOMAIN members
          /\ members' = [m \in DOMAIN members \cup {Id(o)} |->
                 IF m = Id(o) THEN [addr |-> cmd[o].addr, role |-> "spare"]
                              ELSE members[m]]
      BY <1>3 DEF AsSpare, Become
    <2>3. QED
      BY <2>1, <2>2 DEF SameRecord, AddedBy
  <1>4. CASE s \in {"promoting", "assigning"} /\ WithRole(o, cmd[o].role)
    <2>1. cmd[o].kind \in {"add", "assign"}
      BY <1>4, KindFrom
    <2>2. Id(o) \in DOMAIN members /\ members' = [members EXCEPT ![Id(o)].role = cmd[o].role]
      BY <1>4 DEF WithRole, Become
    <2>3. QED
      BY <1>1, <2>1, <2>2 DEF SameRecord, GivenRoleBy, Members
  <1>5. CASE s = "removing" /\ Without(o)
    <2>1. cmd[o].kind = "remove" /\ pc'[o] # "start"
      BY <1>5, KindFrom
    <2>2. members' = [m \in DOMAIN members \ {Id(o)} |-> members[m]]
      BY <1>5 DEF Without, Become
    <2>3. QED
      BY <2>1, <2>2 DEF SameRecord, RemovedBy
  <1>6. QED
    BY <1>2, <1>3, <1>4, <1>5, CarriedOutIs

LEMMA MembersChange ==
    ASSUME TypeInv, [Next]_vars, NEW n
    PROVE  SameRecord(n) \/ \E o \in Op : AddedBy(o, n) \/ GivenRoleBy(o, n) \/ RemovedBy(o, n)
  <1>1. CASE members' = members
    BY <1>1 DEF SameRecord
  <1>2. CASE members' # members
    <2>1. PICK o \in Op : \/ CarriedOutLate(o) \/ AddNode(o) \/ Promote(o)
                          \/ Assign(o) \/ Transfer(o) \/ Remove(o)
      BY <1>2 DEF Next, Elect, WriteDatabase, vars, Step, FindLeader, Fail,
             GetMembers, AskLeader, Fetch, Create, Write, cluster
    <2>2. pc \in [Op -> {"start", "checking", "asking", "dumping", "creating",
                         "writing", "ok", "err"} \cup Requesting]
      BY DEF TypeInv, TypeOK
    <2>3. CASE CarriedOutLate(o)
      <3>1. late[o] \in Requesting /\ pc'[o] = "err" /\ CarriedOut(o, late[o])
        BY <2>3, KindFrom DEF CarriedOutLate
      <3>2. QED
        BY <3>1, RequestChanges
    <2>4. CASE AddNode(o)
      <3>1. pc[o] = "adding" /\ pc'[o] = Added(o) /\ CarriedOut(o, "adding")
        BY <2>2, <2>4 DEF AddNode, Request, Go
      <3>2. cmd[o].kind # "remove"
        BY <3>1, KindFrom
      <3>3. QED
        BY <3>1, <3>2, RequestChanges DEF Requesting
    <2>5. CASE Promote(o)
      <3>1. pc[o] = "promoting" /\ pc'[o] = "ok" /\ CarriedOut(o, "promoting")
        BY <2>2, <2>5 DEF Promote, Request, Go
      <3>2. QED
        BY <3>1, RequestChanges DEF Requesting
    <2>6. CASE Assign(o)
      <3>1. pc[o] = "assigning" /\ CarriedOut(o, "assigning")
        BY <2>6 DEF Assign, Request, Go
      <3>2. cmd[o].kind # "remove"
        BY <3>1, KindFrom
      <3>3. QED
        BY <3>1, <3>2, RequestChanges DEF Requesting
    <2>7. CASE Transfer(o)
      <3>1. pc[o] = "transferring" /\ pc'[o] = "ok" /\ CarriedOut(o, "transferring")
        BY <2>2, <2>7 DEF Transfer, Request, Go
      <3>2. QED
        BY <3>1, RequestChanges DEF Requesting
    <2>8. CASE Remove(o)
      <3>1. pc[o] = "removing" /\ pc'[o] = "ok" /\ CarriedOut(o, "removing")
        BY <2>2, <2>8 DEF Remove, Request, Go
      <3>2. QED
        BY <3>1, RequestChanges DEF Requesting
    <2>9. QED
      BY <2>1, <2>3, <2>4, <2>5, <2>6, <2>7, <2>8
  <1>3. QED
    BY <1>1, <1>2
(* Where a command comes from.                                             *)
LEMMA Moves ==
    ASSUME TypeInv, [Next]_vars, NEW o \in Op
    PROVE  /\ pc[o] = "err" => pc'[o] = "err"
           /\ pc[o] = "ok" => pc'[o] \in {"ok", "err"}
           /\ pc[o] = "promoting" => pc'[o] \in {"promoting", "err"} \/ Promote(o)
           /\ pc'[o] = "checking" /\ pc[o] # "checking" => FindLeader(o)
           /\ pc'[o] = "promoting" /\ pc[o] # "promoting" => AddNode(o)
           /\ pc'[o] = "ok" /\ pc[o] # "ok" => GetMembers(o) \/ AddNode(o) \/ Promote(o)
                 \/ Assign(o) \/ Transfer(o) \/ Remove(o) \/ Write(o)
           /\ pc'[o] = "start" /\ pc[o] # "start" => Assign(o)
  <1>1. CASE pc'[o] = pc[o]
    BY <1>1
  <1>2. CASE pc'[o] # pc[o]
    <2>1. Step(o)
      BY <1>2, Others
    <2>2. /\ pc[o] \in Steps(cmd[o].kind) /\ pc'[o] \in Steps(cmd[o].kind)
          /\ cmd[o].kind \in {"add", "assign", "transfer", "remove", "dump"}
      BY TypeNext, CmdStays, KindFrom DEF TypeInv, InPlace
    <2>3. pc \in [Op -> {"start", "checking", "asking", "dumping", "creating",
                         "writing", "ok", "err"} \cup Requesting]
      BY DEF TypeInv, TypeOK
    <2>4. CASE FindLeader(o)
      BY <1>2, <2>2, <2>3, <2>4 DEF FindLeader, Go, First
    <2>5. CASE Fail(o)
      BY <1>2, <2>3, <2>5 DEF Fail, Go
    <2>6. CASE GetMembers(o)
      BY <1>2, <2>3, <2>6 DEF GetMembers, Check, Go
    <2>7. CASE AddNode(o) \/ Promote(o) \/ Assign(o) \/ Transfer(o) \/ Remove(o)
      BY <1>2, <2>3, <2>7 DEF AddNode, Promote, Assign, Transfer, Remove, Request, Added, Go
    <2>8. CASE CarriedOutLate(o) \/ AskLeader(o) \/ Fetch(o) \/ Create(o) \/ Write(o)
      BY <1>2, <2>3, <2>8 DEF CarriedOutLate, AskLeader, Fetch, Create, Write, Go
    <2>9. QED
      BY <2>1, <2>4, <2>5, <2>6, <2>7, <2>8 DEF Step
  <1>3. QED
    BY <1>1, <1>2

------------------------------------------------------------------------------
(* Roles.                                                                  *)

Pending(o) == cmd[o].kind # "add" \/ pc[o] \in {"err", "promoting"}

Roles(n) == {cmd[o].role : o \in {p \in Op : About(p, n)}}
                \cup (IF n \in DOMAIN Cluster THEN {Cluster[n].role} ELSE {})

RolesStand == \A n \in DOMAIN members :
    members[n].role \in Roles(n) \/ \E o \in Op : About(o, n) /\ Pending(o)

LEMMA IdAbout ==
    ASSUME TypeInv, NEW o \in Op, cmd[o].kind # "dump" PROVE About(o, Id(o))
  BY Kinds DEF TypeInv

LEMMA RolesNext == TypeInv /\ RolesStand /\ [Next]_vars => RolesStand'
  <1> SUFFICES ASSUME TypeInv, RolesStand, [Next]_vars, NEW n, n \in DOMAIN members'
               PROVE  members'[n].role \in Roles(n)' \/ \E o \in Op : (About(o, n) /\ Pending(o))'
    BY DEF RolesStand
  <1>1. cmd' = cmd /\ Roles(n)' = Roles(n) /\ \A o \in Op : About(o, n)' = About(o, n)
    BY CmdStays DEF Roles, About
  <1>2. CASE SameRecord(n)
    <2>1. n \in DOMAIN members /\ members'[n] = members[n]
      BY <1>2 DEF SameRecord
    <2>2. CASE members[n].role \in Roles(n)
      BY <1>1, <2>1, <2>2
    <2>3. CASE \E o \in Op : About(o, n) /\ Pending(o)
      <3>1. PICK o \in Op : About(o, n) /\ Pending(o)
        BY <2>3
      <3>2. CASE Pending(o)'
        BY <1>1, <3>1, <3>2
      <3>3. CASE ~ Pending(o)'
        <4>1. cmd[o].kind = "add" /\ Promote(o)
          BY <1>1, <3>1, <3>3, Moves DEF Pending
        <4>2. Id(o) = n /\ WithRole(o, cmd[o].role)
          BY <3>1, <4>1, OneId DEF Promote, Request, CarriedOut
        <4>3. members'[n].role = cmd[o].role
          BY <2>1, <4>2, ClusterType DEF WithRole, Become, TypeInv, Members
        <4>4. QED
          BY <1>1, <3>1, <4>3 DEF Roles
      <3>4. QED
        BY <3>2, <3>3
    <2>4. QED
      BY <2>1, <2>2, <2>3 DEF RolesStand
  <1>3. ASSUME NEW o \in Op, AddedBy(o, n)
        PROVE  members'[n].role \in Roles(n)' \/ \E p \in Op : (About(p, n) /\ Pending(p))'
    <2>1. About(o, n) /\ cmd[o].kind = "add" /\ members'[n].role = "spare"
      BY <1>3, IdAbout DEF AddedBy
    <2>2. CASE cmd[o].role = "spare"
      BY <1>1, <2>1, <2>2 DEF Roles
    <2>3. CASE cmd[o].role # "spare"
      <3>1. pc'[o] \in {"promoting", "err"}
        BY <1>3, <2>3 DEF AddedBy, Added
      <3>2. QED
        BY <1>1, <2>1, <3>1 DEF Pending
    <2>4. QED
      BY <2>2, <2>3
  <1>4. ASSUME NEW o \in Op, GivenRoleBy(o, n)
        PROVE  members'[n].role \in Roles(n)'
    <2>1. About(o, n)
      BY <1>4, IdAbout DEF GivenRoleBy
    <2>2. members'[n].role = cmd[o].role
      BY <1>4, ClusterType DEF GivenRoleBy, TypeInv, Members
    <2>3. QED
      BY <1>1, <2>1, <2>2 DEF Roles
  <1>5. QED
    BY <1>2, <1>3, <1>4, MembersChange DEF RemovedBy

(* When the commands about a node are adds that have all reported success, *)
(* the node has a role one of them, or the cluster before, gave it.        *)
THEOREM RoleSettledAlways == Spec => []RoleSettled
  <1>1. Init => RolesStand
    BY DEF Init, RolesStand, Roles
  <1>2. RolesStand => RoleSettled
    <2> SUFFICES ASSUME RolesStand, NEW n \in DOMAIN members,
                        \A o \in Op : About(o, n) => cmd[o].kind = "add" /\ pc[o] = "ok"
                 PROVE  members[n].role \in Roles(n)
      BY DEF RoleSettled, Roles
    <2>1. ~ \E o \in Op : About(o, n) /\ Pending(o)
      BY DEF Pending
    <2>2. QED
      BY <2>1 DEF RolesStand
  <1>3. QED
    BY <1>1, <1>2, RolesNext, TypeInit, TypeNext, PTL DEF Spec

------------------------------------------------------------------------------
(* Adds.                                                                   *)

Gone(n) == \E p \in Op : cmd[p].kind = "remove" /\ Id(p) = n /\ pc[p] # "start"

Holds(n, a) == (n \in DOMAIN members /\ members[n].addr = a) \/ Gone(n)

AddsStand == \A o \in Op : cmd[o].kind = "add" =>
    /\ pc[o] \in {"promoting", "ok"} => Holds(Id(o), cmd[o].addr)
    /\ pc[o] = "checking" => \A n \in DOMAIN known[o] : Holds(n, known[o][n].addr)

LEMMA HoldsOn ==
    ASSUME TypeInv, [Next]_vars, NEW n, NEW a, Holds(n, a)
    PROVE  Holds(n, a)'
  <1>1. cmd' = cmd
    BY CmdStays
  <1>2. CASE Gone(n)
    <2>1. PICK p \in Op : cmd[p].kind = "remove" /\ Id(p) = n /\ pc[p] # "start"
      BY <1>2 DEF Gone
    <2>2. Id(p)' = n
      BY <2>1, IdStays
    <2>3. pc'[p] # "start"
      <3>1. ~ Assign(p)
        BY <2>1, KindFrom DEF Assign, Request, Go
      <3>2. QED
        BY <2>1, <3>1, Moves
    <2>4. QED
      BY <1>1, <2>1, <2>2, <2>3 DEF Holds, Gone
  <1>3. CASE n \in DOMAIN members /\ members[n].addr = a
    <2>1. CASE SameRecord(n)
      BY <1>3, <2>1 DEF SameRecord, Holds
    <2>2. ASSUME NEW o \in Op, AddedBy(o, n) \/ GivenRoleBy(o, n)
          PROVE  Holds(n, a)'
      BY <1>3, <2>2, ClusterType DEF AddedBy, GivenRoleBy, TypeInv, Members, Holds
    <2>3. ASSUME NEW o \in Op, RemovedBy(o, n)
          PROVE  Holds(n, a)'
      <3>1. Id(o)' = n
        BY <2>3, IdStays DEF RemovedBy
      <3>2. QED
        BY <1>1, <2>3, <3>1 DEF RemovedBy, Holds, Gone
    <2>4. QED
      BY <2>1, <2>2, <2>3, MembersChange
  <1>4. QED
    BY <1>2, <1>3 DEF Holds

(* Only a command itself changes what it knows of the members.             *)
LEMMA KnownOf ==
    ASSUME TypeInv, [Next]_vars, NEW o \in Op, ~ (FindLeader(o) \/ GetMembers(o))
    PROVE  known'[o] = known[o]
  <1>1. known = [p \in Op |-> known[p]]
    BY DEF TypeInv, TypeOK
  <1>2. CASE UNCHANGED known
    BY <1>2
  <1>3. CASE ~ UNCHANGED known
    <2>1. PICK p \in Op : FindLeader(p) \/ GetMembers(p)
      BY <1>3 DEF Next, Elect, WriteDatabase, vars, Step, Fail, CarriedOutLate,
             AddNode, Promote, Assign, AskLeader, Transfer, Remove, Request,
             Fetch, Create, Write
    <2>2. p # o /\ \E m : known' = [known EXCEPT ![p] = m]
      BY <2>1 DEF FindLeader, GetMembers
    <2>3. QED
      BY <1>1, <2>2
  <1>4. QED
    BY <1>2, <1>3

LEMMA AddsNext == TypeInv /\ AddsStand /\ [Next]_vars => AddsStand'
  <1> SUFFICES ASSUME TypeInv, AddsStand, [Next]_vars, NEW o \in Op, cmd'[o].kind = "add"
               PROVE  /\ pc'[o] \in {"promoting", "ok"} => Holds(Id(o), cmd[o].addr)'
                      /\ pc'[o] = "checking" =>
                            \A n \in DOMAIN known'[o] : Holds(n, known[o][n].addr)'
    BY DEF AddsStand
  <1>1. cmd' = cmd /\ cmd[o].kind = "add"
    BY CmdStays
  <1>2. Id(o)' = Id(o)
    BY <1>1, IdStays
  <1>3. pc \in [Op -> {"start", "checking", "asking", "dumping", "creating",
                       "writing", "ok", "err"} \cup Requesting]
    BY DEF TypeInv, TypeOK
  <1>4. ASSUME pc'[o] \in {"promoting", "ok"}
        PROVE  Holds(Id(o), cmd[o].addr)'
    <2>1. CASE pc[o] \in {"promoting", "ok"}
      <3>1. Holds(Id(o), cmd[o].addr)
        BY <1>1, <2>1 DEF AddsStand
      <3>2. QED
        BY <1>1, <1>2, <3>1, HoldsOn DEF Holds, Gone
    <2>2. CASE pc[o] \notin {"promoting", "ok"} /\ GetMembers(o)
      <3>1. PICK m \in {members} \cup (IF conn[o] = leader THEN {} ELSE {known[o]}) :
                Go(o, "checking", Check(m, o))
        BY <2>2 DEF GetMembers
      <3>2. pc[o] = "checking" /\ Check(m, o) = "ok"
        BY <1>3, <1>4, <3>1 DEF Go, Check
      <3>3. Id(o) \in DOMAIN m /\ m[Id(o)].addr = cmd[o].addr
        BY <3>2 DEF Check
      <3>4. Holds(Id(o), cmd[o].addr)
        BY <1>1, <3>1, <3>2, <3>3 DEF AddsStand, Holds
      <3>5. QED
        BY <1>1, <1>2, <3>4, HoldsOn DEF Holds, Gone
    <2>3. CASE AddNode(o)
      <3>1. AsSpare(o)
        BY <2>3 DEF AddNode, Request, CarriedOut
      <3>2. Id(o) \in DOMAIN members' /\ members'[Id(o)].addr = cmd[o].addr
        BY <3>1 DEF AsSpare, Become
      <3>3. QED
        BY <1>1, <1>2, <3>2 DEF Holds
    <2>4. CASE pc[o] \notin {"promoting", "ok"} /\ ~ GetMembers(o)
      <3>1. AddNode(o) \/ Promote(o) \/ Assign(o) \/ Transfer(o) \/ Remove(o) \/ Write(o)
        BY <1>4, <2>4, Moves
      <3>2. ~ (Promote(o) \/ Assign(o) \/ Transfer(o) \/ Remove(o) \/ Write(o))
        BY <1>1, <2>4, KindFrom DEF Promote, Assign, Transfer, Remove, Write, Request, Go
      <3>3. QED
        BY <2>3, <3>1, <3>2
    <2>5. QED
      BY <2>1, <2>2, <2>4
  <1>5. ASSUME pc'[o] = "checking", NEW n \in DOMAIN known'[o]
        PROVE  Holds(n, known[o][n].addr)'
    <2>1. CASE pc[o] = "checking"
      <3>1. known'[o] = known[o]
        <4>1. ~ (FindLeader(o) \/ GetMembers(o))
          BY <1>3, <1>5, <2>1 DEF FindLeader, GetMembers, Check, Go
        <4>2. QED
          BY <4>1, KnownOf
      <3>2. QED
        BY <1>1, <1>5, <2>1, <3>1, HoldsOn DEF AddsStand, Holds
    <2>2. CASE pc[o] # "checking"
      <3>1. FindLeader(o)
        BY <1>5, <2>2, Moves
      <3>2. known'[o] = members /\ members' = members
        BY <1>1, <3>1 DEF FindLeader, cluster, TypeInv, TypeOK
      <3>3. QED
        BY <1>5, <3>2 DEF Holds
    <2>3. QED
      BY <2>1, <2>2
  <1>6. QED
    BY <1>4, <1>5

(* An add that has reported success leaves the node a member under the     *)
(* address it was given, unless a command removes the node.                *)
THEOREM AddedIsMemberAlways == Spec => []AddedIsMember
  <1>1. Init => AddsStand
    BY DEF Init, AddsStand
  <1>2. AddsStand => AddedIsMember
    BY DEF AddsStand, AddedIsMember, Holds, Gone
  <1>3. QED
    BY <1>1, <1>2, AddsNext, TypeInit, TypeNext, PTL DEF Spec
------------------------------------------------------------------------------
(* Assigns.                                                                *)

(* A node that one assign is about, once, and no other command.            *)
Sole(o, k) ==
    LET ids == cmd[o].ids
    IN  /\ cmd[o].kind = "assign" /\ k \in 1..Len(ids) /\ ids[k] \in DOMAIN Cluster
        /\ \A p \in Op \ {o} : ~ About(p, ids[k])
        /\ \A j \in 1..Len(ids) : j # k => ids[j] # ids[k]

AssignsStand == \A o \in Op : \A k \in 1..Len(cmd[o].ids) :
    /\ cmd[o].kind = "assign" /\ pc[o] = "ok" => at[o] = Len(cmd[o].ids)
    /\ Sole(o, k) =>
        LET n == cmd[o].ids[k]
        IN  /\ n \in DOMAIN members
            /\ k < at[o] \/ pc[o] = "ok" => members[n].role = cmd[o].role
            /\ k > at[o] => members[n] = Cluster[n]

(* Only that assign, at that place, touches the record of the node.        *)
LEMMA SoleChange ==
    ASSUME TypeInv, [Next]_vars, NEW o \in Op, NEW k, Sole(o, k)
    PROVE  LET n == cmd[o].ids[k]
           IN  SameRecord(n) \/ (k = at[o] /\ GivenRoleBy(o, n))
  <1> DEFINE n == cmd[o].ids[k]
  <1>1. ASSUME NEW p \in Op, AddedBy(p, n) \/ GivenRoleBy(p, n) \/ RemovedBy(p, n)
        PROVE  k = at[o] /\ GivenRoleBy(o, n)
    <2>1. cmd[p].kind # "dump" /\ Id(p) = n
      BY <1>1 DEF AddedBy, GivenRoleBy, RemovedBy
    <2>2. About(p, n)
      BY <2>1, IdAbout
    <2>3. p = o
      BY <2>2 DEF Sole
    <2>4. at[o] \in 1..Len(cmd[o].ids) /\ cmd[o].ids[at[o]] = n
      BY <2>1, <2>3, Kinds DEF TypeInv, Id
    <2>5. k = at[o]
      BY <2>4 DEF Sole
    <2>6. QED
      BY <1>1, <2>3, <2>5 DEF Sole, AddedBy, RemovedBy
  <1>2. QED
    BY <1>1, MembersChange

(* A step of an assign, or none: where it is and what it has done.         *)
LEMMA AssignMoves ==
    ASSUME TypeInv, [Next]_vars, NEW o \in Op, cmd[o].kind = "assign"
    PROVE  \/ at'[o] = at[o] /\ (pc'[o] = "ok" => pc[o] = "ok")
           \/ /\ pc[o] = "assigning" /\ GivenRoleBy(o, Id(o))
              /\ \/ at'[o] = at[o] + 1 /\ pc'[o] # "ok"
                 \/ at'[o] = at[o] /\ at[o] = Len(cmd[o].ids)
  <1>1. at \in [Op -> Nat] /\ pc \in [Op -> {"start", "checking", "asking", "dumping",
            "creating", "writing", "ok", "err"} \cup Requesting]
    BY DEF TypeInv, TypeOK
  <1>2. CASE Assign(o)
    <2>1. pc[o] = "assigning" /\ WithRole(o, cmd[o].role)
      BY <1>2 DEF Assign, Request, Go, CarriedOut
    <2>2. GivenRoleBy(o, Id(o))
      BY <2>1, ClusterType DEF WithRole, Become, GivenRoleBy, TypeInv, Members
    <2>3. at[o] \in 1..Len(cmd[o].ids) /\ Len(cmd[o].ids) \in Nat
      BY Kinds DEF TypeInv, CommandType
    <2>4. CASE at[o] < Len(cmd[o].ids)
      BY <1>1, <1>2, <2>1, <2>2, <2>4 DEF Assign, Request, Go
    <2>5. CASE at[o] = Len(cmd[o].ids)
      BY <1>2, <2>1, <2>2, <2>3, <2>5 DEF Assign
    <2>6. QED
      BY <2>3, <2>4, <2>5
  <1>3. CASE ~ Assign(o)
    <2>1. ~ (GetMembers(o) \/ AddNode(o) \/ Promote(o) \/ Transfer(o) \/ Remove(o) \/ Write(o))
      BY KindFrom DEF GetMembers, AddNode, Promote, Transfer, Remove, Write, Request, Go
    <2>2. pc'[o] = "ok" => pc[o] = "ok"
      BY <1>3, <2>1, Moves
    <2>3. at'[o] = at[o]
      <3>1. CASE ~ Step(o)
        BY <3>1, Others
      <3>2. CASE Step(o)
        BY <1>3, <2>1, <3>2 DEF Step, FindLeader, Fail, CarriedOutLate, AskLeader,
               Fetch, Create
      <3>3. QED
        BY <3>1, <3>2
    <2>4. QED
      BY <2>2, <2>3
  <1>4. QED
    BY <1>2, <1>3

LEMMA AssignsNext == TypeInv /\ AssignsStand /\ [Next]_vars => AssignsStand'
  <1> SUFFICES ASSUME TypeInv, AssignsStand, [Next]_vars PROVE AssignsStand'
    OBVIOUS
  <1> SUFFICES ASSUME NEW o \in Op, NEW k \in 1..Len(cmd[o].ids), cmd[o].kind = "assign"
               PROVE  /\ pc'[o] = "ok" => at'[o] = Len(cmd[o].ids)
                      /\ Sole(o, k) =>
                          LET n == cmd[o].ids[k]
                          IN  /\ n \in DOMAIN members'
                              /\ k < at'[o] \/ pc'[o] = "ok" => members'[n].role = cmd[o].role
                              /\ k > at'[o] => members'[n] = Cluster[n]
    <2>1. cmd' = cmd
      BY CmdStays
    <2>2. \A o \in Op : \A k : Sole(o, k)' <=> Sole(o, k)
      BY <2>1 DEF Sole, About
    <2>3. \A o \in Op : \A k : Sole(o, k) => cmd[o].kind = "assign"
      BY DEF Sole
    <2>4. QED
      BY <2>1, <2>2, <2>3 DEF AssignsStand
  <1>1. /\ at[o] \in 1..Len(cmd[o].ids) /\ Len(cmd[o].ids) \in Nat /\ at'[o] \in Nat
        /\ k \in Nat
    <2>1. TypeInv'
      BY TypeNext
    <2>2. at[o] \in 1..Len(cmd[o].ids) /\ Len(cmd[o].ids) \in Nat
      BY Kinds DEF TypeInv, CommandType
    <2>3. at'[o] \in Nat
      BY <2>1 DEF TypeInv, TypeOK
    <2>4. QED
      BY <2>2, <2>3
  <1>2. pc'[o] = "ok" => at'[o] = Len(cmd[o].ids)
    BY AssignMoves DEF AssignsStand
  <1>3. ASSUME Sole(o, k)
        PROVE  LET n == cmd[o].ids[k]
               IN  /\ n \in DOMAIN members'
                   /\ k < at'[o] \/ pc'[o] = "ok" => members'[n].role = cmd[o].role
                   /\ k > at'[o] => members'[n] = Cluster[n]
    <2> DEFINE n == cmd[o].ids[k]
    <2>1. /\ n \in DOMAIN members
          /\ k < at[o] \/ pc[o] = "ok" => members[n].role = cmd[o].role
          /\ k > at[o] => members[n] = Cluster[n]
      BY <1>3 DEF AssignsStand
    <2>2. CASE SameRecord(n)
      <3>1. n \in DOMAIN members' /\ members'[n] = members[n]
        BY <2>1, <2>2 DEF SameRecord
      <3>2. CASE at'[o] = at[o] /\ (pc'[o] = "ok" => pc[o] = "ok")
        BY <2>1, <3>1, <3>2
      <3>3. CASE /\ GivenRoleBy(o, Id(o))
                 /\ \/ at'[o] = at[o] + 1 /\ pc'[o] # "ok"
                    \/ at'[o] = at[o] /\ at[o] = Len(cmd[o].ids)
        <4>1. k = at[o] => members'[n].role = cmd[o].role
          BY <3>3, ClusterType DEF GivenRoleBy, Id, TypeInv, Members
        <4>2. QED
          BY <1>1, <2>1, <3>1, <3>3, <4>1
      <3>4. QED
        BY <3>2, <3>3, AssignMoves
    <2>3. CASE k = at[o] /\ GivenRoleBy(o, n)
      <3>1. n \in DOMAIN members' /\ members'[n].role = cmd[o].role
        BY <2>3, ClusterType DEF GivenRoleBy, TypeInv, Members
      <3>2. at'[o] >= at[o]
        BY <1>1, AssignMoves
      <3>3. QED
        BY <1>1, <2>3, <3>1, <3>2
    <2>4. QED
      BY <1>3, <2>2, <2>3, SoleChange
  <1>4. QED
    BY <1>2, <1>3

(* An assign goes through its nodes in order and stops at the first that   *)
(* fails.                                                                  *)
THEOREM AssignedInOrderAlways == Spec => []AssignedInOrder
  <1>1. Init => AssignsStand
    BY DEF Init, AssignsStand, Sole
  <1>2. AssignsStand => AssignedInOrder
    BY DEF AssignsStand, AssignedInOrder, Sole
  <1>3. QED
    BY <1>1, <1>2, AssignsNext, TypeInit, TypeNext, PTL DEF Spec

------------------------------------------------------------------------------
(* Dumps.                                                                  *)

(* The files when one dump o has had its answer.                           *)
Half(o) ==
    /\ \A f \in Files :
         /\ pc[o] = "creating" => disk[f] = IF f < at[o] THEN snap[o] ELSE Old
         /\ pc[o] = "writing"  => disk[f] = IF f < at[o] THEN snap[o]
                                           ELSE IF f = at[o] THEN Cut ELSE Old
         /\ pc[o] = "ok"       => disk[f] = snap[o]
         /\ disk[f] \in {Old, Cut, snap[o]}
    /\ disk[2] # Old => disk[1] = snap[o]

Fetched(o) == snap[o] # Cut

DumpsStand ==
    /\ (\A o \in Op : ~ Fetched(o)) => disk = Earlier
    /\ \A o \in Op : Fetched(o) /\ (\A p \in Op \ {o} : ~ Fetched(p)) => Half(o)
    /\ \A o \in Op : Fetched(o) => /\ cmd[o].kind = "dump"
                                   /\ pc[o] \in {"creating", "writing", "ok", "err"}
    /\ \A o \in Op : cmd[o].kind = "dump" /\ ~ Fetched(o) =>
          at[o] = 1 /\ pc[o] \notin {"creating", "writing", "ok"}
(* What each command may do to the dumps.                                  *)
LEMMA DumpMoves ==
    ASSUME TypeInv, [Next]_vars
    PROVE  \/ /\ UNCHANGED <<disk, snap, at>>
              /\ \A o \in Op : cmd[o].kind = "dump" =>
                    \/ pc'[o] = pc[o] \/ pc'[o] = "err"
                    \/ pc[o] = "start" /\ pc'[o] = "dumping"
           \/ \E o \in Op : Fetch(o) \/ Create(o) \/ Write(o)
           \/ /\ UNCHANGED <<disk, snap>>
              /\ \E o \in Op : /\ cmd[o].kind # "dump"
                               /\ \A p \in Op \ {o} : pc'[p] = pc[p] /\ at'[p] = at[p]
  <1>1. CASE Elect \/ WriteDatabase \/ UNCHANGED vars
    BY <1>1 DEF Elect, WriteDatabase, vars
  <1>2. pc \in [Op -> {"start", "checking", "asking", "dumping", "creating",
                       "writing", "ok", "err"} \cup Requesting] /\ at \in [Op -> Nat]
    BY DEF TypeInv, TypeOK
  <1>3. ASSUME NEW o \in Op, FindLeader(o) \/ Fail(o) \/ CarriedOutLate(o)
        PROVE  /\ UNCHANGED <<disk, snap, at>>
               /\ \A p \in Op : cmd[p].kind = "dump" =>
                     \/ pc'[p] = pc[p] \/ pc'[p] = "err"
                     \/ pc[p] = "start" /\ pc'[p] = "dumping"
    <2>1. CASE FindLeader(o)
      BY <1>2, <2>1 DEF FindLeader, Go, First
    <2>2. CASE Fail(o) \/ CarriedOutLate(o)
      BY <1>2, <2>2 DEF Fail, CarriedOutLate, Go
    <2>3. QED
      BY <1>3, <2>1, <2>2
  <1>4. ASSUME NEW o \in Op, GetMembers(o) \/ AddNode(o) \/ Promote(o) \/ Assign(o)
                                \/ AskLeader(o) \/ Transfer(o) \/ Remove(o)
        PROVE  /\ UNCHANGED <<disk, snap>> /\ cmd[o].kind # "dump"
               /\ \A p \in Op \ {o} : pc'[p] = pc[p] /\ at'[p] = at[p]
    <2>1. cmd[o].kind # "dump"
      BY <1>4, KindFrom DEF GetMembers, AddNode, Promote, Assign, AskLeader,
             Transfer, Remove, Request, Go
    <2>2. UNCHANGED <<disk, snap>>
      BY <1>4 DEF GetMembers, AddNode, Promote, Assign, AskLeader,
             Transfer, Remove, Request
    <2>3. /\ \E to : pc' = [pc EXCEPT ![o] = to]
          /\ at' = at \/ \E k : at' = [at EXCEPT ![o] = k]
      BY <1>4 DEF GetMembers, AddNode, Promote, Assign, AskLeader,
             Transfer, Remove, Request, Go
    <2>4. QED
      BY <1>2, <2>1, <2>2, <2>3
  <1>5. QED
    BY <1>1, <1>3, <1>4 DEF Next, Step

(* Where no dump reads or writes, what stands stays.                       *)
LEMMA DumpsQuiet ==
    ASSUME TypeInv, DumpsStand, [Next]_vars, UNCHANGED <<disk, snap>>,
           \A o \in Op : Fetched(o) \/ cmd[o].kind = "dump" =>
               /\ at'[o] = at[o]
               /\ \/ pc'[o] = pc[o] \/ pc'[o] = "err"
                  \/ pc[o] = "start" /\ pc'[o] = "dumping"
    PROVE  DumpsStand'
  <1>1. cmd' = cmd /\ \A o \in Op : Fetched(o)' <=> Fetched(o)
    BY CmdStays DEF Fetched
  <1>2. ASSUME NEW o \in Op, Fetched(o), \A p \in Op \ {o} : ~ Fetched(p)
        PROVE  Half(o)'
    <2>1. Half(o) /\ at'[o] = at[o] /\ (pc'[o] = pc[o] \/ pc'[o] = "err")
      BY <1>2 DEF DumpsStand
    <2>2. QED
      BY <2>1 DEF Half
  <1>3. QED
    BY <1>1, <1>2 DEF DumpsStand

(* A dump reads once, and then creates and writes one file after the other.*)
LEMMA DumpTurns ==
    ASSUME TypeInv, DumpsStand, [Next]_vars, NEW o \in Op, Fetch(o) \/ Create(o) \/ Write(o)
    PROVE  DumpsStand'
  <1>1. /\ pc \in [Op -> {"start", "checking", "asking", "dumping", "creating",
                          "writing", "ok", "err"} \cup Requesting]
        /\ at \in [Op -> Nat] /\ snap \in [Op -> 0..version] /\ disk \in [Files -> 0..version]
        /\ version \in Nat
    BY ClusterType DEF TypeInv, TypeOK
  <1>2. cmd' = cmd /\ cmd[o].kind = "dump"
    BY CmdStays, KindFrom DEF Fetch, Create, Write, Go
  <1>3. at[o] \in 1..2
    BY <1>2 DEF TypeInv, TypeOK
  <1>4. Fetched(o)'
    <2>1. CASE Fetch(o)
      BY <1>1, <2>1 DEF Fetch, Fetched, Old, Cut
    <2>2. CASE Create(o) \/ Write(o)
      BY <2>2 DEF Create, Write, Go, Fetched, TypeInv, InPlace
    <2>3. QED
      BY <2>1, <2>2
  <1>5. \A p \in Op \ {o} : /\ Fetched(p)' <=> Fetched(p)
                            /\ pc'[p] = pc[p] /\ at'[p] = at[p] /\ snap'[p] = snap[p]
    BY <1>1 DEF Fetch, Create, Write, Go, Fetched
  <1>6. pc'[o] \in {"creating", "writing", "ok", "err"}
    BY <1>1 DEF Fetch, Create, Write, Go
  <1>7. ASSUME \A p \in Op \ {o} : ~ Fetched(p)
        PROVE  Half(o)'
    <2>1. CASE Fetch(o)
      <3>1. ~ Fetched(o) /\ at[o] = 1
        BY <1>2, <2>1 DEF Fetch, Go, DumpsStand
      <3>2. disk' = Earlier /\ at'[o] = 1 /\ pc'[o] = "creating"
        BY <1>1, <1>7, <2>1, <3>1 DEF Fetch, Go, DumpsStand
      <3>3. QED
        BY <3>2 DEF Half, Earlier, Files
    <2>2. CASE Create(o)
      <3>1. Half(o) /\ pc[o] = "creating" /\ pc'[o] = "writing" /\ at'[o] = at[o]
        BY <1>1, <1>4, <1>7, <2>2 DEF Create, Go, Fetched, DumpsStand
      <3>2. disk' = [disk EXCEPT ![at[o]] = Cut] /\ snap' = snap
        BY <2>2 DEF Create, Put
      <3>3. QED
        BY <1>1, <1>3, <3>1, <3>2 DEF Half, Files, Old, Cut
    <2>3. CASE Write(o)
      <3>1. Half(o) /\ pc[o] = "writing"
        BY <1>1, <1>4, <1>7, <2>3 DEF Write, Go, Fetched, DumpsStand
      <3>2. disk' = [disk EXCEPT ![at[o]] = snap[o]] /\ snap' = snap
        BY <2>3 DEF Write, Put
      <3>3. \/ at[o] = 1 /\ at'[o] = 2 /\ pc'[o] = "creating"
            \/ at[o] = 2 /\ at'[o] = 2 /\ pc'[o] = "ok"
        BY <1>1, <1>3, <2>3 DEF Write, Go, Files
      <3>4. QED
        BY <1>1, <1>3, <3>1, <3>2, <3>3 DEF Half, Files, Old, Cut
    <2>4. QED
      BY <2>1, <2>2, <2>3
  <1>8. QED
    BY <1>2, <1>4, <1>5, <1>6, <1>7 DEF DumpsStand

LEMMA DumpsNext == TypeInv /\ DumpsStand /\ [Next]_vars => DumpsStand'
  <1> SUFFICES ASSUME TypeInv, DumpsStand, [Next]_vars PROVE DumpsStand'
    OBVIOUS
  <1>1. \A o \in Op : Fetched(o) => cmd[o].kind = "dump"
    BY DEF DumpsStand
  <1>2. CASE \E o \in Op : Fetch(o) \/ Create(o) \/ Write(o)
    BY <1>2, DumpTurns
  <1>3. QED
    BY <1>1, <1>2, DumpMoves, DumpsQuiet

(* After a dump that has reported success both files are those of one      *)
(* moment, unless another dump has had its answer as well; until one has,  *)
(* the files of an earlier dump stay.                                      *)
THEOREM DumpWholeAlways == Spec => []DumpWhole
  <1>1. Init => DumpsStand
    BY DEF Init, DumpsStand, Fetched
  <1>2. TypeInv /\ DumpsStand => DumpWhole
    BY DEF DumpsStand, DumpWhole, Half, Fetched, TypeInv, TypeOK
  <1>3. QED
    BY <1>1, <1>2, DumpsNext, TypeInit, TypeNext, PTL DEF Spec

------------------------------------------------------------------------------
(* The refinement.                                                         *)

(* A command that has something to ask, or has asked it in vain, has found *)
(* a leader.                                                               *)
Connected == \A o \in Op :
    pc[o] \in Requesting \cup {"checking", "asking"} \/ late[o] # "none" => conn[o] # 0

LEMMA ConnectedNext == TypeInv /\ Connected /\ [Next]_vars => Connected'
  <1> SUFFICES ASSUME TypeInv, Connected, [Next]_vars PROVE Connected'
    OBVIOUS
  <1>1. CASE Elect \/ WriteDatabase \/ UNCHANGED vars
    BY <1>1 DEF Elect, WriteDatabase, vars, Connected
  <1>2. ASSUME NEW o \in Op, Step(o)
        PROVE  Connected'
    <2>1. /\ pc \in [Op -> {"start", "checking", "asking", "dumping", "creating",
                         "writing", "ok", "err"} \cup Requesting]
          /\ late \in [Op -> {"none"} \cup Requesting] /\ conn \in [Op -> {0} \cup Node]
          /\ pc[o] # "err" => late[o] = "none"
      BY KindFrom DEF TypeInv, TypeOK
    <2>2. CASE FindLeader(o) \/ Fail(o) \/ CarriedOutLate(o)
      BY <2>1, <2>2 DEF FindLeader, Fail, CarriedOutLate, Go, Connected, Requesting
    <2>3. CASE GetMembers(o)
      <3>1. PICK m : /\ Go(o, "checking", Check(m, o))
                     /\ conn' = [conn EXCEPT ![o] = IF Check(m, o) = "adding" THEN @ ELSE 0]
        BY <2>3 DEF GetMembers
      <3>2. Check(m, o) \in {"adding", "ok", "err"} /\ late' = late
        BY <2>3 DEF Check, GetMembers
      <3>3. QED
        BY <2>1, <3>1, <3>2 DEF Go, Connected, Requesting
    <2>4. ASSUME NEW from \in Requesting, NEW to \in {"start", "promoting", "ok"},
                 Request(o, from, to)
          PROVE  Connected'
      BY <2>1, <2>4 DEF Request, Go, Connected, Requesting
    <2>5. CASE AddNode(o) \/ Promote(o) \/ Assign(o) \/ Transfer(o) \/ Remove(o)
      BY <2>4, <2>5 DEF AddNode, Promote, Assign, Transfer, Remove, Added, Requesting
    <2>6. CASE AskLeader(o) \/ Fetch(o) \/ Create(o) \/ Write(o)
      BY <2>1, <2>6 DEF AskLeader, Fetch, Create, Write, Go, Connected, Requesting
    <2>7. QED
      BY <1>2, <2>2, <2>3, <2>5, <2>6 DEF Step
  <1>3. QED
    BY <1>1, <1>2 DEF Next

(* The state of the promise.                                               *)
TodoOf == [o \in Op |-> Todo(o)]
FoundOf == [o \in Op |-> Found(o)]
Ended(o) == IF pc[o] \in {"ok", "err"} THEN pc[o] ELSE "running"
OutcomeOf == [o \in Op |-> Ended(o)]

(* A step of one command leaves the promise of the others as it is.        *)
LEMMA OneMoves ==
    ASSUME cmd' = cmd, NEW o \in Op,
           \A p \in Op \ {o} : /\ pc'[p] = pc[p] /\ at'[p] = at[p]
                               /\ late'[p] = late[p] /\ known'[p] = known[p]
    PROVE  /\ TodoOf' = [TodoOf EXCEPT ![o] = (Todo(o))']
           /\ FoundOf' = [FoundOf EXCEPT ![o] = (Found(o))']
           /\ OutcomeOf' = [OutcomeOf EXCEPT ![o] = (Ended(o))']
  <1>1. \A p \in Op \ {o} : /\ (Todo(p))' = Todo(p) /\ (Found(p))' = Found(p)
                            /\ (Ended(p))' = Ended(p)
    BY DEF Todo, FromNext, Added, Id, Found, Ended
  <1>2. QED
    BY <1>1 DEF TodoOf, FoundOf, OutcomeOf

LEMMA StateStays ==
    ASSUME UNCHANGED <<members, leader, cmd, TodoOf, FoundOf, OutcomeOf>>
    PROVE  UNCHANGED Administration!vars
  BY DEF Administration!vars, TodoOf, FoundOf, OutcomeOf, Ended

(* What a command has left to do, by its place.                            *)
LEMMA NextTodo ==
    ASSUME TypeInv, NEW o \in Op
    PROVE  /\ pc[o] \in Requesting => Todo(o) # <<>> /\ Head(Todo(o)) = Asked(pc[o], Id(o))
           /\ late[o] # "none" => Todo(o) = <<Asked(late[o], Id(o))>>
           /\ cmd[o].kind = "add" /\ pc[o] \in {"start", "checking", "adding"} =>
                 Todo(o) = Administration!Requests(cmd[o])
           /\ pc[o] = "ok" \/ (pc[o] = "err" /\ late[o] = "none") => Todo(o) = <<>>
           /\ cmd[o].kind = "dump" => Todo(o) = <<>>
  <1>1. CommandType(cmd[o])
    BY Kinds DEF TypeInv
  <1>2. pc[o] \in Requesting \cup {"start", "checking", "asking", "dumping", "creating",
                         "writing", "ok", "err"}
    BY DEF TypeInv, TypeOK
  <1>3. ASSUME cmd[o].kind = "assign"
        PROVE  /\ FromNext(o) # <<>>
               /\ Head(FromNext(o)) = Asked("assigning", Id(o))
    <2>1. at[o] \in 1..Len(cmd[o].ids) /\ Len(cmd[o].ids) \in Nat
      BY <1>1, <1>3, Kinds DEF CommandType, TypeInv
    <2> DEFINE n == Len(cmd[o].ids) + 1 - at[o]
    <2>2. n \in Nat \ {0} /\ 1 \in 1..n
      BY <2>1
    <2>3. FromNext(o) = [k \in 1..n |-> Asked("assigning", cmd[o].ids[at[o] + k - 1])]
      BY <1>3 DEF FromNext
    <2>4. FromNext(o)[1] = Asked("assigning", cmd[o].ids[at[o] + 1 - 1])
      BY <2>2, <2>3
    <2>5. at[o] + 1 - 1 = at[o]
      BY <2>1
    <2>6. FromNext(o) # <<>> /\ Head(FromNext(o)) = FromNext(o)[1]
      BY <2>2, <2>3
    <2>7. QED
      BY <2>4, <2>5, <2>6 DEF Id
  <1>4. ASSUME pc[o] \in Requesting
        PROVE  Todo(o) # <<>> /\ Head(Todo(o)) = Asked(pc[o], Id(o))
    <2>1. CASE pc[o] = "promoting"
      BY <2>1 DEF Todo
    <2>2. CASE pc[o] = "assigning"
      BY <1>3, <2>2, KindFrom DEF Todo
    <2>3. CASE pc[o] \in {"adding", "transferring", "removing"}
      BY <2>3, KindFrom DEF Todo, FromNext
    <2>4. QED
      BY <1>4, <2>1, <2>2, <2>3 DEF Requesting
  <1>5. ASSUME late[o] # "none"
        PROVE  Todo(o) = <<Asked(late[o], Id(o))>>
    BY <1>5, KindFrom DEF Todo
  <1>6. ASSUME cmd[o].kind = "add", pc[o] \in {"start", "checking", "adding"}
        PROVE  Todo(o) = Administration!Requests(cmd[o])
    <2>1. Id(o) = cmd[o].ids[1]
      BY <1>6, OneId
    <2>2. QED
      BY <1>6, <2>1 DEF Todo, FromNext, Asked, Added, Administration!Requests,
                        Administration!To
  <1>7. ASSUME cmd[o].kind = "dump"
        PROVE  Todo(o) = <<>>
    BY <1>7, KindFrom DEF Todo, FromNext, Requesting
  <1>8. QED
    BY <1>4, <1>5, <1>6, <1>7 DEF Todo

(* A request that is carried out takes effect, and is the next one.        *)
LEMMA TakesEffect ==
    ASSUME NEW o \in Op, NEW s \in Requesting, CarriedOut(o, s)
    PROVE  Administration!TakesEffect(Asked(s, Id(o)), cmd[o])
  <1> USE DEF Administration!TakesEffect, Administration!Become, Administration!Voters,
              Become, Voters, Asked
  <1>1. CASE s = "transferring" /\ Led(o)
    BY <1>1 DEF Led
  <1>2. CASE s = "adding" /\ AsSpare(o)
    BY <1>2 DEF AsSpare
  <1>3. CASE s \in {"promoting", "assigning"} /\ WithRole(o, cmd[o].role)
    BY <1>3 DEF WithRole
  <1>4. CASE s = "removing" /\ Without(o)
    BY <1>4 DEF Without
  <1>5. QED
    BY <1>1, <1>2, <1>3, <1>4, CarriedOutIs

LEMMA EffectIs ==
    ASSUME TypeInv, Connected, NEW o \in Op, NEW s \in Requesting, CarriedOut(o, s),
           s = pc[o] \/ s = late[o], cmd' = cmd, known' = known,
           \A p \in Op \ {o} : /\ pc'[p] = pc[p] /\ at'[p] = at[p] /\ late'[p] = late[p],
           (Todo(o))' = Tail(Todo(o)), ~ (Found(o))',
           Ended(o)' = IF Ended(o) = "running" /\ Tail(Todo(o)) = <<>> THEN "ok" ELSE Ended(o)
    PROVE  Administration!Effect(o)
  <1>1. Todo(o) # <<>> /\ Head(Todo(o)) = Asked(s, Id(o))
    BY NextTodo, KindFrom DEF Requesting
  <1>2. leader # 0
    BY KindFrom DEF Connected, CarriedOut, Requesting
  <1>3. Administration!TakesEffect(Head(Todo(o)), cmd[o])
    BY <1>1, TakesEffect
  <1>4. /\ TodoOf' = [TodoOf EXCEPT ![o] = Tail(@)]
        /\ FoundOf' = [FoundOf EXCEPT ![o] = FALSE]
        /\ OutcomeOf' = [OutcomeOf EXCEPT ![o] =
                          IF @ = "running" /\ Tail(TodoOf[o]) = <<>> THEN "ok" ELSE @]
    <2>1. /\ TodoOf' = [TodoOf EXCEPT ![o] = (Todo(o))']
          /\ FoundOf' = [FoundOf EXCEPT ![o] = (Found(o))']
          /\ OutcomeOf' = [OutcomeOf EXCEPT ![o] = (Ended(o))']
      BY OneMoves
    <2>2. TodoOf[o] = Todo(o) /\ OutcomeOf[o] = Ended(o) /\ (Found(o))' = FALSE
      BY DEF TodoOf, OutcomeOf, Found
    <2>3. QED
      BY <2>1, <2>2 DEF TodoOf, FoundOf, OutcomeOf
  <1>5. QED
    BY <1>1, <1>2, <1>3, <1>4
       DEF Administration!Effect, TodoOf, FoundOf, OutcomeOf, Ended

(* The steps of a command, one kind after the other.  Those of a request   *)
(* are Effects.                                                            *)
LEMMA TailAssign ==
    ASSUME TypeInv, NEW o \in Op, cmd[o].kind = "assign", pc[o] = "assigning",
           cmd' = cmd, at' = [at EXCEPT ![o] = @ + 1], at[o] < Len(cmd[o].ids),
           pc'[o] = "start"
    PROVE  (Todo(o))' = Tail(Todo(o)) /\ Tail(Todo(o)) # <<>>
  <1> DEFINE n == Len(cmd[o].ids)
             k == at[o]
             ids == cmd[o].ids
             Rest(j) == [i \in 1..(n + 1 - j) |-> Asked("assigning", ids[j + i - 1])]
  <1>1. n \in Nat /\ k \in 1..n /\ k < n /\ k + 1 \in 1..n /\ at'[o] = k + 1
    BY Kinds DEF CommandType, TypeInv, TypeOK
  <1>2. Todo(o) = Rest(k)
    BY DEF Todo, FromNext
  <1>3. (Todo(o))' = Rest(k + 1)
    <2>1. (Todo(o))' = (FromNext(o))'
      BY DEF Todo
    <2>2. (FromNext(o))' = [i \in 1..(Len(cmd[o].ids) + 1 - at'[o]) |->
                              Asked("assigning", cmd[o].ids[at'[o] + i - 1])]
      BY DEF FromNext
    <2>3. QED
      BY <1>1, <2>1, <2>2
  <1>4. /\ Rest(k) \in Seq({Asked("assigning", ids[i]) : i \in 1..n})
        /\ Len(Rest(k)) = n + 1 - k
    <2>1. \A i \in 1..(n + 1 - k) : k + i - 1 \in 1..n
      BY <1>1
    <2>2. n + 1 - k \in Nat
      BY <1>1
    <2>3. QED
      BY <2>1, <2>2
  <1> DEFINE s == Rest(k)
             t == Rest(k + 1)
  <1>5. Tail(s) = [i \in 1..(n - k) |-> s[i + 1]]
    <2> DEFINE S == {Asked("assigning", ids[i]) : i \in 1..n}
    <2>1. s \in Seq(S) /\ Len(s) - 1 = n - k /\ s # <<>>
      BY <1>1, <1>4
    <2> HIDE DEF s, S
    <2>2. /\ Tail(s) \in Seq(S) /\ Len(Tail(s)) = Len(s) - 1
          /\ \A i \in 1..Len(Tail(s)) : Tail(s)[i] = s[i + 1]
      BY <2>1
    <2>3. Tail(s) = [i \in 1..Len(Tail(s)) |-> Tail(s)[i]]
      BY <2>2, LenProperties
    <2>4. QED
      BY <2>1, <2>2, <2>3
  <1>6. \A i \in 1..(n - k) : s[i + 1] = Asked("assigning", ids[k + 1 + i - 1])
    <2> SUFFICES ASSUME NEW i \in 1..(n - k)
                 PROVE  s[i + 1] = Asked("assigning", ids[k + 1 + i - 1])
      OBVIOUS
    <2>1. i + 1 \in 1..(n + 1 - k) /\ k + (i + 1) - 1 = k + 1 + i - 1
      BY <1>1
    <2>2. QED
      BY <2>1
  <1>7. t = [i \in 1..(n - k) |-> Asked("assigning", ids[k + 1 + i - 1])]
    <2>1. n + 1 - (k + 1) = n - k
      BY <1>1
    <2>2. QED
      BY <2>1
  <1>8. Tail(s) = t
    <2> HIDE DEF s, t
    <2>1. QED
      BY <1>5, <1>6, <1>7
  <1>9. t # <<>>
    <2>1. n - k \in Nat \ {0}
      BY <1>1
    <2> HIDE DEF t, n, k
    <2>2. QED
      BY <1>7, <2>1
  <1>10. QED
    BY <1>2, <1>3, <1>8, <1>9

LEMMA TailOfOne == \A x : Tail(<<x>>) = <<>>
  <1> SUFFICES ASSUME NEW x PROVE Tail(<<x>>) = <<>>
    OBVIOUS
  <1>1. <<x>> \in Seq({x}) /\ Len(<<x>>) = 1
    OBVIOUS
  <1>2. Tail(<<x>>) \in Seq({x}) /\ Len(Tail(<<x>>)) = 0
    BY <1>1
  <1>3. QED
    BY <1>2, EmptySeq

LEMMA RequestRefines ==
    ASSUME TypeInv, Connected, [Next]_vars, NEW o \in Op,
           AddNode(o) \/ Promote(o) \/ Assign(o) \/ Transfer(o) \/ Remove(o)
    PROVE  Administration!Effect(o)
  <1>1. cmd' = cmd
    BY CmdStays
  <1>2. /\ pc \in [Op -> {"start", "checking", "asking", "dumping", "creating",
                         "writing", "ok", "err"} \cup Requesting]
        /\ at \in [Op -> Nat]
    BY DEF TypeInv, TypeOK
  <1>3. ASSUME NEW s \in Requesting, NEW to \in {"start", "promoting", "ok"},
               Request(o, s, to), at' = at \/ at' = [at EXCEPT ![o] = @ + 1],
               (Todo(o))' = Tail(Todo(o)), to = "ok" <=> Tail(Todo(o)) = <<>>
        PROVE  Administration!Effect(o)
    <2>1. /\ pc[o] = s /\ pc' = [pc EXCEPT ![o] = to] /\ CarriedOut(o, s)
          /\ known' = known /\ late' = late
      BY <1>3 DEF Request, Go
    <2>2. Ended(o) = "running" /\ (Ended(o))' = IF to = "ok" THEN "ok" ELSE "running"
      BY <1>2, <2>1 DEF Ended, Requesting
    <2>3. ~ (Found(o))'
      BY <1>2, <2>1 DEF Found
    <2>4. QED
      BY <1>1, <1>2, <1>3, <2>1, <2>2, <2>3, EffectIs
  <1>4. CASE AddNode(o)
    <2>1. pc[o] = "adding" /\ cmd[o].kind = "add" /\ at' = at /\ pc'[o] = Added(o)
      BY <1>2, <1>4, KindFrom DEF AddNode, Request, Go
    <2>2. CASE cmd[o].role = "spare"
      <3>1. Added(o) = "ok" /\ Todo(o) = <<Asked("adding", Id(o))>> /\ (Todo(o))' = <<>>
        BY <2>1, <2>2 DEF Added, Todo, FromNext
      <3>2. QED
        BY <1>3, <1>4, <2>1, <3>1 DEF AddNode, Requesting
    <2>3. CASE cmd[o].role # "spare"
      <3>1. Added(o) = "promoting" /\ (Id(o))' = Id(o)
        BY <1>1, <2>1, <2>3 DEF Added, Id
      <3>2. Todo(o) = <<Asked("adding", Id(o)), Asked("promoting", Id(o))>>
        BY <2>1, <3>1 DEF Todo, FromNext
      <3>3. (Todo(o))' = <<Asked("promoting", Id(o))>>
        BY <2>1, <3>1 DEF Todo, Asked
      <3>4. Tail(Todo(o)) = (Todo(o))' /\ Tail(Todo(o)) # <<>>
        BY <3>2, <3>3
      <3>5. QED
        BY <1>3, <1>4, <2>1, <3>1, <3>4 DEF AddNode, Requesting
    <2>4. QED
      BY <2>2, <2>3
  <1>5. ASSUME NEW s \in Requesting, Request(o, s, "ok"), at' = at,
               Todo(o) = <<Asked(s, Id(o))>>
        PROVE  Administration!Effect(o)
    <2>1. pc'[o] = "ok"
      BY <1>2, <1>5 DEF Request, Go
    <2>2. (Todo(o))' = <<>> /\ Tail(Todo(o)) = <<>>
      BY <1>5, <2>1, TailOfOne DEF Todo
    <2>3. QED
      BY <1>3, <1>5, <2>2
  <1>6. CASE Promote(o) \/ Transfer(o) \/ Remove(o)
    <2>1. PICK s \in {"promoting", "transferring", "removing"} :
             Request(o, s, "ok") /\ at' = at /\ pc[o] = s
      BY <1>6 DEF Promote, Transfer, Remove, Request, Go
    <2>2. Todo(o) = <<Asked(s, Id(o))>>
      BY <2>1, KindFrom DEF Todo, FromNext
    <2>3. QED
      BY <1>5, <2>1, <2>2 DEF Requesting
  <1>7. CASE Assign(o)
    <2>1. /\ pc[o] = "assigning" /\ cmd[o].kind = "assign"
          /\ at[o] \in 1..Len(cmd[o].ids) /\ Len(cmd[o].ids) \in Nat
      BY <1>7, KindFrom, Kinds DEF Assign, Request, Go, CommandType, TypeInv
    <2>2. CASE at[o] < Len(cmd[o].ids)
      <3>1. Request(o, "assigning", "start") /\ at' = [at EXCEPT ![o] = @ + 1]
        BY <1>7, <2>2 DEF Assign
      <3>2. pc'[o] = "start"
        BY <1>2, <3>1 DEF Request, Go
      <3>3. (Todo(o))' = Tail(Todo(o)) /\ Tail(Todo(o)) # <<>>
        BY <1>1, <2>1, <2>2, <3>1, <3>2, TailAssign
      <3>4. QED
        BY <1>3, <3>1, <3>3 DEF Requesting
    <2>3. CASE ~ (at[o] < Len(cmd[o].ids))
      <3>1. Request(o, "assigning", "ok") /\ at' = at /\ at[o] = Len(cmd[o].ids)
        BY <1>7, <2>1, <2>3 DEF Assign
      <3>2. Len(cmd[o].ids) + 1 - at[o] = 1 /\ at[o] + 1 - 1 = at[o]
        BY <2>1, <3>1
      <3>3. Todo(o) = [k \in 1..1 |-> Asked("assigning", cmd[o].ids[at[o] + k - 1])]
        BY <2>1, <3>2 DEF Todo, FromNext
      <3>4. Todo(o) = <<Asked("assigning", Id(o))>>
        BY <3>2, <3>3 DEF Id
      <3>5. QED
        BY <1>5, <3>1, <3>4 DEF Requesting
    <2>4. QED
      BY <2>2, <2>3
  <1>8. QED
    BY <1>4, <1>6, <1>7

LEMMA LateRefines ==
    ASSUME TypeInv, Connected, [Next]_vars, NEW o \in Op, CarriedOutLate(o)
    PROVE  Administration!Effect(o)
  <1>1. /\ late[o] \in Requesting /\ pc[o] = "err" /\ CarriedOut(o, late[o])
        /\ pc' = pc /\ at' = at /\ known' = known /\ cmd' = cmd
        /\ late' = [late EXCEPT ![o] = "none"]
    BY KindFrom DEF CarriedOutLate
  <1>2. late'[o] = "none" /\ \A p \in Op \ {o} : late'[p] = late[p]
    BY <1>1 DEF TypeInv, TypeOK
  <1>3. Todo(o) = <<Asked(late[o], Id(o))>> /\ (Todo(o))' = <<>>
    BY <1>1, <1>2 DEF Todo, Requesting
  <1>4. Ended(o) = "err" /\ (Ended(o))' = "err" /\ ~ (Found(o))'
    BY <1>1 DEF Ended, Found
  <1>5. Tail(Todo(o)) = <<>>
    BY <1>3, TailOfOne
  <1>6. QED
    BY <1>1, <1>2, <1>3, <1>4, <1>5, EffectIs

(* A command ends without a request.                                       *)
LEMMA EndIs ==
    ASSUME NEW o \in Op, NEW how \in {"ok", "err"}, Go(o, pc[o], how),
           DOMAIN pc = Op, pc[o] \notin {"ok", "err"},
           cmd' = cmd, members' = members, leader' = leader, at' = at,
           \A p \in Op \ {o} : late'[p] = late[p] /\ known'[p] = known[p]
    PROVE  /\ Administration!End(o, how)
           /\ TodoOf' = [TodoOf EXCEPT ![o] = (Todo(o))']
  <1>1. pc'[o] = how /\ \A p \in Op \ {o} : pc'[p] = pc[p] /\ at'[p] = at[p]
    BY DEF Go
  <1>2. Ended(o) = "running" /\ (Ended(o))' = how /\ ~ (Found(o))'
    BY <1>1 DEF Ended, Found
  <1>3. /\ TodoOf' = [TodoOf EXCEPT ![o] = (Todo(o))']
        /\ FoundOf' = [FoundOf EXCEPT ![o] = (Found(o))']
        /\ OutcomeOf' = [OutcomeOf EXCEPT ![o] = (Ended(o))']
    BY <1>1, OneMoves
  <1>4. (Found(o))' = FALSE
    BY <1>2 DEF Found
  <1>5. OutcomeOf[o] = "running"
    BY <1>2 DEF OutcomeOf
  <1>6. QED
    BY <1>2, <1>3, <1>4, <1>5 DEF Administration!End, FoundOf, OutcomeOf, Ended

LEMMA FailRefines ==
    ASSUME TypeInv, [Next]_vars, NEW o \in Op, Fail(o)
    PROVE  Administration!Fail(o)
  <1>1. /\ DOMAIN pc = Op /\ late \in [Op -> {"none"} \cup Requesting]
        /\ pc[o] \notin {"ok", "err"} /\ late[o] = "none"
    BY KindFrom DEF Fail, TypeInv, TypeOK, Requesting
  <1>2. /\ Go(o, pc[o], "err") /\ UNCHANGED <<members, leader, cmd, at, known>>
        /\ pc'[o] = "err"
    BY <1>1 DEF Fail, Go, cluster
  <1>3. \/ late' = late
        \/ pc[o] \in Requesting /\ late' = [late EXCEPT ![o] = pc[o]]
    BY DEF Fail
  <1>4. \A p \in Op \ {o} : late'[p] = late[p]
    BY <1>1, <1>3
  <1>5. /\ Administration!End(o, "err")
        /\ TodoOf' = [TodoOf EXCEPT ![o] = (Todo(o))']
    BY <1>1, <1>2, <1>4, EndIs
  <1>6. CASE late' = late
    <2>1. (Todo(o))' = <<>>
      BY <1>1, <1>2, <1>6 DEF Todo
    <2>2. QED
      BY <1>5, <2>1 DEF Administration!Fail, TodoOf
  <1>7. CASE pc[o] \in Requesting /\ late' = [late EXCEPT ![o] = pc[o]]
    <2>1. late'[o] = pc[o] /\ pc[o] # "none" /\ (Id(o))' = Id(o)
      BY <1>1, <1>2, <1>7 DEF Requesting, Id
    <2>2. (Todo(o))' = <<Asked(pc[o], Id(o))>>
      BY <1>2, <2>1 DEF Todo, Asked
    <2>3. Todo(o) # <<>> /\ Head(Todo(o)) = Asked(pc[o], Id(o))
      BY <1>7, NextTodo
    <2>4. TodoOf[o] # <<>> /\ TodoOf' = [TodoOf EXCEPT ![o] = <<Head(@)>>]
      BY <1>5, <2>2, <2>3 DEF TodoOf
    <2>5. QED
      BY <1>5, <2>4 DEF Administration!Fail, TodoOf
  <1>8. QED
    BY <1>3, <1>6, <1>7

(* An add that looks for its node, with or without effect.                 *)
LEMMA LookIs ==
    ASSUME TypeInv, NEW o \in Op, cmd[o].kind = "add",
           pc[o] \in {"start", "checking"}, (Todo(o))' = Todo(o),
           (Ended(o))' = "running", (Found(o))' => Administration!IsMember(o),
           UNCHANGED <<members, leader, cmd, at, late>>,
           \A p \in Op \ {o} : pc'[p] = pc[p] /\ known'[p] = known[p]
    PROVE  Administration!Look(o)
  <1>1. Todo(o) = Administration!Requests(cmd[o]) /\ Ended(o) = "running"
    BY NextTodo DEF Ended
  <1>2. /\ TodoOf' = [TodoOf EXCEPT ![o] = (Todo(o))']
        /\ FoundOf' = [FoundOf EXCEPT ![o] = (Found(o))']
        /\ OutcomeOf' = [OutcomeOf EXCEPT ![o] = (Ended(o))']
    BY OneMoves
  <1>3. TodoOf' = TodoOf /\ OutcomeOf' = OutcomeOf
    BY <1>1, <1>2 DEF TodoOf, OutcomeOf
  <1>4. (Found(o))' \in BOOLEAN
    BY DEF Found
  <1>5. Administration!Looking(o)
    BY <1>1 DEF Administration!Looking
  <1>6. QED
    BY <1>1, <1>2, <1>3, <1>4, <1>5
       DEF Administration!Look, TodoOf, FoundOf, OutcomeOf, Ended

LEMMA FindLeaderRefines ==
    ASSUME TypeInv, [Next]_vars, NEW o \in Op, FindLeader(o)
    PROVE  Administration!Look(o) \/ UNCHANGED Administration!vars
  <1>1. /\ DOMAIN pc = Op /\ pc[o] = "start" /\ pc'[o] = First[cmd[o].kind]
        /\ UNCHANGED <<members, leader, cmd, at, late>>
        /\ cmd[o].kind \in {"add", "assign", "transfer", "remove", "dump"}
        /\ \A p \in Op \ {o} : pc'[p] = pc[p] /\ known'[p] = known[p]
    <2>1. DOMAIN pc = Op /\ known = [p \in Op |-> known[p]]
      BY DEF TypeInv, TypeOK, Requesting
    <2>2. QED
      BY <2>1, KindFrom DEF FindLeader, Go, cluster
  <1>2. (Todo(o))' = Todo(o)
    BY <1>1 DEF Todo, FromNext, First, Added, Id
  <1>3. Ended(o) = "running" /\ (Ended(o))' = "running"
    BY <1>1 DEF Ended, First
  <1>4. CASE cmd[o].kind = "add"
    <2>1. known'[o] = members
      BY <1>4 DEF FindLeader, TypeInv, TypeOK
    <2>2. (Found(o))' => Administration!IsMember(o)
      <3>1. (Id(o))' = cmd[o].ids[1]
        BY <1>1, <1>4, OneId DEF Id
      <3>2. QED
        BY <1>1, <2>1, <3>1 DEF Found, Administration!IsMember
    <2>3. QED
      BY <1>1, <1>2, <1>3, <1>4, <2>2, LookIs
  <1>5. CASE cmd[o].kind # "add"
    <2>1. ~ Found(o) /\ ~ (Found(o))'
      BY <1>1, <1>5 DEF Found
    <2>2. (Found(o))' = Found(o)
      BY <2>1 DEF Found
    <2>3. /\ TodoOf' = [TodoOf EXCEPT ![o] = (Todo(o))']
          /\ FoundOf' = [FoundOf EXCEPT ![o] = (Found(o))']
          /\ OutcomeOf' = [OutcomeOf EXCEPT ![o] = (Ended(o))']
      BY <1>1, OneMoves
    <2>4. UNCHANGED <<TodoOf, FoundOf, OutcomeOf>>
      BY <1>2, <1>3, <2>2, <2>3 DEF TodoOf, FoundOf, OutcomeOf
    <2>5. QED
      BY <1>1, <2>4, StateStays
  <1>6. QED
    BY <1>4, <1>5

LEMMA GetMembersRefines ==
    ASSUME TypeInv, [Next]_vars, NEW o \in Op, GetMembers(o)
    PROVE  \/ Administration!Look(o) \/ Administration!Succeed(o)
           \/ Administration!Fail(o)
  <1>1. /\ DOMAIN pc = Op /\ pc[o] = "checking" /\ cmd[o].kind = "add"
        /\ UNCHANGED <<members, leader, cmd, at, late>> /\ late[o] = "none"
        /\ \A p \in Op \ {o} : pc'[p] = pc[p] /\ known'[p] = known[p]
    <2>1. DOMAIN pc = Op /\ known = [p \in Op |-> known[p]] /\ pc[o] = "checking"
      BY DEF TypeInv, TypeOK, GetMembers, Go
    <2>2. QED
      BY <2>1, KindFrom DEF GetMembers, Go, cluster
  <1>2. Id(o) = cmd[o].ids[1] /\ (Id(o))' = Id(o)
    BY <1>1, OneId DEF Id
  <1>3. PICK m \in {members, known[o]} : Go(o, "checking", Check(m, o))
    BY DEF GetMembers
  <1>4. pc'[o] = Check(m, o) /\ Go(o, pc[o], Check(m, o))
    BY <1>1, <1>3 DEF Go
  <1>5. Todo(o) = Administration!Requests(cmd[o])
    BY <1>1, NextTodo
  <1>6. CASE Check(m, o) = "adding"
    <2>1. (Todo(o))' = Todo(o) /\ (Ended(o))' = "running" /\ ~ (Found(o))'
      BY <1>1, <1>2, <1>4, <1>6 DEF Todo, FromNext, Added, Ended, Found
    <2>2. QED
      BY <1>1, <2>1, LookIs
  <1>7. ASSUME NEW how \in {"ok", "err"}, Check(m, o) = how
        PROVE  /\ Administration!End(o, how)
               /\ TodoOf' = [TodoOf EXCEPT ![o] = <<>>]
    <2>1. Go(o, pc[o], how) /\ pc[o] \notin {"ok", "err"} /\ pc'[o] = how
      BY <1>1, <1>4, <1>7
    <2>2. /\ Administration!End(o, how)
          /\ TodoOf' = [TodoOf EXCEPT ![o] = (Todo(o))']
      BY <1>1, <2>1, EndIs
    <2>3. (Todo(o))' = <<>>
      BY <1>1, <2>1 DEF Todo
    <2>4. QED
      BY <2>2, <2>3
  <1>8. CASE Check(m, o) = "err"
    BY <1>7, <1>8 DEF Administration!Fail, TodoOf
  <1>9. CASE Check(m, o) = "ok"
    <2>1. Id(o) \in DOMAIN m /\ m[Id(o)].addr = cmd[o].addr
      BY <1>9 DEF Check
    <2>2. FoundOf[o] \/ Administration!IsMember(o)
      BY <1>1, <1>2, <1>3, <2>1 DEF FoundOf, Found, Administration!IsMember
    <2>3. Administration!Looking(o)
      BY <1>1, <1>5 DEF Administration!Looking
    <2>4. QED
      BY <1>7, <1>9, <2>2, <2>3 DEF Administration!Succeed, TodoOf, FoundOf
  <1>10. QED
    BY <1>6, <1>8, <1>9 DEF Check

(* Asking for the leader and dumping.                                      *)
LEMMA QuietRefines ==
    ASSUME TypeInv, [Next]_vars, NEW o \in Op,
           AskLeader(o) \/ Fetch(o) \/ Create(o) \/ Write(o)
    PROVE  Administration!Succeed(o) \/ UNCHANGED Administration!vars
  <1>1. /\ DOMAIN pc = Op /\ UNCHANGED <<members, leader, cmd, late, known>>
        /\ \A p \in Op \ {o} : pc'[p] = pc[p] /\ at'[p] = at[p]
        /\ Go(o, pc[o], pc'[o])
    <2>1. DOMAIN pc = Op /\ DOMAIN at = Op
      BY DEF TypeInv, TypeOK
    <2>2. QED
      BY <2>1 DEF AskLeader, Fetch, Create, Write, Go, cluster
  <1>2. pc[o] \in {"asking", "dumping", "creating", "writing"} /\ ~ Found(o)
    BY DEF AskLeader, Fetch, Create, Write, Go, Found
  <1>3. CASE pc'[o] = "ok"
    <2>1. Write(o) /\ at' = at
      BY <1>1, <1>3 DEF AskLeader, Fetch, Create, Write, Go
    <2>2. Todo(o) = <<>> /\ (Todo(o))' = <<>>
      BY <1>3, <2>1, KindFrom, NextTodo DEF Todo, Write, Go
    <2>3. /\ Administration!End(o, "ok")
          /\ TodoOf' = [TodoOf EXCEPT ![o] = (Todo(o))']
      BY <1>1, <1>2, <1>3, <2>1, EndIs
    <2>4. QED
      BY <2>2, <2>3 DEF Administration!Succeed, TodoOf
  <1>4. CASE pc'[o] # "ok"
    <2>1. pc'[o] \in {"transferring", "creating", "writing"}
      BY <1>1, <1>4 DEF AskLeader, Fetch, Create, Write, Go
    <2>2. (Ended(o))' = Ended(o) /\ (Found(o))' = Found(o)
      BY <1>2, <2>1 DEF Ended, Found
    <2>3. (Todo(o))' = Todo(o)
      <3>1. CASE AskLeader(o)
        <4>1. cmd[o].kind = "transfer" /\ (Id(o))' = Id(o)
          BY <1>1, <3>1, KindFrom DEF AskLeader, Go, Id
        <4>2. QED
          BY <1>1, <1>2, <2>1, <4>1 DEF Todo, FromNext, Added
      <3>2. CASE Fetch(o) \/ Create(o) \/ Write(o)
        <4>1. cmd[o].kind = "dump"
          BY <3>2, KindFrom DEF Fetch, Create, Write, Go
        <4>2. QED
          BY <1>1, <1>2, <2>1, <4>1 DEF Todo, FromNext, Added
      <3>3. QED
        BY <3>1, <3>2
    <2>4. /\ TodoOf' = [TodoOf EXCEPT ![o] = (Todo(o))']
          /\ FoundOf' = [FoundOf EXCEPT ![o] = (Found(o))']
          /\ OutcomeOf' = [OutcomeOf EXCEPT ![o] = (Ended(o))']
      BY <1>1, OneMoves
    <2>5. UNCHANGED <<TodoOf, FoundOf, OutcomeOf>>
      BY <2>2, <2>3, <2>4 DEF TodoOf, FoundOf, OutcomeOf
    <2>6. QED
      BY <1>1, <2>5, StateStays
  <1>5. QED
    BY <1>3, <1>4

(* What changes nothing but the leader or the database.                    *)
LEMMA PromiseStays ==
    ASSUME UNCHANGED <<cmd, pc, at, late, known>>
    PROVE  UNCHANGED <<TodoOf, FoundOf, OutcomeOf>>
  BY DEF TodoOf, FoundOf, OutcomeOf, Todo, FromNext, Added, Id, Found, Ended

LEMMA MembershipInit == Init => TypeInv /\ Connected /\ Administration!Init
  <1> SUFFICES ASSUME Init PROVE Connected /\ Administration!Init
    BY TypeInit
  <1>1. Connected
    BY DEF Init, Connected, Requesting
  <1>2. ASSUME NEW o \in Op
        PROVE  Todo(o) = Administration!Requests(cmd[o]) /\ Found(o) = FALSE
    <2>1. CommandType(cmd[o]) /\ pc[o] = "start" /\ at[o] = 1
      BY TypeInit, Kinds DEF TypeInv, Init
    <2>2. Id(o) = cmd[o].ids[1] /\ Todo(o) = FromNext(o)
      BY <2>1 DEF Id, Todo
    <2>3. CASE cmd[o].kind = "assign"
      <3>1. Len(cmd[o].ids) \in Nat /\ Len(cmd[o].ids) + 1 - 1 = Len(cmd[o].ids)
        BY <2>1 DEF CommandType
      <3>2. \A k \in 1..Len(cmd[o].ids) : 1 + k - 1 = k
        OBVIOUS
      <3>3. FromNext(o) = [k \in 1..Len(cmd[o].ids) |-> Asked("assigning", cmd[o].ids[k])]
        BY <2>1, <2>3, <3>1, <3>2 DEF FromNext
      <3>4. QED
        BY <2>1, <2>2, <2>3, <3>3
           DEF Asked, Administration!Requests, Administration!To, Found
    <2>4. CASE cmd[o].kind # "assign"
      BY <2>1, <2>2, <2>4 DEF CommandType, FromNext, Added, Asked, Found,
             Administration!Requests, Administration!To
    <2>5. QED
      BY <2>3, <2>4
  <1>3. QED
    BY <1>1, <1>2 DEF Init, Administration!Init, Administration!Voters, Voters

LEMMA MembershipNext ==
    TypeInv /\ Connected /\ [Next]_vars => [Administration!Next]_Administration!vars
  <1> SUFFICES ASSUME TypeInv, Connected, [Next]_vars
               PROVE  Administration!Next \/ UNCHANGED Administration!vars
    OBVIOUS
  <1>1. CASE Elect
    <2>1. UNCHANGED <<members, cmd, TodoOf, FoundOf, OutcomeOf>>
      BY <1>1, PromiseStays DEF Elect
    <2>2. Administration!Elect
      BY <1>1, <2>1 DEF Elect, Administration!Elect, Voters, Administration!Voters,
                        TodoOf, FoundOf, OutcomeOf, Ended
    <2>3. QED
      BY <2>2 DEF Administration!Next
  <1>2. CASE WriteDatabase \/ UNCHANGED vars
    BY <1>2, PromiseStays, StateStays DEF WriteDatabase, vars
  <1>3. ASSUME NEW o \in Op, Step(o)
        PROVE  \/ UNCHANGED Administration!vars
               \/ Administration!Effect(o) \/ Administration!Look(o)
               \/ Administration!Succeed(o) \/ Administration!Fail(o)
    BY <1>3, FindLeaderRefines, FailRefines, LateRefines, GetMembersRefines,
       RequestRefines, QuietRefines DEF Step
  <1>4. QED
    BY <1>1, <1>2, <1>3 DEF Next, Administration!Next

(* Commands, any number of them at once, keep the promise of Membership:   *)
(* their requests take effect in order and once, all of them when a        *)
(* command succeeds, and at most one after it has failed.                  *)
THEOREM CommandsAreMembership == Spec => ImplementsMembership
  <1>1. TypeInv /\ Connected /\ [Next]_vars => TypeInv' /\ Connected'
    BY TypeNext, ConnectedNext
  <1>2. QED
    BY <1>1, MembershipInit, MembershipNext, PTL
       DEF Spec, ImplementsMembership, Administration!Spec
==============================================================================
