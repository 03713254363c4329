------------------------------ MODULE MCCommands -----------------------------
(***************************************************************************)
(* Model-checking instance of Commands: two voters and a spare, and any    *)
(* commands about them and about a fourth node.                            *)
(***************************************************************************)
EXTENDS Commands, TLC

MCCluster == (1 :> [addr |-> "a", role |-> "voter"])
          @@ (2 :> [addr |-> "b", role |-> "voter"])
          @@ (3 :> [addr |-> "c", role |-> "spare"])

Make(kind, ids, addr, role) ==
    [kind |-> kind, ids |-> ids, addr |-> addr, role |-> role]

MCCommand == {
    Make("add", <<4>>, "d", "voter"),
    Make("add", <<4>>, "d", "spare"),
    Make("add", <<4>>, "e", "standby"),
    Make("add", <<0>>, "f", "voter"),
    Make("add", <<1>>, "a", "spare"),
    Make("assign", <<3, 1, 4>>, "", "standby"),
    Make("transfer", <<2>>, "", "voter"),
    Make("remove", <<4>>, "", "voter"),
    Make("dump", <<>>, "", "voter") }

Symmetry == Permutations(Op)
==============================================================================
