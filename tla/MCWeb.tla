-------------------------------- MODULE MCWeb --------------------------------
(***************************************************************************)
(* Model-checking instance of Web: requests are interchangeable.           *)
(***************************************************************************)
EXTENDS Web, TLC

Symmetry == Permutations(Request)

(* Bound: of the clients one at most stalls and one at most has hung up.   *)
FewDisturbances == Cardinality(coming) <= 1 /\ Cardinality(gone) <= 1
==============================================================================
