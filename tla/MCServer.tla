------------------------------- MODULE MCServer ------------------------------
(***************************************************************************)
(* Model-checking instance of Server: requests are interchangeable, which  *)
(* the runs without temporal properties make use of.                       *)
(***************************************************************************)
EXTENDS Server, TLC

Symmetry == Permutations(Request)
==============================================================================
