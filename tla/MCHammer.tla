------------------------------- MODULE MCHammer ------------------------------
(***************************************************************************)
(* Model-checking instance of Hammer.                                      *)
(***************************************************************************)
EXTENDS Hammer
==============================================================================
