------------------------------ MODULE MCTransact -----------------------------
(***************************************************************************)
(* Model-checking instance of Transact: files of every length up to a      *)
(* bound, cut short by a read error or not.                                *)
(***************************************************************************)
EXTENDS Transact
==============================================================================
