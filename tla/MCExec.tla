-------------------------------- MODULE MCExec -------------------------------
(***************************************************************************)
(* Model-checking instance of Session and, with it, of Exec: every command *)
(* with up to two statements.                                              *)
(***************************************************************************)
EXTENDS Session
==============================================================================
