------------------------------- MODULE MCBatch -------------------------------
(***************************************************************************)
(* Model-checking instance of Batch: every text up to a number of lines;   *)
(* and of Comments: every text up to a number of tokens.                   *)
(***************************************************************************)
EXTENDS Batch, Comments

(* Batch is given what the text says, without its comments (CleanText).    *)
(* This is about no state of Batch: it is evaluated where there is nothing *)
(* to read, which spares all other states.                                 *)
CleanTextRemovesComments == text = <<>> => \A s \in Texts : Cleaned(s)
==============================================================================
