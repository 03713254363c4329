------------------------------- MODULE Comments ------------------------------
(***************************************************************************)
(* CleanText of db.go: two regular expressions take the comments out of a  *)
(* text before DBX.Batch splits it into lines, first those in C style and  *)
(* then those in SQL style.  Neither knows of strings, nor of the other.   *)
(*                                                                         *)
(* A text is a sequence of tokens, and what is left of it the set of those *)
(* of its positions that are kept.                                         *)
(***************************************************************************)
EXTENDS Naturals, Sequences

CONSTANT MaxToken   (* bound: the most tokens a text has                    *)

ASSUME CommentsAssumption == MaxToken \in Nat

Blank == {"space", "newline"}
Token == {"word", "quote", "/*", "*/", "--"} \cup Blank
Texts == UNION {[1..n -> Token] : n \in 0..MaxToken}

------------------------------------------------------------------------------
(* /\*.*?\*/ : whether position i is followed by the rest of a match.      *)
InBlock(s) ==
    LET in[i \in 0..Len(s)] ==
          IF i = 0 THEN FALSE
          ELSE IF in[i - 1] THEN s[i] # "*/"
          ELSE s[i] = "/*" /\ \E j \in (i + 1)..Len(s) : s[j] = "*/"
    IN  in

WithoutC(s, kept) ==
    LET in == InBlock(s)
    IN  {i \in kept : ~ in[i - 1] /\ ~ in[i]}

(* \s*--.* : from the blanks before the dashes to the end of the line.     *)
AfterDashes(s, kept, i) == \E d \in kept :
    /\ d <= i /\ s[d] = "--"
    /\ \A j \in kept : d <= j /\ j <= i => s[j] # "newline"

BeforeDashes(s, kept, i) == \E d \in kept :
    /\ d > i /\ s[d] = "--"
    /\ \A j \in kept : i <= j /\ j < d => s[j] \in Blank

WithoutSQL(s, kept) ==
    {i \in kept : ~ AfterDashes(s, kept, i) /\ ~ BeforeDashes(s, kept, i)}

(* Mutation of CleanText: SQL comments are taken out first.                *)
CleanTextSwapped(s) ==
    LET kept == WithoutSQL(s, 1..Len(s))
    IN  kept \cap WithoutC(s, kept)

CleanText(s) == WithoutSQL(s, WithoutC(s, 1..Len(s)))

------------------------------------------------------------------------------
(* What SQL makes of the text: where each position leaves the reader.      *)
ReaderAfter(m, token) ==
    CASE m = "code" /\ token = "quote"   -> "string"
      [] m = "code" /\ token = "/*"      -> "block"
      [] m = "code" /\ token = "--"      -> "line"
      [] m = "string" /\ token = "quote" -> "code"
      [] m = "block" /\ token = "*/"     -> "code"
      [] m = "line" /\ token = "newline" -> "code"
      [] OTHER                           -> m

Reader(s) ==
    LET in[i \in 0..Len(s)] ==
          IF i = 0 THEN "code" ELSE ReaderAfter(in[i - 1], s[i])
    IN  in

(* The end of the line of a comment is not part of it.                     *)
Code(s) ==
    LET in == Reader(s)
    IN  {i \in 1..Len(s) : in[i - 1] # "block" /\ in[i] \notin {"block", "line"}}

(* A text free of what CleanText cannot deal with: marks of comments in    *)
(* strings, C comments that begin in a SQL comment or have no end, and C   *)
(* comments that alone keep two words apart.                               *)
Simple(s) ==
    LET in == Reader(s)
    IN  /\ in[Len(s)] # "block"
        /\ \A i \in 1..Len(s) :
             /\ s[i] \in {"/*", "--"} => in[i - 1] # "string"
             /\ s[i] = "/*" => in[i - 1] # "line"
             /\ s[i] = "/*" /\ in[i - 1] = "code" /\ i > 1 => s[i - 1] \in Blank

Words(s, kept) == {i \in kept : s[i] = "word"}

(* How two words stand to each other when only what is kept lies between.  *)
Apart(s, kept, i, j) ==
    LET between == {s[k] : k \in {k \in kept : i < k /\ k < j}}
    IN  CASE "newline" \in between -> "on two lines"
          [] between = {}          -> "joined"
          [] OTHER                 -> "apart"

(* A simple text keeps its words, in strings or not, and loses those in    *)
(* comments; what remains is neither joined, nor brought onto one line,    *)
(* nor broken into two, so that Batch sees the statements there are.       *)
Cleaned(s) == Simple(s) =>
    LET clean == CleanText(s)
        code  == Code(s)
    IN  /\ Words(s, clean) = Words(s, code)
        /\ \A i, j \in Words(s, code) : i < j =>
             Apart(s, clean, i, j) = Apart(s, code, i, j)
==============================================================================
