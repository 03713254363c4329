---------------------------- MODULE CommentsProofs ---------------------------
(***************************************************************************)
(* Proofs about Comments, for a text of any length: what CleanText leaves  *)
(* of a simple text is what SQL sees in it.                                *)
(*                                                                         *)
(* The argument.  In a simple text the first expression finds the C        *)
(* comments where the reader does (BlockSame), and then the second finds   *)
(* the SQL comments where the reader does (AfterIsLine).  Besides, the     *)
(* second takes the blanks before dashes, ends of lines among them; where  *)
(* it does so between two words, the line of the comment ends between them *)
(* too, and that end stays (LineEnds).                                     *)
(*                                                                         *)
(* InBlock and Reader are recursive functions: their values follow from    *)
(* the existence of such a function (Recursion), and what holds at every   *)
(* position by induction on a set of positions (Induct).                   *)
(***************************************************************************)
EXTENDS MCBatch, WellFoundedInduction, TLAPS

------------------------------------------------------------------------------
(* A set of numbers has a least member.                                    *)
LEMMA Least ==
    ASSUME NEW T, T \subseteq Nat, T # {}
    PROVE  \E x \in T : \A y \in T : x <= y
  <1> DEFINE R == OpToRel(<, Nat)
  <1>1. IsWellFoundedOn(R, Nat)
    BY NatLessThanWellFounded
  <1>2. R = {ss \in Nat \X Nat : ss[1] < ss[2]}
    BY DEF OpToRel
  <1> HIDE DEF R
  <1>3. PICK x \in T : \A y \in T : ~ (<<y, x>> \in R)
    BY <1>1, WFMin
  <1>4. ASSUME NEW y \in T PROVE x <= y
    <2>1. x \in Nat /\ y \in Nat /\ <<y, x>> \in Nat \X Nat
      OBVIOUS
    <2>2. y < x => <<y, x>> \in R
      BY <1>2, <2>1
    <2>3. QED
      BY <1>3, <2>1, <2>2
  <1>5. QED
    BY <1>4

(* And a greatest one, if there is a bound.                                *)
LEMMA Greatest ==
    ASSUME NEW T, T \subseteq Nat, T # {}, NEW b \in Nat, \A x \in T : x <= b
    PROVE  \E x \in T : \A y \in T : y <= x
  <1> DEFINE U == {b - x : x \in T}
  <1>1. U \subseteq Nat /\ U # {}
    <2>1. \A x \in T : x \in Nat /\ x <= b /\ b - x \in Nat
      OBVIOUS
    <2>2. QED
      BY <2>1
  <1>2. PICK u \in U : \A y \in U : u <= y
    <2> HIDE DEF U
    <2>1. QED
      BY <1>1, Least
  <1>3. PICK x \in T : u = b - x
    BY <1>2
  <1>4. ASSUME NEW y \in T PROVE y <= x
    <2>1. b - y \in U
      OBVIOUS
    <2>2. b - x <= b - y
      BY <1>2, <1>3, <2>1
    <2>3. x \in Nat /\ y \in Nat
      OBVIOUS
    <2>4. QED
      BY <2>2, <2>3
  <1>5. QED
    BY <1>4

(* Induction from a to b, on a set: the induction theorems of the library    *)
(* take a predicate, which the provers here cannot be given.                *)
LEMMA Induct ==
    ASSUME NEW a \in Nat, NEW b \in Nat, NEW T, a \in T,
           \A i \in Nat : a <= i /\ i < b /\ i \in T => i + 1 \in T
    PROVE  \A i \in a..b : i \in T
  <1> SUFFICES ASSUME NEW i \in a..b, i \notin T PROVE FALSE
    OBVIOUS
  <1> DEFINE X == {j \in a..b : j \notin T}
  <1>1. PICK x \in X : \A y \in X : x <= y
    <2>1. X \subseteq Nat /\ X # {}
      OBVIOUS
    <2> HIDE DEF X
    <2>2. QED
      BY <2>1, Least
  <1>2. x # a /\ x \in Nat /\ a <= x /\ x <= b
    OBVIOUS
  <1>3. x - 1 \in T
    BY <1>1, <1>2
  <1>4. x - 1 + 1 \in T
    BY <1>2, <1>3
  <1>5. QED
    BY <1>2, <1>4

(* What a function that is defined by recursion over 0..n is, given its     *)
(* first value and how each value follows from the one before.             *)
StepOf(n, V) == [(1..n) \X V -> V]
RunOf(n, V, v, g) == {f \in [0..n -> V] :
    /\ f[0] = v
    /\ \A i \in 1..n : f[i] = g[<<i, f[i - 1]>>]}

LEMMA Recursion ==
    ASSUME NEW n \in Nat, NEW V, NEW v \in V, NEW g \in StepOf(n, V)
    PROVE  RunOf(n, V, v, g) # {}
  <1>0. g \in [(1..n) \X V -> V]
    BY DEF StepOf
  <1> DEFINE T == {m \in 0..n : \E f \in [0..m -> V] :
             /\ f[0] = v
             /\ \A i \in 1..m : f[i] = g[<<i, f[i - 1]>>]}
  <1>1. 0 \in T
    <2> DEFINE h == [i \in 0..0 |-> v]
    <2>1. h \in [0..0 -> V] /\ h[0] = v
      OBVIOUS
    <2> HIDE DEF h
    <2>2. \A i \in 1..0 : h[i] = g[<<i, h[i - 1]>>]
      OBVIOUS
    <2>3. 0 \in 0..n
      OBVIOUS
    <2>4. QED
      BY <2>1, <2>2, <2>3
  <1>2. ASSUME NEW m \in Nat, m < n, m \in T
        PROVE  m + 1 \in T
    <2>1. PICK f \in [0..m -> V] :
             /\ f[0] = v
             /\ \A i \in 1..m : f[i] = g[<<i, f[i - 1]>>]
      BY <1>2
    <2> DEFINE h == [i \in 0..(m + 1) |-> IF i = m + 1 THEN g[<<m + 1, f[m]>>] ELSE f[i]]
    <2>2. g[<<m + 1, f[m]>>] \in V
      BY <1>0, <1>2, <2>1
    <2>3. h \in [0..(m + 1) -> V]
      BY <2>1, <2>2
    <2>4. h[0] = v
      BY <2>1
    <2>5. ASSUME NEW i \in 1..(m + 1)
          PROVE  h[i] = g[<<i, h[i - 1]>>]
      <3>1. CASE i = m + 1
        <4>1. h[i] = g[<<m + 1, f[m]>>]
          BY <3>1
        <4>2. h[i - 1] = f[m]
          BY <3>1
        <4>3. QED
          BY <3>1, <4>1, <4>2
      <3>2. CASE i \in 1..m
        <4>1. h[i] = f[i] /\ h[i - 1] = f[i - 1]
          BY <3>2
        <4>2. QED
          BY <3>2, <4>1, <2>1
      <3>3. QED
        BY <3>1, <3>2
    <2> HIDE DEF h
    <2>6. m + 1 \in 0..n
      BY <1>2
    <2>7. QED
      BY <2>3, <2>4, <2>5, <2>6
  <1> HIDE DEF T
  <1>3. \A i \in 0..n : i \in T
    BY <1>1, <1>2, Induct
  <1>4. n \in T
    BY <1>3
  <1>5. QED
    BY <1>4 DEF T, RunOf

------------------------------------------------------------------------------
(* The two functions of Comments that are defined by recursion.            *)
LEMMA InBlockIs ==
    ASSUME NEW s \in Seq(Token)
    PROVE  /\ InBlock(s) \in [0..Len(s) -> BOOLEAN]
           /\ ~ InBlock(s)[0]
           /\ \A i \in 1..Len(s) : InBlock(s)[i] =
                IF InBlock(s)[i - 1] THEN s[i] # "*/"
                ELSE s[i] = "/*" /\ \E j \in (i + 1)..Len(s) : s[j] = "*/"
  <1> DEFINE n == Len(s)
             g == [p \in (1..n) \X BOOLEAN |->
                     IF p[2] THEN s[p[1]] # "*/"
                     ELSE s[p[1]] = "/*" /\ \E j \in (p[1] + 1)..n : s[j] = "*/"]
  <1>1. n \in Nat
    OBVIOUS
  <1>2. g \in [(1..n) \X BOOLEAN -> BOOLEAN]
    OBVIOUS
  <1>3. ASSUME NEW i \in 1..n, NEW b \in BOOLEAN
        PROVE  g[<<i, b>>] = IF b THEN s[i] # "*/"
                     ELSE s[i] = "/*" /\ \E j \in (i + 1)..n : s[j] = "*/"
    OBVIOUS
  <1> HIDE DEF g
  <1>4. PICK f \in [0..n -> BOOLEAN] :
             /\ f[0] = FALSE
             /\ \A i \in 1..n : f[i] = g[<<i, f[i - 1]>>]
    <2> DEFINE V == BOOLEAN
               v == FALSE
    <2>1. v \in V /\ g \in StepOf(n, V)
      BY <1>2 DEF StepOf
    <2> HIDE DEF n, V, v
    <2>2. RunOf(n, V, v, g) # {}
      BY <1>1, <2>1, Recursion
    <2>3. QED
      BY <2>2 DEF RunOf, V, v
  <1>5. \A i \in 1..n : i - 1 \in 0..n
    BY <1>1
  <1>6. \A i \in 1..n : f[i] = IF f[i - 1] THEN s[i] # "*/"
                     ELSE s[i] = "/*" /\ \E j \in (i + 1)..n : s[j] = "*/"
    BY <1>3, <1>4, <1>5
  <1>7. f = [i \in 0..n |->
          IF i = 0 THEN FALSE
          ELSE IF f[i - 1] THEN s[i] # "*/"
          ELSE s[i] = "/*" /\ \E j \in (i + 1)..Len(s) : s[j] = "*/"]
    <2>1. \A i \in 0..n : f[i] = IF i = 0 THEN FALSE
          ELSE IF f[i - 1] THEN s[i] # "*/"
          ELSE s[i] = "/*" /\ \E j \in (i + 1)..Len(s) : s[j] = "*/"
      BY <1>1, <1>4, <1>6
    <2>2. QED
      BY <1>4, <2>1
  <1>8. InBlock(s) = [i \in 0..Len(s) |->
          IF i = 0 THEN FALSE
          ELSE IF InBlock(s)[i - 1] THEN s[i] # "*/"
          ELSE s[i] = "/*" /\ \E j \in (i + 1)..Len(s) : s[j] = "*/"]
    BY <1>7 DEF InBlock
  <1>9. ASSUME NEW i \in 1..n
        PROVE  InBlock(s)[i] = IF InBlock(s)[i - 1] THEN s[i] # "*/"
                ELSE s[i] = "/*" /\ \E j \in (i + 1)..Len(s) : s[j] = "*/"
    BY <1>1, <1>8
  <1>10. ~ InBlock(s)[0]
    BY <1>1, <1>8
  <1>11. ASSUME NEW h, h = [i \in 0..Len(s) |->
          IF i = 0 THEN FALSE
          ELSE IF h[i - 1] THEN s[i] # "*/"
          ELSE s[i] = "/*" /\ \E j \in (i + 1)..Len(s) : s[j] = "*/"]
         PROVE h \in [0..Len(s) -> BOOLEAN]
    <2> DEFINE e(i) == IF i = 0 THEN FALSE
          ELSE IF h[i - 1] THEN s[i] # "*/"
          ELSE s[i] = "/*" /\ \E j \in (i + 1)..Len(s) : s[j] = "*/"
    <2>1. \A i \in 0..Len(s) : e(i) \in BOOLEAN
      OBVIOUS
    <2> HIDE DEF e
    <2>2. [i \in 0..Len(s) |-> e(i)] \in [0..Len(s) -> BOOLEAN]
      BY <2>1
    <2>3. h = [i \in 0..Len(s) |-> e(i)]
      BY <1>11 DEF e
    <2>4. QED
      BY <2>2, <2>3
  <1>12. QED
    BY <1>8, <1>9, <1>10, <1>11

(* Where a reader can be.                                                  *)
Mode == {"code", "string", "block", "line"}

LEMMA ReaderAfterMode ==
    ASSUME NEW m \in Mode, NEW token
    PROVE  ReaderAfter(m, token) \in Mode
  BY DEF ReaderAfter, Mode

LEMMA ReaderIs ==
    ASSUME NEW s \in Seq(Token)
    PROVE  /\ Reader(s) \in [0..Len(s) -> Mode]
           /\ Reader(s)[0] = "code"
           /\ \A i \in 1..Len(s) : Reader(s)[i] = ReaderAfter(Reader(s)[i - 1], s[i])
  <1> DEFINE n == Len(s)
             g == [p \in (1..n) \X Mode |-> ReaderAfter(p[2], s[p[1]])]
  <1>1. n \in Nat
    OBVIOUS
  <1>2. g \in StepOf(n, Mode)
    BY ReaderAfterMode DEF StepOf
  <1>3. ASSUME NEW i \in 1..n, NEW m \in Mode
        PROVE  g[<<i, m>>] = ReaderAfter(m, s[i])
    OBVIOUS
  <1> HIDE DEF g
  <1>4. PICK f \in RunOf(n, Mode, "code", g) : TRUE
    <2> HIDE DEF n
    <2>1. "code" \in Mode
      BY DEF Mode
    <2>2. QED
      BY <1>1, <1>2, <2>1, Recursion
  <1>5. f \in [0..n -> Mode] /\ f[0] = "code"
    BY <1>4 DEF RunOf
  <1>6. ASSUME NEW i \in 1..n
        PROVE  i - 1 \in 0..n /\ f[i] = ReaderAfter(f[i - 1], s[i])
    <2>1. i - 1 \in 0..n
      BY <1>1
    <2>2. f[i] = g[<<i, f[i - 1]>>]
      BY <1>4 DEF RunOf
    <2>3. QED
      BY <1>3, <1>5, <2>1, <2>2
  <1>7. f = [i \in 0..n |-> IF i = 0 THEN "code" ELSE ReaderAfter(f[i - 1], s[i])]
    <2>1. \A i \in 0..n : f[i] =
             IF i = 0 THEN "code" ELSE ReaderAfter(f[i - 1], s[i])
      BY <1>1, <1>5, <1>6
    <2>2. QED
      BY <1>5, <2>1
  <1>8. Reader(s) = [i \in 0..Len(s) |->
             IF i = 0 THEN "code" ELSE ReaderAfter(Reader(s)[i - 1], s[i])]
    BY <1>7 DEF Reader
  <1>9. Reader(s)[0] = "code"
    BY <1>1, <1>8
  <1>10. ASSUME NEW i \in 1..n
         PROVE  Reader(s)[i] = ReaderAfter(Reader(s)[i - 1], s[i])
    BY <1>1, <1>8
  <1>11. \A i \in 0..n : Reader(s)[i] \in Mode
    <2> DEFINE T == {i \in 0..n : Reader(s)[i] \in Mode}
    <2>1. 0 \in T
      BY <1>1, <1>9 DEF Mode
    <2>2. ASSUME NEW i \in Nat, 0 <= i, i < n, i \in T
          PROVE  i + 1 \in T
      <3>1. i + 1 \in 1..n /\ i + 1 - 1 = i
        BY <1>1, <2>2
      <3>2. Reader(s)[i + 1] = ReaderAfter(Reader(s)[i], s[i + 1])
        BY <1>10, <3>1
      <3>3. QED
        BY <2>2, <3>1, <3>2, ReaderAfterMode
    <2> HIDE DEF T, n
    <2>3. \A i \in 0..n : i \in T
      BY <1>1, <2>1, <2>2, Induct
    <2>4. QED
      BY <2>3 DEF T
  <1>12. QED
    BY <1>8, <1>9, <1>10, <1>11

------------------------------------------------------------------------------
(* A C comment without an end goes on to the end of the text.              *)
LEMMA BlockGoesOn ==
    ASSUME NEW s \in Seq(Token), NEW a \in 0..Len(s), Reader(s)[a] = "block",
           \A j \in (a + 1)..Len(s) : s[j] # "*/"
    PROVE  Reader(s)[Len(s)] = "block"
  <1> DEFINE n == Len(s)
             T == {i \in 0..n : Reader(s)[i] = "block"}
  <1>1. n \in Nat /\ a \in Nat /\ a <= n
    OBVIOUS
  <1>2. ASSUME NEW i \in Nat, a <= i, i < n, i \in T
        PROVE  i + 1 \in T
    <2>1. i + 1 \in 1..n /\ i + 1 \in (a + 1)..n /\ i + 1 - 1 = i
      BY <1>1, <1>2
    <2>2. Reader(s)[i + 1] = ReaderAfter("block", s[i + 1])
      BY <1>2, <2>1, ReaderIs
    <2>3. s[i + 1] # "*/"
      BY <2>1
    <2>4. QED
      BY <2>1, <2>2, <2>3 DEF ReaderAfter
  <1>3. a \in T
    BY <1>1
  <1> HIDE DEF T, n
  <1>4. \A i \in a..n : i \in T
    BY <1>1, <1>2, <1>3, Induct
  <1>5. QED
    BY <1>1, <1>4 DEF T, n

(* The first expression of CleanText finds the C comments of a simple text.*)
LEMMA BlockSame ==
    ASSUME NEW s \in Seq(Token), Simple(s)
    PROVE  \A i \in 0..Len(s) : InBlock(s)[i] <=> Reader(s)[i] = "block"
  <1> DEFINE n == Len(s)
             T == {i \in 0..n : InBlock(s)[i] <=> Reader(s)[i] = "block"}
  <1>1. n \in Nat
    OBVIOUS
  <1>2. 0 \in T
    BY <1>1, InBlockIs, ReaderIs
  <1>3. ASSUME NEW i \in Nat, 0 <= i, i < n, i \in T
        PROVE  i + 1 \in T
    <2> DEFINE m == Reader(s)[i]
               token == s[i + 1]
    <2>1. i \in 0..n /\ i + 1 \in 1..n /\ i + 1 \in 0..n /\ i + 1 - 1 = i
      BY <1>1, <1>3
    <2>2. /\ m \in Mode
          /\ Reader(s)[i + 1] = ReaderAfter(m, token)
      BY <2>1, ReaderIs
    <2>3. InBlock(s)[i] \in BOOLEAN /\ InBlock(s)[i + 1] \in BOOLEAN
      BY <2>1, InBlockIs
    <2>4. InBlock(s)[i + 1] =
                IF InBlock(s)[i] THEN token # "*/"
                ELSE token = "/*" /\ \E j \in (i + 2)..n : s[j] = "*/"
      <3>1. i + 1 + 1 = i + 2
        OBVIOUS
      <3>2. QED
        BY <2>1, <3>1, InBlockIs
    <2>5. InBlock(s)[i] <=> m = "block"
      BY <1>3
    <2>6. token = "/*" => m \notin {"string", "line"}
      BY <2>1 DEF Simple
    <2>7. Reader(s)[n] # "block"
      BY DEF Simple
    <2>8. CASE m = "block"
      BY <2>1, <2>2, <2>3, <2>4, <2>5, <2>8 DEF ReaderAfter
    <2>9. CASE m # "block" /\ token # "/*"
      BY <2>1, <2>2, <2>3, <2>4, <2>5, <2>9 DEF ReaderAfter, Mode
    <2>10. CASE m # "block" /\ token = "/*"
      <3>1. Reader(s)[i + 1] = "block"
        BY <2>2, <2>6, <2>10 DEF ReaderAfter, Mode
      <3>2. \E j \in (i + 2)..n : s[j] = "*/"
        <4>1. i + 1 + 1 = i + 2
          OBVIOUS
        <4>2. QED
          BY <2>1, <2>7, <3>1, <4>1, BlockGoesOn
      <3>3. QED
        BY <2>1, <2>3, <2>4, <2>5, <2>10, <3>1, <3>2
    <2>11. QED
      BY <2>8, <2>9, <2>10
  <1> HIDE DEF T, n
  <1>4. \A i \in 0..n : i \in T
    BY <1>1, <1>2, <1>3, Induct
  <1>5. QED
    BY <1>4 DEF T, n

(* What the first expression leaves.                                       *)
Shown(s) == {i \in 1..Len(s) : Reader(s)[i - 1] # "block" /\ Reader(s)[i] # "block"}

LEMMA WithoutCIs ==
    ASSUME NEW s \in Seq(Token), Simple(s)
    PROVE  WithoutC(s, 1..Len(s)) = Shown(s)
  <1>1. \A i \in 1..Len(s) : i - 1 \in 0..Len(s) /\ i \in 0..Len(s)
    OBVIOUS
  <1>2. QED
    BY <1>1, BlockSame DEF WithoutC, Shown

LEMMA CodeIs ==
    ASSUME NEW s \in Seq(Token)
    PROVE  Code(s) = {i \in Shown(s) : Reader(s)[i] # "line"}
  BY DEF Code, Shown

(* The reader goes into a line comment at dashes, and leaves it at the end *)
(* of the line.                                                            *)
LEMMA LineBegins ==
    ASSUME NEW s \in Seq(Token), Simple(s), NEW d \in Shown(s), s[d] = "--"
    PROVE  Reader(s)[d] = "line"
  <1>1. d \in 1..Len(s) /\ d - 1 \in 0..Len(s)
    BY DEF Shown
  <1>2. Reader(s)[d - 1] \in {"code", "line"}
    BY <1>1, ReaderIs DEF Simple, Shown, Mode
  <1>3. Reader(s)[d] = ReaderAfter(Reader(s)[d - 1], "--")
    BY <1>1, ReaderIs
  <1>4. QED
    BY <1>2, <1>3 DEF ReaderAfter

LEMMA LineGoesOn ==
    ASSUME NEW s \in Seq(Token), NEW i \in 1..Len(s), Reader(s)[i - 1] = "line"
    PROVE  /\ i \in Shown(s)
           /\ s[i] = "newline" => Reader(s)[i] = "code"
           /\ s[i] # "newline" => Reader(s)[i] = "line"
  <1>1. Reader(s)[i] = ReaderAfter("line", s[i])
    BY ReaderIs
  <1>2. QED
    BY <1>1 DEF ReaderAfter, Shown

(* The second finds the SQL comments, in what the first leaves.            *)
LEMMA AfterIsLine ==
    ASSUME NEW s \in Seq(Token), Simple(s), NEW i \in Shown(s)
    PROVE  AfterDashes(s, Shown(s), i) <=> Reader(s)[i] = "line"
  <1> DEFINE n == Len(s)
  <1>1. n \in Nat /\ i \in 1..n /\ i \in Nat
    BY DEF Shown
  <1>2. ASSUME AfterDashes(s, Shown(s), i)
        PROVE  Reader(s)[i] = "line"
    <2>1. PICK d \in Shown(s) :
             /\ d <= i /\ s[d] = "--"
             /\ \A j \in Shown(s) : d <= j /\ j <= i => s[j] # "newline"
      BY <1>2 DEF AfterDashes
    <2>2. d \in 1..n /\ d \in Nat
      BY DEF Shown
    <2> DEFINE T == {k \in d..i : Reader(s)[k] = "line"}
    <2>3. d \in T
      BY <1>1, <2>1, <2>2, LineBegins
    <2>4. ASSUME NEW k \in Nat, d <= k, k < i, k \in T
          PROVE  k + 1 \in T
      <3>1. k + 1 \in 1..n /\ k + 1 - 1 = k /\ d <= k + 1 /\ k + 1 <= i
        BY <1>1, <2>2, <2>4
      <3>2. k + 1 \in Shown(s) /\ (s[k + 1] # "newline" => Reader(s)[k + 1] = "line")
        BY <2>4, <3>1, LineGoesOn
      <3>3. QED
        BY <2>1, <2>2, <2>4, <3>1, <3>2
    <2> HIDE DEF T
    <2>5. \A k \in d..i : k \in T
      BY <1>1, <2>2, <2>3, <2>4, Induct
    <2>6. QED
      BY <1>1, <2>1, <2>2, <2>5 DEF T
  <1>3. ASSUME Reader(s)[i] = "line"
        PROVE  AfterDashes(s, Shown(s), i)
    <2> DEFINE T == {k \in 0..i : \A j \in k..i : Reader(s)[j] = "line"}
    <2>1. PICK d \in T : \A y \in T : d <= y
      <3>1. i \in T /\ T \subseteq Nat
        BY <1>1, <1>3
      <3> HIDE DEF T
      <3>2. QED
        BY <3>1, Least
    <2>2. d \in 0..i /\ d \in d..i
      BY <1>1
    <2>3. Reader(s)[d] = "line"
      BY <2>1, <2>2
    <2>4. d # 0
      BY <2>3, ReaderIs
    <2>5. d \in 1..n /\ d - 1 \in 0..n /\ d - 1 \in 0..i
      BY <1>1, <2>2, <2>4
    <2>6. Reader(s)[d - 1] # "line"
      <3>1. SUFFICES ASSUME Reader(s)[d - 1] = "line"
                     PROVE  d - 1 \in T
        BY <2>1, <2>5
      <3>2. \A j \in (d - 1)..i : j = d - 1 \/ j \in d..i
        BY <2>5
      <3>3. QED
        BY <2>1, <2>5, <3>1, <3>2
    <2>7. Reader(s)[d] = ReaderAfter(Reader(s)[d - 1], s[d]) /\ Reader(s)[d - 1] \in Mode
      BY <2>5, ReaderIs
    <2>8. Reader(s)[d - 1] = "code" /\ s[d] = "--"
      BY <2>3, <2>6, <2>7 DEF ReaderAfter, Mode
    <2>9. d \in Shown(s)
      BY <2>3, <2>5, <2>8 DEF Shown
    <2>10. ASSUME NEW j \in Shown(s), d <= j, j <= i
           PROVE  s[j] # "newline"
      <3>1. j \in 1..n
        BY DEF Shown
      <3>2. CASE j = d
        BY <2>8, <3>2
      <3>3. CASE j # d
        <4>1. j \in d..i /\ j - 1 \in d..i
          BY <2>5, <2>10, <3>1, <3>3
        <4>2. Reader(s)[j] = "line" /\ Reader(s)[j - 1] = "line"
          BY <2>1, <4>1
        <4>3. QED
          BY <3>1, <4>2, LineGoesOn
      <3>4. QED
        BY <3>2, <3>3
    <2>11. d <= i
      BY <2>2, <1>1
    <2>12. QED
      BY <2>8, <2>9, <2>10, <2>11 DEF AfterDashes
  <1>4. QED
    BY <1>2, <1>3

(* So CleanText leaves the code, but for some of the blanks.               *)
LEMMA CleanTextIs ==
    ASSUME NEW s \in Seq(Token), Simple(s)
    PROVE  CleanText(s) = {i \in Code(s) : ~ BeforeDashes(s, Shown(s), i)}
  <1>1. CleanText(s) = {i \in Shown(s) : /\ Reader(s)[i] # "line"
                                         /\ ~ BeforeDashes(s, Shown(s), i)}
    BY WithoutCIs, AfterIsLine DEF CleanText, WithoutSQL
  <1>2. QED
    BY <1>1, CodeIs

(* Only blanks are taken from what is code.                                *)
LEMMA RemovedBlank ==
    ASSUME NEW s \in Seq(Token), Simple(s), NEW i \in Code(s),
           BeforeDashes(s, Shown(s), i)
    PROVE  s[i] \in Blank
  <1>1. i \in Shown(s) /\ i \in Nat
    BY CodeIs DEF Shown
  <1>2. PICK d \in Shown(s) :
           /\ d > i /\ s[d] = "--"
           /\ \A j \in Shown(s) : i <= j /\ j < d => s[j] \in Blank
    BY DEF BeforeDashes
  <1>3. d \in Nat
    BY DEF Shown
  <1>4. QED
    BY <1>1, <1>2, <1>3

(* Where something is taken from between two words, a line ends.           *)
LEMMA LineEnds ==
    ASSUME NEW s \in Seq(Token), Simple(s),
           NEW i \in Code(s), NEW j \in Code(s), s[j] = "word",
           NEW k \in Code(s), i < k, k < j, BeforeDashes(s, Shown(s), k)
    PROVE  \E e \in CleanText(s) : i < e /\ e < j /\ s[e] = "newline"
  <1> DEFINE n == Len(s)
  <1>0. /\ n \in Nat
        /\ Shown(s) \subseteq 1..n
        /\ i \in Shown(s) /\ j \in Shown(s) /\ k \in Shown(s)
    BY CodeIs DEF Shown
  <1> DEFINE D == {d \in Shown(s) : i < d /\ d < j /\ s[d] = "--"}
  <1>1. PICK d \in D : \A y \in D : y <= d
    <2>1. PICK d \in Shown(s) :
             /\ d > k /\ s[d] = "--"
             /\ \A l \in Shown(s) : k <= l /\ l < d => s[l] \in Blank
      BY DEF BeforeDashes
    <2>2. ~ (j < d) /\ j # d
      BY <1>0, <2>1 DEF Blank
    <2>3. d \in D
      BY <1>0, <2>1, <2>2
    <2>4. D \subseteq Nat /\ \A x \in D : x <= n
      BY <1>0
    <2> HIDE DEF D, n
    <2>5. QED
      BY <1>0, <2>3, <2>4, Greatest
  <1>2. Reader(s)[d] = "line"
    BY <1>1, LineBegins
  <1> DEFINE E == {e \in (d + 1)..j : Reader(s)[e] # "line"}
  <1>3. PICK e \in E : \A y \in E : e <= y
    <2>1. j \in E /\ E \subseteq Nat
      BY <1>0, <1>1, CodeIs
    <2> HIDE DEF E
    <2>2. QED
      BY <2>1, Least
  <1>4. e \in 1..n /\ d < e /\ e <= j /\ d \in Nat /\ i < d
    BY <1>0, <1>1, <1>3
  <1>5. Reader(s)[e - 1] = "line"
    <2>1. CASE e - 1 = d
      BY <1>2, <2>1
    <2>2. CASE e - 1 # d
      <3>1. e - 1 \in (d + 1)..j /\ ~ (e <= e - 1)
        BY <1>0, <1>4, <2>2
      <3>2. QED
        BY <1>3, <3>1
    <2>3. QED
      BY <2>1, <2>2
  <1>6. e \in Shown(s) /\ s[e] = "newline" /\ Reader(s)[e] # "line"
    BY <1>3, <1>4, <1>5, LineGoesOn
  <1>7. e < j /\ i < e
    BY <1>0, <1>4, <1>6
  <1>8. ~ BeforeDashes(s, Shown(s), e)
    <2>1. SUFFICES ASSUME NEW c \in Shown(s), c > e, s[c] = "--",
                          \A l \in Shown(s) : e <= l /\ l < c => s[l] \in Blank
                   PROVE  FALSE
      BY DEF BeforeDashes
    <2>2. c < j
      BY <1>0, <1>7, <2>1 DEF Blank
    <2>3. c \in D /\ d < c
      BY <1>0, <1>4, <1>7, <2>1, <2>2
    <2>4. QED
      BY <1>0, <1>1, <1>4, <2>3
  <1>9. QED
    BY <1>6, <1>7, <1>8, CodeIs, CleanTextIs

(* CleanText takes from a text of any length, if it has no marks of        *)
(* comments in strings and the like, all words in comments and no others,  *)
(* and neither joins two words nor brings them onto one line or breaks     *)
(* their line in two: Batch gets the statements that are there.            *)
THEOREM CleanTextKeepsWhatIsCode == \A s \in Seq(Token) : Cleaned(s)
  <1> SUFFICES ASSUME NEW s \in Seq(Token), Simple(s)
               PROVE  /\ Words(s, CleanText(s)) = Words(s, Code(s))
                      /\ \A i, j \in Words(s, Code(s)) : i < j =>
                           Apart(s, CleanText(s), i, j) = Apart(s, Code(s), i, j)
    BY DEF Cleaned
  <1>1. CleanText(s) \subseteq Code(s)
    BY CleanTextIs
  <1>2. Words(s, CleanText(s)) = Words(s, Code(s))
    <2>1. ASSUME NEW i \in Code(s), s[i] = "word"
          PROVE  i \in CleanText(s)
      BY <2>1, CleanTextIs, RemovedBlank DEF Blank
    <2>2. QED
      BY <1>1, <2>1 DEF Words
  <1>3. ASSUME NEW i \in Words(s, Code(s)), NEW j \in Words(s, Code(s)), i < j
        PROVE  Apart(s, CleanText(s), i, j) = Apart(s, Code(s), i, j)
    <2> DEFINE clean == {s[k] : k \in {k \in CleanText(s) : i < k /\ k < j}}
               code  == {s[k] : k \in {k \in Code(s) : i < k /\ k < j}}
    <2>1. CASE \E k \in Code(s) : i < k /\ k < j /\ BeforeDashes(s, Shown(s), k)
      <3>1. "newline" \in clean
        BY <1>3, <2>1, LineEnds DEF Words
      <3>2. "newline" \in code
        BY <1>1, <3>1
      <3>3. QED
        BY <3>1, <3>2 DEF Apart
    <2>2. CASE ~ \E k \in Code(s) : i < k /\ k < j /\ BeforeDashes(s, Shown(s), k)
      <3>1. {k \in CleanText(s) : i < k /\ k < j} = {k \in Code(s) : i < k /\ k < j}
        BY <2>2, CleanTextIs
      <3>2. clean = code
        BY <3>1
      <3>3. QED
        BY <3>2 DEF Apart
    <2>3. QED
      BY <2>1, <2>2
  <1>4. QED
    BY <1>2, <1>3

(* What a run checks for short texts: CleanText removes the comments.      *)
THEOREM CleanTextRemovesCommentsAlways == Spec => []CleanTextRemovesComments
  <1>1. Texts \subseteq Seq(Token)
    BY DEF Texts
  <1>2. CleanTextRemovesComments
    BY <1>1, CleanTextKeepsWhatIsCode DEF CleanTextRemovesComments
  <1>3. QED
    BY <1>2, PTL
==============================================================================
