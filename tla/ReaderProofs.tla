---------------------------- MODULE ReaderProofs ----------------------------
(***************************************************************************)
(* The reader for every text, every number of forms and every size of the  *)
(* arena: the preflight counts exactly the cells the parser takes, the     *)
(* outcome of a text is the one its parentheses call for, and a value      *)
(* prints back as the text it was read from.                               *)
(*                                                                         *)
(* The counts are functions of the text here (ts), so that what is said of *)
(* them can be carried from one step to the next.                          *)
(***************************************************************************)
EXTENDS Reader, Integers, SequenceTheorems, FiniteSetTheorems, WellFoundedInduction, TLAPS

Count(ts, kinds, from, to) == Cardinality({k \in from..to : ts[k] \in kinds})

Opened(ts, i) == Count(ts, {"("}, 1, i)
Shut(ts, i) == Count(ts, {")"}, 1, i)
Cells(ts, i) == Count(ts, {"(", "atom", "str"}, 2, i)

\* No form ends at or before token i.
Unended(ts, i) == \A j \in 1..i : Opened(ts, j) > Shut(ts, j)

Ends(ts, i) == Opened(ts, i) = Shut(ts, i) /\ Unended(ts, i - 1)

Needs(ts) ==
    IF ts = << >> \/ ts[1] # "(" THEN {0}
    ELSE {Cells(ts, i) : i \in {j \in 1..Len(ts) : Ends(ts, j)}}

First(ts) ==
    IF ts = << >> THEN {}
    ELSE IF ts[1] \in {"atom", "str"} THEN {1}
    ELSE {i \in 1..Len(ts) : Ends(ts, i)}

\* They are the model's.
LEMMA SameCounts == Required = Needs(tokens) /\ FirstForm = First(tokens)
<1>1. \A i : Closes(i) <=> Ends(tokens, i)
  BY DEF Closes, Ends, Unended, Opened, Shut, Among, Count
<1>2. \A i : Among({"(", "atom", "str"}, 2, i) = Cells(tokens, i)
  BY DEF Among, Cells, Count
<1> QED
  BY <1>1, <1>2 DEF Required, Needs, FirstForm, First

-----------------------------------------------------------------------------
(* Counting. *)

LEMMA CountFinite ==
    ASSUME NEW ts, NEW K, NEW a \in Nat, NEW p \in Nat
    PROVE  /\ IsFiniteSet({k \in a..p : ts[k] \in K})
           /\ Count(ts, K, a, p) \in Nat
<1>1. IsFiniteSet(a..p)
  BY FS_Interval
<1>2. IsFiniteSet({k \in a..p : ts[k] \in K})
  BY <1>1, FS_Subset
<1> QED
  BY <1>2, FS_CardinalityType DEF Count

\* One more token counts one or nothing.
LEMMA CountStep ==
    ASSUME NEW ts, NEW K, NEW a \in Nat, NEW p \in Nat, a <= p + 1
    PROVE  Count(ts, K, a, p + 1) = Count(ts, K, a, p) + (IF ts[p + 1] \in K THEN 1 ELSE 0)
<1> DEFINE S == {k \in a..p : ts[k] \in K}
           T == {k \in a..(p + 1) : ts[k] \in K}
<1>1. a..(p + 1) = (a..p) \cup {p + 1} /\ p + 1 \notin a..p
  OBVIOUS
<1>2. T = (IF ts[p + 1] \in K THEN S \cup {p + 1} ELSE S) /\ p + 1 \notin S
  BY <1>1
<1>3. IsFiniteSet(S) /\ Cardinality(S) \in Nat
  BY CountFinite DEF Count
<1> HIDE DEF S, T
<1>4. Cardinality(T) = Cardinality(S) + (IF ts[p + 1] \in K THEN 1 ELSE 0)
  <2>1. CASE ts[p + 1] \in K
    BY <1>2, <1>3, <2>1, FS_AddElement
  <2>2. CASE ts[p + 1] \notin K
    BY <1>2, <1>3, <2>2
  <2> QED
    BY <2>1, <2>2
<1> QED
  BY <1>4 DEF Count, S, T

LEMMA CountNone == \A ts, K : Count(ts, K, 1, 0) = 0 /\ Count(ts, K, 2, 1) = 0
<1> TAKE ts, K
<1>1. {k \in 1..0 : ts[k] \in K} = {} /\ {k \in 2..1 : ts[k] \in K} = {}
  OBVIOUS
<1>2. Cardinality({}) = 0
  BY FS_EmptySet
<1> QED
  BY <1>1, <1>2 DEF Count

LEMMA CountGrows ==
    ASSUME NEW ts, NEW K, NEW a \in Nat, NEW p \in Nat, NEW q \in Nat, p <= q
    PROVE  Count(ts, K, a, p) <= Count(ts, K, a, q)
<1>1. {k \in a..p : ts[k] \in K} \subseteq {k \in a..q : ts[k] \in K}
  OBVIOUS
<1>2. IsFiniteSet({k \in a..q : ts[k] \in K})
  BY CountFinite
<1> QED
  BY <1>1, <1>2, FS_Subset DEF Count

\* The counts the parser goes by, at once.
LEMMA Tally ==
    ASSUME NEW ts, NEW p \in Nat
    PROVE  /\ Opened(ts, p) \in Nat /\ Shut(ts, p) \in Nat /\ Cells(ts, p) \in Nat
           /\ Opened(ts, p + 1) = Opened(ts, p) + (IF ts[p + 1] = "(" THEN 1 ELSE 0)
           /\ Shut(ts, p + 1) = Shut(ts, p) + (IF ts[p + 1] = ")" THEN 1 ELSE 0)
           /\ p > 0 => Cells(ts, p + 1) =
                          Cells(ts, p) + (IF ts[p + 1] \in {"(", "atom", "str"} THEN 1 ELSE 0)
           /\ Opened(ts, 0) = 0 /\ Shut(ts, 0) = 0 /\ Cells(ts, 1) = 0
<1>1. Opened(ts, p) \in Nat /\ Shut(ts, p) \in Nat /\ Cells(ts, p) \in Nat
  BY CountFinite DEF Opened, Shut, Cells
<1>2. Opened(ts, p + 1) = Opened(ts, p) + (IF ts[p + 1] \in {"("} THEN 1 ELSE 0)
  BY CountStep DEF Opened
<1>3. Shut(ts, p + 1) = Shut(ts, p) + (IF ts[p + 1] \in {")"} THEN 1 ELSE 0)
  BY CountStep DEF Shut
<1>4. ASSUME p > 0
      PROVE  Cells(ts, p + 1) = Cells(ts, p) + (IF ts[p + 1] \in {"(", "atom", "str"} THEN 1 ELSE 0)
  <2>1. 2 <= p + 1
    BY <1>4
  <2> QED
    BY <2>1, CountStep DEF Cells
<1>5. Opened(ts, 0) = 0 /\ Shut(ts, 0) = 0 /\ Cells(ts, 1) = 0
  BY CountNone DEF Opened, Shut, Cells
<1> QED
  BY <1>1, <1>2, <1>3, <1>4, <1>5

\* What each kind of token adds.
LEMMA TallyKind ==
    ASSUME NEW ts, NEW p \in Nat
    PROVE  /\ Opened(ts, p) \in Nat /\ Shut(ts, p) \in Nat /\ Cells(ts, p) \in Nat
           /\ ts[p + 1] = "(" => /\ Opened(ts, p + 1) = Opened(ts, p) + 1
                                 /\ Shut(ts, p + 1) = Shut(ts, p)
                                 /\ p > 0 => Cells(ts, p + 1) = Cells(ts, p) + 1
           /\ ts[p + 1] = ")" => /\ Opened(ts, p + 1) = Opened(ts, p)
                                 /\ Shut(ts, p + 1) = Shut(ts, p) + 1
                                 /\ p > 0 => Cells(ts, p + 1) = Cells(ts, p)
           /\ ts[p + 1] \in {"atom", "str"} =>
                                 /\ Opened(ts, p + 1) = Opened(ts, p)
                                 /\ Shut(ts, p + 1) = Shut(ts, p)
                                 /\ p > 0 => Cells(ts, p + 1) = Cells(ts, p) + 1
<1> DEFINE k == ts[p + 1]
<1>1. /\ Opened(ts, p) \in Nat /\ Shut(ts, p) \in Nat /\ Cells(ts, p) \in Nat
      /\ Opened(ts, p + 1) = Opened(ts, p) + (IF k = "(" THEN 1 ELSE 0)
      /\ Shut(ts, p + 1) = Shut(ts, p) + (IF k = ")" THEN 1 ELSE 0)
      /\ p > 0 => Cells(ts, p + 1) = Cells(ts, p) + (IF k \in {"(", "atom", "str"} THEN 1 ELSE 0)
  BY Tally
<1> HIDE DEF k
<1>2. CASE k = "("
  BY <1>1, <1>2 DEF k
<1>3. CASE k = ")"
  BY <1>1, <1>3 DEF k
<1>4. CASE k \in {"atom", "str"}
  BY <1>1, <1>4 DEF k
<1>5. CASE k \notin {"(", ")", "atom", "str"}
  BY <1>1, <1>5 DEF k
<1> QED
  BY <1>2, <1>3, <1>4, <1>5

\* A form ends at one token at most.
LEMMA OneEnd ==
    ASSUME NEW ts, NEW i \in Nat \ {0}, NEW j \in Nat \ {0}, Ends(ts, i), Ends(ts, j)
    PROVE  i = j
<1>1. /\ Opened(ts, i) = Shut(ts, i) /\ Opened(ts, j) = Shut(ts, j)
      /\ Opened(ts, i) \in Nat /\ Opened(ts, j) \in Nat
  BY Tally DEF Ends
<1>2. ~(i < j)
  <2> SUFFICES ASSUME i < j PROVE FALSE
    OBVIOUS
  <2>1. i \in 1..(j - 1)
    OBVIOUS
  <2> QED
    BY <1>1, <2>1 DEF Ends, Unended
<1>3. ~(j < i)
  <2> SUFFICES ASSUME j < i PROVE FALSE
    OBVIOUS
  <2>1. j \in 1..(i - 1)
    OBVIOUS
  <2> QED
    BY <1>1, <2>1 DEF Ends, Unended
<1> QED
  BY <1>2, <1>3

\* Where the form ends, what it needs is known.
LEMMA EndKnown ==
    ASSUME NEW ts \in Seq(TokenKind), NEW i \in 1..Len(ts), ts[1] = "(", Ends(ts, i)
    PROVE  Needs(ts) = {Cells(ts, i)} /\ First(ts) = {i}
<1>1. Len(ts) \in Nat /\ ts # << >>
  OBVIOUS
<1>2. {j \in 1..Len(ts) : Ends(ts, j)} = {i}
  BY <1>1, OneEnd
<1> QED
  BY <1>1, <1>2 DEF Needs, First

\* A text whose form has not ended when it is over needs nothing known.
LEMMA EndUnknown ==
    ASSUME NEW ts \in Seq(TokenKind), ts # << >>, ts[1] = "(", Unended(ts, Len(ts))
    PROVE  First(ts) = {}
<1>1. Len(ts) \in Nat
  OBVIOUS
<1>2. ASSUME NEW i \in 1..Len(ts) PROVE ~Ends(ts, i)
  <2>1. Opened(ts, i) \in Nat /\ Shut(ts, i) \in Nat /\ Opened(ts, i) > Shut(ts, i)
    BY Tally DEF Unended
  <2> QED
    BY <2>1 DEF Ends
<1> QED
  BY <1>2 DEF First

\* A text that starts with ")" has no first form.
LEMMA CloseFirst ==
    ASSUME NEW ts \in Seq(TokenKind), ts # << >>, ts[1] = ")"
    PROVE  First(ts) = {}
<1>1. Opened(ts, 1) = 0 /\ Shut(ts, 1) = 1
  <2>1. /\ Opened(ts, 0 + 1) = Opened(ts, 0) + (IF ts[0 + 1] = "(" THEN 1 ELSE 0)
        /\ Shut(ts, 0 + 1) = Shut(ts, 0) + (IF ts[0 + 1] = ")" THEN 1 ELSE 0)
        /\ Opened(ts, 0) = 0 /\ Shut(ts, 0) = 0
    BY Tally
  <2> QED
    BY <2>1
<1>2. ASSUME NEW i \in 1..Len(ts) PROVE ~Ends(ts, i)
  <2>1. CASE i = 1
    BY <1>1, <2>1 DEF Ends
  <2>2. CASE i # 1
    <3>1. 1 \in 1..(i - 1)
      BY <2>2
    <3> QED
      BY <1>1, <3>1 DEF Ends, Unended
  <2> QED
    BY <2>1, <2>2
<1> QED
  BY <1>2 DEF First
-----------------------------------------------------------------------------
(* The parser's stack. *)

Word == [tag : {"nil", "atom", "str", "cons"}, at : Nat]
Cell == [car : Word, cdr : Word]

\* f[i] is the number of words on the i outermost open lists.
Sums(s) ==
    {f \in [0..Len(s) -> Nat] :
        f[0] = 0 /\ \A i \in 1..Len(s) : f[i] = f[i - 1] + Len(s[i])}

\* After p tokens lists s are open and cells a are taken: the form has not
\* ended, and each element read so far is a cell, a word on an open list, or an
\* open list itself - but for the outermost, which is no element.
Parsing(ts, p, s, a) ==
    /\ s = << >> => p = 0 /\ a = << >>
    /\ s # << >> => p > 0 /\ ts[1] = "("
    /\ Opened(ts, p) = Shut(ts, p) + Len(s)
    /\ Unended(ts, p)
    /\ s # << >> => \E f \in Sums(s) : Len(a) + f[Len(s)] + Len(s) = Cells(ts, p) + 1

\* After p tokens the form is read, and every element of it is a cell.
Complete(ts, p, a) ==
    /\ p \in 1..Len(ts)
    /\ \/ ts[1] = "(" /\ Ends(ts, p) /\ Len(a) = Cells(ts, p)
       \/ ts[1] \in {"atom", "str"} /\ p = 1 /\ a = << >>

LEMMA CompleteMeans ==
    ASSUME NEW ts \in Seq(TokenKind), NEW p, NEW a, Complete(ts, p, a)
    PROVE  Needs(ts) = {Len(a)} /\ First(ts) = {p}
<1>1. p \in 1..Len(ts) /\ ts # << >>
  BY DEF Complete
<1>2. CASE ts[1] = "(" /\ Ends(ts, p) /\ Len(a) = Cells(ts, p)
  BY <1>1, <1>2, EndKnown
<1>3. CASE ts[1] \in {"atom", "str"} /\ p = 1 /\ a = << >>
  BY <1>1, <1>3 DEF Needs, First
<1> QED
  BY <1>2, <1>3 DEF Complete

LEMMA ParsingStarts == \A ts : Parsing(ts, 0, << >>, << >>)
  BY Tally DEF Parsing, Unended

\* A form that has not ended after p tokens has not after one more that leaves
\* a list open.
LEMMA UnendedStep ==
    ASSUME NEW ts, NEW p \in Nat, Unended(ts, p), NEW n \in Nat \ {0},
           Opened(ts, p + 1) = Shut(ts, p + 1) + n
    PROVE  Unended(ts, p + 1)
<1>1. Shut(ts, p + 1) \in Nat
  <2>1. p + 1 \in Nat
    OBVIOUS
  <2> QED
    BY <2>1, Tally
<1>2. Opened(ts, p + 1) > Shut(ts, p + 1)
  BY <1>1
<1>3. \A j \in 1..(p + 1) : j \in 1..p \/ j = p + 1
  OBVIOUS
<1> QED
  BY <1>2, <1>3 DEF Unended

\* "(" opens a list, which is an element of the one around it.
LEMMA ParseOpen ==
    ASSUME NEW ts \in Seq(TokenKind), NEW p \in Nat, p < Len(ts),
           NEW s \in Seq(Seq(Word)), NEW a \in Seq(Cell), Parsing(ts, p, s, a), ts[p + 1] = "("
    PROVE  Parsing(ts, p + 1, Append(s, << >>), a)
<1> DEFINE t == Append(s, << >>)
           n == Len(s)
<1>1. /\ t \in Seq(Seq(Word)) /\ n \in Nat /\ Len(t) = n + 1 /\ t[n + 1] = << >>
      /\ \A i \in 1..n : t[i] = s[i]
  <2> DEFINE S == Seq(Word)
             e == << >>
  <2>1. e \in S /\ s \in Seq(S)
    OBVIOUS
  <2> HIDE DEF S, e
  <2>2. /\ Append(s, e) \in Seq(S) /\ Len(s) \in Nat /\ Len(Append(s, e)) = Len(s) + 1
        /\ Append(s, e)[Len(s) + 1] = e /\ \A i \in 1..Len(s) : Append(s, e)[i] = s[i]
    BY <2>1, AppendProperties
  <2> QED
    BY <2>2 DEF S, e
<1> HIDE DEF t, n
<1>2. Len(a) \in Nat /\ t # << >> /\ p + 1 > 0
  BY <1>1
<1>3. /\ Opened(ts, p) \in Nat /\ Shut(ts, p) \in Nat /\ Cells(ts, p) \in Nat
      /\ Opened(ts, p + 1) = Opened(ts, p) + 1 /\ Shut(ts, p + 1) = Shut(ts, p)
      /\ p > 0 => Cells(ts, p + 1) = Cells(ts, p) + 1
      /\ Cells(ts, 1) = 0
  BY Tally, TallyKind
<1>4. Opened(ts, p) = Shut(ts, p) + n
  BY DEF Parsing, n
<1>5. Opened(ts, p + 1) = Shut(ts, p + 1) + Len(t)
  BY <1>1, <1>3, <1>4
<1>6. Unended(ts, p + 1)
  <2>1. Len(t) \in Nat \ {0}
    BY <1>1
  <2> QED
    BY <1>5, <2>1, UnendedStep DEF Parsing
<1>7. ts[1] = "("
  <2>1. s = << >> => p + 1 = 1
    BY DEF Parsing
  <2> QED
    BY <2>1 DEF Parsing
<1>8. \E f \in Sums(t) : Len(a) + f[Len(t)] + Len(t) = Cells(ts, p + 1) + 1
  <2>1. CASE s = << >>
    <3> DEFINE f == [i \in 0..1 |-> 0]
    <3>1. Len(t) = 1 /\ n = 0 /\ Len(t[1]) = 0 /\ p = 0 /\ a = << >>
      BY <1>1, <2>1 DEF n, Parsing
    <3>2. f \in Sums(t)
      BY <3>1 DEF Sums
    <3>3. Len(a) + f[Len(t)] + Len(t) = Cells(ts, p + 1) + 1
      BY <1>3, <3>1
    <3> QED
      BY <3>2, <3>3
  <2>2. CASE s # << >>
    <3>1. PICK g \in Sums(s) : Len(a) + g[Len(s)] + Len(s) = Cells(ts, p) + 1
      BY <2>2 DEF Parsing
    <3>2. /\ g \in [0..n -> Nat] /\ g[0] = 0 /\ \A i \in 1..n : g[i] = g[i - 1] + Len(s[i])
          /\ Len(a) + g[n] + n = Cells(ts, p) + 1
      BY <3>1 DEF Sums, n
    <3> DEFINE f == [i \in 0..(n + 1) |-> IF i = n + 1 THEN g[n] ELSE g[i]]
    <3>3. f \in [0..Len(t) -> Nat] /\ f[0] = 0 /\ f[n + 1] = g[n] /\ \A i \in 0..n : f[i] = g[i]
      <4>1. n \in 0..n /\ 0 \in 0..n /\ n + 1 \notin 0..n
        BY <1>1
      <4>2. \A i \in 0..(n + 1) : i = n + 1 \/ i \in 0..n
        BY <1>1
      <4>3. \A i \in 0..(n + 1) : f[i] \in Nat
        BY <3>2, <4>1, <4>2
      <4>4. f \in [0..(n + 1) -> Nat] /\ f[n + 1] = g[n]
        BY <1>1, <4>3
      <4>5. \A i \in 0..n : f[i] = g[i]
        BY <1>1, <4>1
      <4> HIDE DEF f
      <4> QED
        BY <1>1, <3>2, <4>1, <4>4, <4>5
    <3> HIDE DEF f
    <3>4. ASSUME NEW i \in 1..Len(t) PROVE f[i] = f[i - 1] + Len(t[i])
      <4>1. CASE i \in 1..n
        <5>0. i \in 0..n /\ i - 1 \in 0..n
          BY <1>1, <4>1
        <5>1. f[i] = g[i] /\ f[i - 1] = g[i - 1] /\ t[i] = s[i]
          BY <1>1, <3>3, <4>1, <5>0
        <5> QED
          BY <3>2, <4>1, <5>1
      <4>2. CASE i = n + 1
        <5>1. f[i] = g[n] /\ f[i - 1] = g[n] /\ Len(t[i]) = 0 /\ g[n] \in Nat
          BY <1>1, <3>2, <3>3, <4>2
        <5> QED
          BY <5>1
      <4> QED
        BY <1>1, <4>1, <4>2
    <3>5. f \in Sums(t)
      BY <3>3, <3>4 DEF Sums
    <3>6. p > 0
      BY <2>2 DEF Parsing
    <3>7. g[n] \in Nat
      BY <1>1, <3>2
    <3>8. Len(a) + f[Len(t)] + Len(t) = Cells(ts, p + 1) + 1
      <4>1. f[Len(t)] = g[n] /\ Len(t) = n + 1
        BY <1>1, <3>3
      <4>2. Len(a) + g[n] + n = Cells(ts, p) + 1
        BY <3>2
      <4>3. Cells(ts, p + 1) = Cells(ts, p) + 1 /\ Cells(ts, p) \in Nat
        BY <1>2, <1>3, <3>6
      <4>4. Len(a) \in Nat /\ n \in Nat
        BY <1>1
      <4> DEFINE x == Len(a)
                 y == g[n]
                 c == Cells(ts, p)
      <4>5. x \in Nat /\ y \in Nat /\ c \in Nat /\ x + y + n = c + 1
        BY ONLY <3>7, <4>2, <4>3, <4>4
      <4> HIDE DEF x, y, c
      <4>6. x + y + (n + 1) = (c + 1) + 1
        BY ONLY <4>4, <4>5
      <4> QED
        BY ONLY <4>1, <4>3, <4>6 DEF x, y, c
    <3> QED
      BY <3>5, <3>8
  <2> QED
    BY <2>1, <2>2
<1>9. Parsing(ts, p + 1, t, a)
  BY <1>2, <1>5, <1>6, <1>7, <1>8 DEF Parsing
<1> QED
  BY <1>9 DEF t

\* A word put on the innermost open list.
LEMMA OnTop ==
    ASSUME NEW s \in Seq(Seq(Word)), s # << >>, NEW w \in Word, NEW g \in Sums(s)
    PROVE  LET n == Len(s)
               t == [s EXCEPT ![n] = Append(@, w)]
           IN  /\ n \in Nat \ {0} /\ t \in Seq(Seq(Word)) /\ Len(t) = n
               /\ g[n] \in Nat
               /\ \E f \in Sums(t) : f[n] = g[n] + 1
<1> DEFINE n == Len(s)
           v == Append(s[n], w)
           t == [s EXCEPT ![n] = v]
<1>1. n \in Nat \ {0} /\ n \in 1..n /\ s[n] \in Seq(Word) /\ DOMAIN s = 1..n
  OBVIOUS
<1>2. v \in Seq(Word) /\ Len(s[n]) \in Nat /\ Len(v) = Len(s[n]) + 1
  BY <1>1, AppendProperties
<1>3. t[n] = v /\ \A i \in 1..n : i # n => t[i] = s[i]
  BY <1>1
<1>4. t \in Seq(Seq(Word)) /\ Len(t) = n
  <2>1. \A i \in 1..n : s[i] \in Seq(Word)
    BY <1>1, ElementOfSeq
  <2>2. t \in [1..n -> Seq(Word)]
    <3>1. s \in [1..n -> Seq(Word)]
      BY <1>1, <2>1
    <3> HIDE DEF n, v
    <3> QED
      BY <1>2, <3>1
  <2> HIDE DEF t, n, v
  <2> QED
    BY <1>1, <2>2
<1>5. /\ g \in [0..n -> Nat] /\ g[0] = 0 /\ \A i \in 1..n : g[i] = g[i - 1] + Len(s[i])
  BY DEF Sums
<1> HIDE DEF n, v, t
<1> DEFINE f == [i \in 0..n |-> IF i = n THEN g[n] + 1 ELSE g[i]]
<1>6. g[n] \in Nat /\ f \in [0..n -> Nat] /\ f[n] = g[n] + 1 /\ \A i \in 0..(n - 1) : f[i] = g[i]
  BY <1>1, <1>5
<1>7. f[0] = 0
  BY <1>1, <1>5, <1>6
<1> HIDE DEF f
<1>8. ASSUME NEW i \in 1..n PROVE f[i] = f[i - 1] + Len(t[i])
  <2>1. f[i - 1] = g[i - 1] /\ g[i - 1] \in Nat
    BY <1>1, <1>5, <1>6
  <2>2. g[i] = g[i - 1] + Len(s[i])
    BY <1>5
  <2>3. CASE i = n
    <3>1. t[i] = v /\ f[i] = g[n] + 1 /\ g[n] = g[i - 1] + Len(s[n])
      BY <1>3, <1>6, <2>2, <2>3
    <3>2. Len(t[i]) = Len(s[n]) + 1 /\ Len(s[n]) \in Nat
      BY <1>2, <3>1
    <3>3. \A x, y \in Nat : (x + y) + 1 = x + (y + 1)
      OBVIOUS
    <3> QED
      BY <2>1, <3>1, <3>2, <3>3
  <2>4. CASE i # n
    <3>1. t[i] = s[i] /\ f[i] = g[i]
      BY <1>1, <1>3, <1>6, <2>4
    <3> QED
      BY <2>1, <2>2, <3>1
  <2> QED
    BY <2>3, <2>4
<1>9. f \in Sums(t)
  BY <1>4, <1>6, <1>7, <1>8 DEF Sums
<1> QED
  BY <1>1, <1>4, <1>6, <1>9 DEF t, v, n

\* An atom or a string is an element of the innermost open list.
LEMMA ParseWord ==
    ASSUME NEW ts \in Seq(TokenKind), NEW p \in Nat, p < Len(ts), NEW s \in Seq(Seq(Word)),
           NEW a \in Seq(Cell), Parsing(ts, p, s, a), ts[p + 1] \in {"atom", "str"},
           s # << >>, NEW w \in Word
    PROVE  /\ Parsing(ts, p + 1, [s EXCEPT ![Len(s)] = Append(@, w)], a)
           /\ [s EXCEPT ![Len(s)] = Append(@, w)] \in Seq(Seq(Word))
<1> DEFINE n == Len(s)
           t == [s EXCEPT ![n] = Append(@, w)]
<1>1. PICK g \in Sums(s) : Len(a) + g[n] + n = Cells(ts, p) + 1
  BY DEF Parsing
<1>2. /\ n \in Nat \ {0} /\ t \in Seq(Seq(Word)) /\ Len(t) = n /\ g[n] \in Nat
      /\ \E f \in Sums(t) : f[n] = g[n] + 1
  BY OnTop
<1> HIDE DEF n, t
<1>3. PICK f \in Sums(t) : f[n] = g[n] + 1
  BY <1>2
<1>4. /\ Opened(ts, p) \in Nat /\ Shut(ts, p) \in Nat /\ Cells(ts, p) \in Nat
      /\ Opened(ts, p + 1) = Opened(ts, p) /\ Shut(ts, p + 1) = Shut(ts, p)
      /\ p > 0 => Cells(ts, p + 1) = Cells(ts, p) + 1
  BY TallyKind
<1>5. p > 0 /\ ts[1] = "(" /\ Opened(ts, p) = Shut(ts, p) + n
  BY DEF Parsing, n
<1>6. Opened(ts, p + 1) = Shut(ts, p + 1) + Len(t)
  BY <1>2, <1>4, <1>5
<1>7. Unended(ts, p + 1)
  BY <1>2, <1>6, UnendedStep DEF Parsing
<1>8. Len(a) \in Nat /\ t # << >> /\ p + 1 > 0
  BY <1>2
<1>9. Len(a) + f[Len(t)] + Len(t) = Cells(ts, p + 1) + 1
  <2>1. f[Len(t)] = g[n] + 1 /\ Len(t) = n /\ Cells(ts, p + 1) = Cells(ts, p) + 1
    BY <1>2, <1>3, <1>4, <1>5
  <2>2. \A l, x, y, c \in Nat : l + x + y = c + 1 => l + (x + 1) + y = (c + 1) + 1
    OBVIOUS
  <2>3. Len(a) + g[n] + n = Cells(ts, p) + 1
    BY <1>1
  <2>4. Len(a) \in Nat /\ g[n] \in Nat /\ n \in Nat /\ Cells(ts, p) \in Nat
    BY <1>2, <1>4, <1>8
  <2>5. Len(a) + (g[n] + 1) + n = (Cells(ts, p) + 1) + 1
    BY ONLY <2>2, <2>3, <2>4
  <2> QED
    BY ONLY <2>1, <2>5
<1>10. Parsing(ts, p + 1, t, a)
  BY <1>5, <1>6, <1>7, <1>8, <1>9 DEF Parsing
<1> QED
  BY <1>2, <1>10 DEF t, n

\* An atom or a string that is the whole form.
LEMMA ParseAtom ==
    ASSUME NEW ts \in Seq(TokenKind), NEW p \in Nat, p < Len(ts), NEW a,
           Parsing(ts, p, << >>, a), ts[p + 1] \in {"atom", "str"}
    PROVE  Complete(ts, p + 1, a)
<1>1. p = 0 /\ a = << >> /\ Len(ts) \in Nat
  BY DEF Parsing
<1> QED
  BY <1>1 DEF Complete
LEMMA AllButLast ==
    ASSUME NEW S, NEW s \in Seq(S), s # << >>
    PROVE  /\ SubSeq(s, 1, Len(s) - 1) \in Seq(S)
           /\ Len(SubSeq(s, 1, Len(s) - 1)) = Len(s) - 1
           /\ \A i \in 1..(Len(s) - 1) : SubSeq(s, 1, Len(s) - 1)[i] = s[i]
<1> DEFINE n == Len(s) - 1
           r == SubSeq(s, 1, n)
<1>1. Len(s) \in Nat /\ n \in Nat /\ n \in Int /\ 1 \in Int /\ \A i \in 1..n : s[i] \in S
  OBVIOUS
<1> HIDE DEF n
<1>2. /\ r \in Seq(S) /\ Len(r) = IF 1 <= n THEN n - 1 + 1 ELSE 0
      /\ \A i \in 1..(n - 1 + 1) : r[i] = s[1 + i - 1]
  BY <1>1, SubSeqProperties
<1> HIDE DEF r
<1>3. n - 1 + 1 = n /\ \A i \in 1..n : 1 + i - 1 = i
  BY <1>1
<1>4. Len(r) = n
  BY <1>1, <1>2
<1>5. \A i \in 1..n : r[i] = s[i]
  BY <1>2, <1>3
<1> QED
  BY <1>2, <1>4, <1>5 DEF r, n

\* The outermost lists, without the innermost.
LEMMA Below ==
    ASSUME NEW s \in Seq(Seq(Word)), s # << >>, NEW g \in Sums(s)
    PROVE  LET n == Len(s)
               r == SubSeq(s, 1, n - 1)
           IN  /\ n \in Nat \ {0} /\ r \in Seq(Seq(Word)) /\ Len(r) = n - 1
               /\ s[n] \in Seq(Word) /\ Len(s[n]) \in Nat
               /\ \A i \in 1..(n - 1) : r[i] = s[i]
               /\ g[n - 1] \in Nat /\ g[n] = g[n - 1] + Len(s[n]) /\ g[0] = 0
               /\ \E f \in Sums(r) : f[n - 1] = g[n - 1]
<1> DEFINE S == Seq(Word)
           n == Len(s)
           r == SubSeq(s, 1, n - 1)
<1>1. n \in Nat \ {0} /\ n \in 1..n
  OBVIOUS
<1>2. r \in Seq(Seq(Word)) /\ Len(r) = n - 1 /\ \A i \in 1..(n - 1) : r[i] = s[i]
  <2>1. s \in Seq(S)
    OBVIOUS
  <2> HIDE DEF S
  <2>4. r \in Seq(S) /\ Len(r) = n - 1 /\ \A i \in 1..(n - 1) : r[i] = s[i]
    BY <2>1, AllButLast
  <2> QED
    BY <2>4 DEF S
<1>3. s[n] \in Seq(Word) /\ Len(s[n]) \in Nat
  <2>1. s[n] \in Seq(Word)
    BY <1>1, ElementOfSeq
  <2> QED
    BY <2>1
<1>4. g \in [0..n -> Nat] /\ g[0] = 0 /\ \A i \in 1..n : g[i] = g[i - 1] + Len(s[i])
  BY DEF Sums
<1> HIDE DEF n, r
<1>5. g[n - 1] \in Nat /\ g[n] = g[n - 1] + Len(s[n])
  <2>1. n - 1 \in 0..n
    BY <1>1
  <2> QED
    BY <1>1, <1>4, <2>1
<1> DEFINE f == [i \in 0..(n - 1) |-> g[i]]
<1>6. f \in [0..Len(r) -> Nat] /\ \A i \in 0..(n - 1) : f[i] = g[i]
  <2>1. \A i \in 0..(n - 1) : i \in 0..n
    BY <1>1
  <2> QED
    BY <1>2, <1>4, <2>1
<1> HIDE DEF f
<1>7. f[0] = 0 /\ f[n - 1] = g[n - 1]
  <2>1. 0 \in 0..(n - 1) /\ n - 1 \in 0..(n - 1)
    BY <1>1
  <2> QED
    BY <1>4, <1>6, <2>1
<1>8. ASSUME NEW i \in 1..Len(r) PROVE f[i] = f[i - 1] + Len(r[i])
  <2>1. i \in 1..(n - 1) /\ i \in 0..(n - 1) /\ i - 1 \in 0..(n - 1) /\ i \in 1..n
    BY <1>1, <1>2
  <2> QED
    BY <1>2, <1>4, <1>6, <2>1
<1>9. f \in Sums(r)
  BY <1>6, <1>7, <1>8 DEF Sums
<1> QED
  BY <1>1, <1>2, <1>3, <1>4, <1>5, <1>7, <1>9 DEF n, r

\* ")" of a list inside another: its words are cells now, and the list is an
\* element of the one around it.
LEMMA ParseClose ==
    ASSUME NEW ts \in Seq(TokenKind), NEW p \in Nat, p < Len(ts), NEW s \in Seq(Seq(Word)),
           NEW a \in Seq(Cell), Parsing(ts, p, s, a), ts[p + 1] = ")", s # << >>,
           NEW w \in Word, NEW b \in Seq(Cell), Len(b) = Len(a) + Len(s[Len(s)]),
           NEW r, r = SubSeq(s, 1, Len(s) - 1)
    PROVE  IF r = << >> THEN Complete(ts, p + 1, b)
           ELSE /\ Parsing(ts, p + 1, [r EXCEPT ![Len(r)] = Append(@, w)], b)
                /\ [r EXCEPT ![Len(r)] = Append(@, w)] \in Seq(Seq(Word))
<1> DEFINE n == Len(s)
<1>1. PICK g \in Sums(s) : Len(a) + g[n] + n = Cells(ts, p) + 1
  BY DEF Parsing
<1>2. /\ n \in Nat \ {0} /\ r \in Seq(Seq(Word)) /\ Len(r) = n - 1
      /\ Len(s[n]) \in Nat /\ g[n - 1] \in Nat /\ g[n] = g[n - 1] + Len(s[n]) /\ g[0] = 0
      /\ \E f \in Sums(r) : f[n - 1] = g[n - 1]
  BY Below
<1>3. /\ Opened(ts, p) \in Nat /\ Shut(ts, p) \in Nat /\ Cells(ts, p) \in Nat
      /\ Opened(ts, p + 1) = Opened(ts, p) /\ Shut(ts, p + 1) = Shut(ts, p) + 1
      /\ p > 0 => Cells(ts, p + 1) = Cells(ts, p)
  BY TallyKind
<1>4. p > 0 /\ ts[1] = "(" /\ Opened(ts, p) = Shut(ts, p) + n /\ Unended(ts, p)
  BY DEF Parsing
<1>5. Len(a) \in Nat /\ Len(b) \in Nat /\ Len(b) = Len(a) + Len(s[n]) /\ Len(ts) \in Nat
  OBVIOUS
<1> HIDE DEF n
<1>6. Cells(ts, p + 1) = Cells(ts, p)
  BY <1>3, <1>4
<1>7. Len(b) + g[n - 1] + n = Cells(ts, p) + 1
  <2> DEFINE l == Len(a)
             x == g[n - 1]
             y == Len(s[n])
             c == Cells(ts, p)
  <2>1. Len(a) + (g[n - 1] + Len(s[n])) + n = Cells(ts, p) + 1
    BY <1>1, <1>2
  <2>2. /\ n \in Nat /\ Len(a) \in Nat /\ g[n - 1] \in Nat /\ Len(s[n]) \in Nat
        /\ Cells(ts, p) \in Nat
    BY <1>2, <1>3, <1>5
  <2>3. n \in Nat /\ l \in Nat /\ x \in Nat /\ y \in Nat /\ c \in Nat /\ l + (x + y) + n = c + 1
    BY ONLY <2>1, <2>2
  <2> HIDE DEF l, x, y, c
  <2>4. (l + y) + x + n = c + 1
    BY ONLY <2>3
  <2>5. (Len(a) + Len(s[n])) + g[n - 1] + n = Cells(ts, p) + 1
    BY ONLY <2>4 DEF l, x, y, c
  <2>6. Len(b) = Len(a) + Len(s[n])
    BY ONLY <1>5
  <2> QED
    BY ONLY <2>5, <2>6
<1>8. CASE r = << >>
  <2>1. n = 1
    <3>1. Len(r) = 0
      BY ONLY <1>8
    <3>2. Len(r) = n - 1 /\ n \in Nat
      BY <1>2
    <3> QED
      BY ONLY <3>1, <3>2
  <2>2. g[n - 1] = 0
    BY <1>2, <2>1
  <2>3. Len(b) = Cells(ts, p + 1)
    <3>1. Len(b) \in Nat /\ Cells(ts, p) \in Nat
      BY ONLY <1>3, <1>5
    <3>2. Len(b) + 0 + 1 = Cells(ts, p) + 1
      BY <1>7, <2>1, <2>2
    <3>3. Len(b) = Cells(ts, p)
      BY ONLY <3>1, <3>2
    <3> QED
      BY <1>6, <3>3
  <2>4. Opened(ts, p + 1) = Shut(ts, p + 1)
    BY <1>3, <1>4, <2>1
  <2>5. (p + 1) - 1 = p
    OBVIOUS
  <2>6. Ends(ts, p + 1)
    BY <1>4, <2>4, <2>5 DEF Ends
  <2>7. p + 1 \in 1..Len(ts)
    BY <1>5
  <2>8. Complete(ts, p + 1, b)
    BY <1>4, <2>3, <2>6, <2>7 DEF Complete
  <2> QED
    BY <1>8, <2>8
<1>9. CASE r # << >>
  <2> DEFINE t == [r EXCEPT ![Len(r)] = Append(@, w)]
             m == Len(r)
  <2>1. PICK h \in Sums(r) : h[n - 1] = g[n - 1]
    BY <1>2
  <2>2. /\ m \in Nat \ {0} /\ t \in Seq(Seq(Word)) /\ Len(t) = m
        /\ \E f \in Sums(t) : f[m] = h[m] + 1
    <3>1. r \in Seq(Seq(Word))
      BY <1>2
    <3> QED
      BY ONLY <1>9, <3>1, w \in Word, OnTop DEF m, t
  <2>3. m = n - 1 /\ m \in Nat /\ n = m + 1
    BY ONLY <1>2 DEF m
  <2> HIDE DEF t, m
  <2>4. PICK f \in Sums(t) : f[m] = g[m] + 1
    BY ONLY <2>1, <2>2, <2>3
  <2>5. Len(b) + f[Len(t)] + Len(t) = Cells(ts, p + 1) + 1
    <3>1. f[Len(t)] = g[m] + 1 /\ Len(t) = m
      BY <2>2, <2>4
    <3>2. Len(b) + g[m] + (m + 1) = Cells(ts, p + 1) + 1
      BY <1>6, <1>7, <2>3
    <3>3. Len(b) \in Nat /\ g[m] \in Nat
      BY ONLY <1>2, <1>5, <2>3
    <3>4. \A x, y, z \in Nat : x + (y + 1) + z = x + y + (z + 1)
      OBVIOUS
    <3>5. Len(b) + (g[m] + 1) + m = Len(b) + g[m] + (m + 1)
      BY ONLY <2>3, <3>3, <3>4
    <3> QED
      BY ONLY <3>1, <3>2, <3>5
  <2>6. Opened(ts, p + 1) = Shut(ts, p + 1) + Len(t)
    <3> DEFINE o == Opened(ts, p)
               c == Shut(ts, p)
    <3>1. o \in Nat /\ c \in Nat /\ o = c + n
      BY ONLY <1>3, <1>4
    <3> HIDE DEF o, c
    <3>2. o = (c + 1) + m
      BY ONLY <2>3, <3>1
    <3> QED
      BY ONLY <1>3, <2>2, <3>2 DEF o, c
  <2>7. Unended(ts, p + 1)
    BY <1>4, <2>2, <2>6, UnendedStep
  <2>8. t # << >> /\ p + 1 > 0
    BY <2>2
  <2>9. Parsing(ts, p + 1, t, b)
    BY <1>4, <2>5, <2>6, <2>7, <2>8 DEF Parsing
  <2> QED
    BY <1>9, <2>2, <2>9 DEF t
<1> QED
  BY <1>8, <1>9

\* A list whose words do not fit is of a form that does not end, if the forms
\* that end were seen to fit.
LEMMA ParseDies ==
    ASSUME NEW ts \in Seq(TokenKind), NEW p \in Nat, p < Len(ts), NEW s \in Seq(Seq(Word)),
           NEW a \in Seq(Cell), Parsing(ts, p, s, a), s # << >>,
           Len(a) + Len(s[Len(s)]) > ArenaCells, \A x \in Needs(ts) : ~(x > ArenaCells)
    PROVE  Needs(ts) = {}
<1> DEFINE n == Len(s)
<1>1. PICK g \in Sums(s) : Len(a) + g[n] + n = Cells(ts, p) + 1
  BY DEF Parsing
<1>2. n \in Nat \ {0} /\ Len(s[n]) \in Nat /\ g[n - 1] \in Nat /\ g[n] = g[n - 1] + Len(s[n])
  BY Below
<1>3. Len(a) \in Nat /\ Cells(ts, p) \in Nat /\ ArenaCells \in Nat
  BY Tally, ReaderAssumption
<1>4. Len(a) + Len(s[n]) > ArenaCells
  OBVIOUS
<1> HIDE DEF n
<1>5. Cells(ts, p) > ArenaCells
  <2>1. /\ n \in Nat /\ n >= 1 /\ Len(a) \in Nat /\ g[n - 1] \in Nat /\ Len(s[n]) \in Nat
        /\ Cells(ts, p) \in Nat /\ ArenaCells \in Nat
    BY <1>2, <1>3
  <2>2. Len(a) + (g[n - 1] + Len(s[n])) + n = Cells(ts, p) + 1
    BY <1>1, <1>2
  <2>3. \A l, x, y, z, c, m \in Nat : l + (x + y) + z = c + 1 /\ z >= 1 /\ l + y > m => c > m
    OBVIOUS
  <2> QED
    BY ONLY <1>4, <2>1, <2>2, <2>3
<1>6. ts[1] = "(" /\ ts # << >> /\ Unended(ts, p) /\ Len(ts) \in Nat
  BY DEF Parsing
<1>7. ASSUME NEW i \in 1..Len(ts), Ends(ts, i) PROVE FALSE
  <2>1. i \in Nat /\ Opened(ts, i) \in Nat /\ Shut(ts, i) \in Nat /\ Opened(ts, i) = Shut(ts, i)
    BY <1>7, Tally DEF Ends
  <2>2. i \notin 1..p
    BY <1>6, <2>1 DEF Unended
  <2>3. p <= i
    BY <2>1, <2>2
  <2>4. Cells(ts, p) <= Cells(ts, i) /\ Cells(ts, i) \in Nat
    BY <2>1, <2>3, CountGrows, Tally DEF Cells
  <2>5. Cells(ts, i) \in Needs(ts)
    BY <1>6, <1>7 DEF Needs
  <2> QED
    BY <1>3, <1>5, <2>4, <2>5
<1> QED
  BY <1>6, <1>7 DEF Needs
-----------------------------------------------------------------------------
(* The strings of the form. *)

\* Every string word on an open list or in a cell is of a live entry.
StringsLive(s, a, live) ==
    /\ \A i \in 1..Len(s) : \A j \in 1..Len(s[i]) : s[i][j].tag = "str" => s[i][j].at \in live
    /\ \A n \in 1..Len(a) : a[n].car.tag = "str" => a[n].car.at \in live

LEMMA StringsOpen ==
    ASSUME NEW s \in Seq(Seq(Word)), NEW a, NEW live, StringsLive(s, a, live)
    PROVE  Append(s, << >>) \in Seq(Seq(Word)) /\ StringsLive(Append(s, << >>), a, live)
<1> DEFINE S == Seq(Word)
           e == << >>
           t == Append(s, e)
<1>1. e \in S /\ s \in Seq(S) /\ Len(e) = 0
  OBVIOUS
<1> HIDE DEF S, e
<1>2. /\ t \in Seq(S) /\ Len(s) \in Nat /\ Len(t) = Len(s) + 1
      /\ t[Len(s) + 1] = e /\ \A i \in 1..Len(s) : t[i] = s[i]
  BY <1>1, AppendProperties
<1> HIDE DEF t
<1>3. ASSUME NEW i \in 1..Len(t), NEW j \in 1..Len(t[i]), t[i][j].tag = "str"
      PROVE  t[i][j].at \in live
  <2>1. i # Len(s) + 1
    <3> SUFFICES ASSUME i = Len(s) + 1 PROVE FALSE
      OBVIOUS
    <3>1. j \in 1..0
      BY <1>1, <1>2
    <3> QED
      BY <3>1
  <2>2. i \in 1..Len(s) /\ t[i] = s[i]
    BY <1>2, <2>1
  <2> QED
    BY <1>3, <2>2 DEF StringsLive
<1>4. StringsLive(t, a, live)
  BY <1>3 DEF StringsLive
<1> QED
  BY <1>2, <1>4 DEF t, S, e

LEMMA StringsTop ==
    ASSUME NEW s \in Seq(Seq(Word)), s # << >>, NEW a, NEW live, StringsLive(s, a, live),
           NEW more, live \subseteq more, NEW w \in Word, w.tag = "str" => w.at \in more
    PROVE  StringsLive([s EXCEPT ![Len(s)] = Append(@, w)], a, more)
<1> DEFINE n == Len(s)
           v == Append(s[n], w)
           t == [s EXCEPT ![n] = v]
<1>1. n \in Nat /\ n \in 1..n /\ s[n] \in Seq(Word) /\ DOMAIN s = 1..n
  OBVIOUS
<1>2. /\ Len(s[n]) \in Nat /\ Len(v) = Len(s[n]) + 1 /\ v[Len(s[n]) + 1] = w
      /\ \A j \in 1..Len(s[n]) : v[j] = s[n][j]
  BY <1>1, AppendProperties
<1>3. t[n] = v /\ \A i \in 1..n : i # n => t[i] = s[i]
  BY <1>1
<1>4. Len(t) = n
  <2>1. \A i \in 1..n : s[i] \in Seq(Word)
    BY <1>1, ElementOfSeq
  <2>2. DOMAIN t = 1..n
    BY <1>1
  <2> HIDE DEF t, n
  <2> QED
    BY <1>1, <2>2
<1> HIDE DEF n, v, t
<1>5. ASSUME NEW i \in 1..Len(t), NEW j \in 1..Len(t[i]), t[i][j].tag = "str"
      PROVE  t[i][j].at \in more
  <2>1. CASE i # n
    <3>1. t[i] = s[i] /\ i \in 1..n
      BY <1>3, <1>4, <2>1
    <3> QED
      BY <1>5, <3>1 DEF StringsLive, n
  <2>2. CASE i = n /\ j \in 1..Len(s[n])
    <3>1. t[i][j] = s[n][j]
      BY <1>2, <1>3, <2>2
    <3> QED
      BY <1>1, <1>5, <2>2, <3>1 DEF StringsLive, n
  <2>3. CASE i = n /\ j = Len(s[n]) + 1
    <3>1. t[i][j] = w
      BY <1>2, <1>3, <2>3
    <3> QED
      BY <1>5, <3>1
  <2>4. i = n => j \in 1..Len(s[n]) \/ j = Len(s[n]) + 1
    <3>1. i = n => t[i] = v
      BY ONLY <1>3
    <3>2. Len(v) = Len(s[n]) + 1 /\ Len(s[n]) \in Nat
      BY ONLY <1>2
    <3>3. j \in 1..Len(t[i])
      OBVIOUS
    <3>4. i = n => j \in 1..(Len(s[n]) + 1)
      <4>1. i = n => Len(t[i]) = Len(v)
        BY ONLY <3>1, Zenon
      <4>2. i = n => j \in 1..Len(v)
        BY ONLY <3>3, <4>1, Zenon
      <4>3. 1..Len(v) = 1..(Len(s[n]) + 1)
        BY ONLY <3>2, Zenon
      <4> QED
        BY ONLY <4>2, <4>3, Zenon
    <3> DEFINE k == Len(s[n])
    <3>5. k \in Nat
      BY ONLY <3>2
    <3> HIDE DEF k
    <3>6. \A x \in 1..(k + 1) : x \in 1..k \/ x = k + 1
      BY ONLY <3>5
    <3> QED
      BY ONLY <3>4, <3>6, Zenon DEF k
  <2> QED
    BY <2>1, <2>2, <2>3, <2>4
<1>6. StringsLive(t, a, more)
  BY <1>5 DEF StringsLive
<1> QED
  BY <1>6 DEF t, v, n

LEMMA Joined ==
    ASSUME NEW S, NEW a \in Seq(S), NEW c \in Seq(S)
    PROVE  /\ a \o c \in Seq(S) /\ Len(a \o c) = Len(a) + Len(c)
           /\ \A i \in 1..(Len(a) + Len(c)) : (a \o c)[i] = IF i <= Len(a) THEN a[i] ELSE c[i - Len(a)]
  BY ConcatProperties

\* The cells of the innermost list, and the lists around it.
LEMMA StringsClose ==
    ASSUME NEW s \in Seq(Seq(Word)), s # << >>, NEW a \in Seq(Cell), NEW live,
           StringsLive(s, a, live), NEW c \in Seq(Cell), Len(c) = Len(s[Len(s)]),
           \A m \in 1..Len(c) : c[m].car = s[Len(s)][Len(c) - m + 1]
    PROVE  /\ a \o c \in Seq(Cell) /\ Len(a \o c) = Len(a) + Len(c)
           /\ StringsLive(SubSeq(s, 1, Len(s) - 1), a \o c, live)
           /\ StringsLive(<< >>, a \o c, live)
<1> DEFINE n == Len(s)
           r == SubSeq(s, 1, n - 1)
           b == a \o c
<1>1. n \in Nat /\ n \in 1..n
  OBVIOUS
<1>2. Len(r) = n - 1 /\ \A i \in 1..(n - 1) : r[i] = s[i]
  <2> DEFINE S == Seq(Word)
  <2>1. s \in Seq(S)
    OBVIOUS
  <2> HIDE DEF S
  <2> QED
    BY <2>1, AllButLast
<1>3. /\ b \in Seq(Cell) /\ Len(a) \in Nat /\ Len(c) \in Nat /\ Len(b) = Len(a) + Len(c)
      /\ \A i \in 1..Len(b) : b[i] = IF i <= Len(a) THEN a[i] ELSE c[i - Len(a)]
  <2>1. /\ b \in Seq(Cell) /\ Len(b) = Len(a) + Len(c)
        /\ \A i \in 1..(Len(a) + Len(c)) : b[i] = IF i <= Len(a) THEN a[i] ELSE c[i - Len(a)]
    <3>1. a \in Seq(Cell) /\ c \in Seq(Cell)
      OBVIOUS
    <3> QED
      BY ONLY <3>1, Joined
  <2>2. Len(a) \in Nat /\ Len(c) \in Nat
    OBVIOUS
  <2> HIDE DEF b
  <2> QED
    BY ONLY <2>1, <2>2
<1> HIDE DEF n, r, b
<1>4. ASSUME NEW i \in 1..Len(b), b[i].car.tag = "str" PROVE b[i].car.at \in live
  <2>1. CASE i <= Len(a)
    <3>1. i \in 1..Len(a) /\ b[i] = a[i]
      BY <1>3, <2>1
    <3> QED
      BY <1>4, <3>1 DEF StringsLive
  <2>2. CASE ~(i <= Len(a))
    <3> DEFINE m == i - Len(a)
               k == Len(c) - m + 1
    <3>1. m \in 1..Len(c) /\ k \in 1..Len(c) /\ b[i] = c[m]
      BY <1>3, <2>2
    <3>2. b[i].car = s[n][k] /\ k \in 1..Len(s[n])
      BY <3>1 DEF n
    <3> QED
      BY <1>1, <1>4, <3>2 DEF StringsLive, n
  <2> QED
    BY <2>1, <2>2
<1>5. ASSUME NEW i \in 1..Len(r), NEW j \in 1..Len(r[i]), r[i][j].tag = "str"
      PROVE  r[i][j].at \in live
  <2>1. r[i] = s[i] /\ i \in 1..n
    BY <1>1, <1>2
  <2> QED
    BY <1>5, <2>1 DEF StringsLive, n
<1>6. StringsLive(r, b, live) /\ StringsLive(<< >>, b, live)
  BY <1>4, <1>5 DEF StringsLive
<1> QED
  BY <1>3, <1>6 DEF r, b, n
-----------------------------------------------------------------------------
(* The invariant. *)

RTypeOK ==
    /\ pc \in {"idle", "preflight", "parse", "print", "dead"}
    /\ tokens \in Seq(TokenKind) /\ pos \in 0..Len(tokens)
    /\ stack \in Seq(Seq(Word)) /\ word \in Word /\ arena \in Seq(Cell)
    /\ slots \in Nat

\* What an outcome says of the text.
Told(result, ts) ==
    /\ result = "value" => First(ts) = {Len(ts)}
    /\ result = "trailing input" => First(ts) # {} /\ First(ts) # {Len(ts)}
    /\ result = "unexpected eof" => First(ts) = {}
    /\ result = "unexpected close" => First(ts) = {} /\ ts[1] = ")"
    /\ result = "too large" => First(ts) # {} /\ \A n \in Needs(ts) : n > ArenaCells

\* What holds at each point of eval_str.
AtPoint(at, ts, p, s, a, live, result) ==
    /\ at \in {"idle", "preflight"} => live = {}
    /\ at = "idle" => Told(result, ts)
    /\ at = "preflight" => p = 0 /\ s = << >> /\ a = << >>
    /\ at = "parse" => Parsing(ts, p, s, a) /\ \A n \in Needs(ts) : ~(n > ArenaCells)
    /\ at = "print" => Complete(ts, p, a)
    /\ at \in {"parse", "print"} => StringsLive(s, a, live)
    /\ at = "dead" => Needs(ts) = {}
    /\ Len(a) <= ArenaCells

\* The inductive invariant.
RInv == RTypeOK /\ AtPoint(pc, tokens, pos, stack, arena, transient, outcome)

LEMMA ReaderInit == Init => RInv
<1> SUFFICES ASSUME Init PROVE RInv
  OBVIOUS
<1>1. stack \in Seq(Seq(Word)) /\ arena \in Seq(Cell) /\ tokens \in Seq(TokenKind)
  BY DEF Init
<1>2. word \in Word
  BY DEF Init, Nil, Word
<1>3. RTypeOK
  BY <1>1, <1>2 DEF Init, RTypeOK
<1>4. Told(outcome, tokens)
  BY DEF Init, Told
<1>5. AtPoint(pc, tokens, pos, stack, arena, transient, outcome)
  BY <1>4, ReaderAssumption DEF Init, AtPoint
<1> QED
  BY <1>3, <1>5 DEF RInv

LEMMA BeginStep == ASSUME RInv, EvalString PROVE RInv'
<1>1. /\ pos' = 0 /\ stack' = << >> /\ word' = Nil /\ arena' = << >> /\ transient' = {}
      /\ pc' = "preflight" /\ slots' = slots /\ outcome' = outcome
  BY DEF EvalString
<1>2. PICK n \in 0..MaxTokens : tokens' \in [1..n -> TokenKind]
  BY DEF EvalString
<1>3. tokens' \in Seq(TokenKind) /\ Len(tokens') \in Nat
  BY <1>2, ReaderAssumption
<1>4. stack' \in Seq(Seq(Word)) /\ arena' \in Seq(Cell) /\ word' \in Word
  BY <1>1 DEF Nil, Word
<1>5. RTypeOK'
  BY <1>1, <1>3, <1>4 DEF RInv, RTypeOK
<1>6. AtPoint(pc', tokens', pos', stack', arena', transient', outcome')
  BY <1>1, ReaderAssumption DEF AtPoint
<1> QED
  BY <1>5, <1>6 DEF RInv

\* Every end of eval_str, if its outcome is that of the text.
LEMMA FinishStep ==
    ASSUME RInv, NEW result, Finish(result), Told(result, tokens),
           UNCHANGED << inputVars, parseVars, arena, slots >>
    PROVE  RInv'
<1>1. /\ pc' = "idle" /\ outcome' = result /\ transient' = {}
      /\ UNCHANGED << tokens, pos, stack, word, arena, slots >>
  BY DEF Finish, inputVars, parseVars
<1>2. RTypeOK'
  BY <1>1 DEF RInv, RTypeOK
<1>3. Len(arena) <= ArenaCells
  BY DEF RInv, AtPoint
<1>4. AtPoint(pc', tokens', pos', stack', arena', transient', outcome')
  BY <1>1, <1>3 DEF AtPoint
<1> QED
  BY <1>2, <1>4 DEF RInv

\* A form that is refused as too large needs more than there is, whichever way
\* it is counted; one that is passed does not.
LEMMA PreflightStep == ASSUME RInv, Preflight PROVE RInv'
<1>1. pc = "preflight" /\ UNCHANGED << inputVars, parseVars, arena, slots >>
  BY DEF Preflight
<1>2. Required = Needs(tokens) /\ tokens \in Seq(TokenKind) /\ ArenaCells \in Nat
  BY SameCounts, ReaderAssumption DEF RInv, RTypeOK
<1>3. CASE \E n \in Required : n > ArenaCells
  <2>1. Finish("too large")
    BY <1>3 DEF Preflight
  <2>2. PICK n \in Needs(tokens) : n > ArenaCells
    BY <1>2, <1>3
  <2>3. tokens # << >> /\ tokens[1] = "("
    BY <1>2, <2>2 DEF Needs
  <2>4. PICK i \in 1..Len(tokens) : Ends(tokens, i) /\ n = Cells(tokens, i)
    BY <2>2, <2>3 DEF Needs
  <2>5. Needs(tokens) = {n} /\ First(tokens) = {i}
    BY <1>2, <2>3, <2>4, EndKnown
  <2>6. Told("too large", tokens)
    BY <2>2, <2>5 DEF Told
  <2> QED
    BY <1>1, <2>1, <2>6, FinishStep
<1>4. CASE ~\E n \in Required : n > ArenaCells
  <2>1. /\ pc' = "parse" /\ UNCHANGED << outcome, transient, tokens, pos, stack, word, arena, slots >>
    BY <1>1, <1>4 DEF Preflight, inputVars, parseVars
  <2>2. RTypeOK'
    BY <2>1 DEF RInv, RTypeOK
  <2>3. pos = 0 /\ stack = << >> /\ arena = << >> /\ Len(arena) <= ArenaCells
    BY <1>1 DEF RInv, AtPoint
  <2>4. Parsing(tokens, pos, stack, arena)
    BY <2>3, ParsingStarts
  <2>5. StringsLive(stack, arena, transient)
    BY <2>3 DEF StringsLive
  <2>6. \A n \in Needs(tokens) : ~(n > ArenaCells)
    BY <1>2, <1>4
  <2>7. AtPoint(pc', tokens', pos', stack', arena', transient', outcome')
    BY <2>1, <2>3, <2>4, <2>5, <2>6 DEF AtPoint
  <2> QED
    BY <2>2, <2>7 DEF RInv
<1> QED
  BY <1>3, <1>4

\* What is known while a form is parsed.
LEMMA WhileParsing ==
    ASSUME RInv, pc = "parse"
    PROVE  /\ tokens \in Seq(TokenKind) /\ Len(tokens) \in Nat /\ pos \in Nat /\ pos <= Len(tokens)
           /\ stack \in Seq(Seq(Word)) /\ word \in Word /\ arena \in Seq(Cell) /\ slots \in Nat
           /\ Parsing(tokens, pos, stack, arena) /\ StringsLive(stack, arena, transient)
           /\ \A n \in Needs(tokens) : ~(n > ArenaCells)
           /\ Len(arena) <= ArenaCells
  BY DEF RInv, RTypeOK, AtPoint

\* An atom or a string, with its word, delivered to the innermost open list or
\* as the whole form.
LEMMA WordStep ==
    ASSUME RInv, pc = "parse", More, Next1 \in {"atom", "str"}, Advance,
           NEW w \in Word, w.tag = "str" => w.at \in transient', Deliver(w, stack),
           transient \subseteq transient', slots' \in Nat,
           UNCHANGED << tokens, arena, outcome >>
    PROVE  RInv'
<1>1. /\ tokens \in Seq(TokenKind) /\ Len(tokens) \in Nat /\ pos \in Nat /\ pos < Len(tokens)
      /\ stack \in Seq(Seq(Word)) /\ arena \in Seq(Cell) /\ word \in Word
      /\ Parsing(tokens, pos, stack, arena) /\ StringsLive(stack, arena, transient)
      /\ \A n \in Needs(tokens) : ~(n > ArenaCells)
      /\ Len(arena) <= ArenaCells
      /\ tokens[pos + 1] \in {"atom", "str"} /\ pos' = pos + 1
  BY WhileParsing DEF More, Next1, Advance
<1>2. pos' \in 0..Len(tokens)
  BY <1>1
<1>3. CASE stack = << >>
  <2>1. word' = w /\ stack' = << >> /\ pc' = "print"
    BY <1>3 DEF Deliver
  <2>2. Complete(tokens, pos + 1, arena)
    BY <1>1, <1>3, ParseAtom
  <2>3. StringsLive(<< >>, arena, transient')
    BY <1>1 DEF StringsLive
  <2>4. stack' \in Seq(Seq(Word))
    BY <2>1
  <2>5. RTypeOK'
    BY <1>1, <1>2, <2>1, <2>4 DEF RTypeOK
  <2>6. AtPoint(pc', tokens', pos', stack', arena', transient', outcome')
    BY <1>1, <2>1, <2>2, <2>3 DEF AtPoint
  <2> QED
    BY <2>5, <2>6 DEF RInv
<1>4. CASE stack # << >>
  <2>1. /\ stack' = [stack EXCEPT ![Len(stack)] = Append(@, w)]
        /\ word' = word /\ pc' = "parse"
    BY <1>4 DEF Deliver
  <2>2. /\ Parsing(tokens, pos + 1, [stack EXCEPT ![Len(stack)] = Append(@, w)], arena)
        /\ [stack EXCEPT ![Len(stack)] = Append(@, w)] \in Seq(Seq(Word))
    BY <1>1, <1>4, ParseWord
  <2>3. StringsLive([stack EXCEPT ![Len(stack)] = Append(@, w)], arena, transient')
    BY <1>1, <1>4, StringsTop
  <2>4. Parsing(tokens, pos', stack', arena) /\ StringsLive(stack', arena, transient')
    BY <1>1, <2>1, <2>2, <2>3
  <2>5. RTypeOK'
    BY <1>1, <1>2, <2>1, <2>2 DEF RTypeOK
  <2>6. AtPoint(pc', tokens', pos', stack', arena', transient', outcome')
    BY <1>1, <2>1, <2>4 DEF AtPoint
  <2> QED
    BY <2>5, <2>6 DEF RInv
<1> QED
  BY <1>3, <1>4

LEMMA OpenStep == ASSUME RInv, ReadOpen PROVE RInv'
<1>1. /\ pc = "parse" /\ More /\ Next1 = "(" /\ pos' = pos + 1 /\ stack' = Append(stack, << >>)
      /\ UNCHANGED << pc, tokens, word, arena, slots, transient, outcome >>
  BY DEF ReadOpen, Advance, inputVars, boxedVars
<1>2. /\ tokens \in Seq(TokenKind) /\ Len(tokens) \in Nat /\ pos \in Nat /\ pos < Len(tokens)
      /\ stack \in Seq(Seq(Word)) /\ arena \in Seq(Cell) /\ word \in Word /\ slots \in Nat
      /\ Parsing(tokens, pos, stack, arena) /\ StringsLive(stack, arena, transient)
      /\ \A n \in Needs(tokens) : ~(n > ArenaCells)
      /\ Len(arena) <= ArenaCells /\ tokens[pos + 1] = "("
  BY <1>1, WhileParsing DEF More, Next1
<1>3. Parsing(tokens, pos', stack', arena)
  BY <1>1, <1>2, ParseOpen
<1>4. stack' \in Seq(Seq(Word)) /\ StringsLive(stack', arena, transient)
  BY <1>1, <1>2, StringsOpen
<1>5. pos' \in 0..Len(tokens)
  BY <1>1, <1>2
<1>6. RTypeOK'
  BY <1>1, <1>2, <1>4, <1>5 DEF RTypeOK
<1>7. AtPoint(pc', tokens', pos', stack', arena', transient', outcome')
  BY <1>1, <1>2, <1>3, <1>4 DEF AtPoint
<1> QED
  BY <1>6, <1>7 DEF RInv

\* The cells of a list, and its word.
LEMMA ListCells ==
    ASSUME NEW words \in Seq(Word), Len(arena) \in Nat
    PROVE  /\ CellsOf(words) \in Seq(Cell) /\ Len(CellsOf(words)) = Len(words)
           /\ \A m \in 1..Len(words) : CellsOf(words)[m].car = words[Len(words) - m + 1]
           /\ ListOf(words) \in Word
<1> DEFINE k == Len(words)
           c == CellsOf(words)
<1>1. k \in Nat /\ \A m \in 1..k : k - m + 1 \in 1..k
  OBVIOUS
<1>2. \A m \in 1..k : words[k - m + 1] \in Word
  BY <1>1, ElementOfSeq
<1>3. c = [m \in 1..k |-> [car |-> words[k - m + 1],
                           cdr |-> IF m = 1 THEN Nil ELSE Cons(Len(arena) + m - 1)]]
  BY DEF CellsOf
<1> HIDE DEF k, c
<1>4. ASSUME NEW m \in 1..k PROVE c[m] \in Cell /\ c[m].car = words[k - m + 1]
  <2>1. (IF m = 1 THEN Nil ELSE Cons(Len(arena) + m - 1)) \in Word
    <3>1. Len(arena) + m - 1 \in Nat
      BY <1>1
    <3> QED
      BY <3>1 DEF Nil, Cons, Word
  <2>2. words[k - m + 1] \in Word
    BY <1>2
  <2>3. c[m] = [car |-> words[k - m + 1], cdr |-> IF m = 1 THEN Nil ELSE Cons(Len(arena) + m - 1)]
    BY <1>3
  <2> QED
    BY <2>1, <2>2, <2>3 DEF Cell
<1>5. c \in Seq(Cell) /\ Len(c) = k
  <2>1. c \in [1..k -> Cell]
    <3>1. \A m \in 1..k : c[m] \in Cell
      BY <1>4
    <3>2. c = [m \in 1..k |-> c[m]]
      BY <1>3
    <3> QED
      BY ONLY <3>1, <3>2
  <2>2. k \in Nat
    BY <1>1
  <2> QED
    BY ONLY <2>1, <2>2
<1>6. ListOf(words) \in Word
  <2>1. Len(arena) + k \in Nat
    BY <1>1
  <2> QED
    BY <2>1 DEF ListOf, Nil, Cons, Word, k
<1> QED
  BY <1>4, <1>5, <1>6 DEF c, k

LEMMA CloseStep == ASSUME RInv, ReadClose PROVE RInv'
<1> DEFINE words == stack[Len(stack)]
           rest == SubSeq(stack, 1, Len(stack) - 1)
           cells == CellsOf(words)
           w == ListOf(words)
           b == arena \o cells
<1>1. /\ pc = "parse" /\ More /\ Next1 = ")" /\ stack # << >>
      /\ UNCHANGED << tokens, slots, transient, outcome >>
  BY DEF ReadClose, inputVars, boxedVars
<1>2. /\ tokens \in Seq(TokenKind) /\ Len(tokens) \in Nat /\ pos \in Nat /\ pos < Len(tokens)
      /\ stack \in Seq(Seq(Word)) /\ arena \in Seq(Cell) /\ word \in Word /\ slots \in Nat
      /\ Parsing(tokens, pos, stack, arena) /\ StringsLive(stack, arena, transient)
      /\ \A n \in Needs(tokens) : ~(n > ArenaCells)
      /\ Len(arena) <= ArenaCells /\ tokens[pos + 1] = ")" /\ Len(arena) \in Nat
  BY <1>1, WhileParsing DEF More, Next1
<1>3. words \in Seq(Word) /\ Len(words) \in Nat
  <2>1. Len(stack) \in 1..Len(stack)
    BY <1>1, <1>2
  <2>2. words \in Seq(Word)
    BY <1>2, <2>1, ElementOfSeq
  <2> QED
    BY <2>2
<1>4. CASE Len(arena) + Len(words) > ArenaCells
  <2>1. pc' = "dead" /\ UNCHANGED << pos, stack, word, arena >>
    BY <1>4 DEF ReadClose, parseVars
  <2>2. Needs(tokens) = {}
    BY <1>1, <1>2, <1>4, ParseDies
  <2>3. RTypeOK'
    BY <1>1, <2>1 DEF RInv, RTypeOK
  <2>4. AtPoint(pc', tokens', pos', stack', arena', transient', outcome')
    BY <1>1, <1>2, <2>1, <2>2 DEF AtPoint
  <2> QED
    BY <2>3, <2>4 DEF RInv
<1>5. CASE ~(Len(arena) + Len(words) > ArenaCells)
  <2>1. pos' = pos + 1 /\ arena' = b /\ Deliver(w, rest)
    BY <1>5 DEF ReadClose, Advance
  <2>2. /\ cells \in Seq(Cell) /\ Len(cells) = Len(words)
        /\ \A m \in 1..Len(words) : cells[m].car = words[Len(words) - m + 1]
        /\ w \in Word
    BY <1>2, <1>3, ListCells
  <2> HIDE DEF cells, w
  <2>3. w.tag = "str" => w.at \in transient
    BY DEF w, ListOf, Nil, Cons
  <2>4. /\ b \in Seq(Cell) /\ Len(b) = Len(arena) + Len(cells)
        /\ StringsLive(rest, b, transient) /\ StringsLive(<< >>, b, transient)
    <3>1. \A m \in 1..Len(cells) : cells[m].car = stack[Len(stack)][Len(cells) - m + 1]
      BY <2>2
    <3>2. cells \in Seq(Cell) /\ Len(cells) = Len(stack[Len(stack)])
      BY <2>2
    <3>3. /\ stack \in Seq(Seq(Word)) /\ stack # << >> /\ arena \in Seq(Cell)
          /\ StringsLive(stack, arena, transient)
      BY <1>1, <1>2
    <3> QED
      BY ONLY <3>1, <3>2, <3>3, StringsClose
  <2>5. Len(b) = Len(arena) + Len(words)
    BY <2>2, <2>4
  <2>6. ~(Len(b) > ArenaCells) /\ Len(b) \in Nat /\ ArenaCells \in Nat
    BY <1>2, <1>3, <1>5, <2>5, ReaderAssumption
  <2>7. Len(b) <= ArenaCells
    BY <2>6
  <2> HIDE DEF b
  <2>8. IF rest = << >> THEN Complete(tokens, pos + 1, b)
        ELSE /\ Parsing(tokens, pos + 1, [rest EXCEPT ![Len(rest)] = Append(@, w)], b)
             /\ [rest EXCEPT ![Len(rest)] = Append(@, w)] \in Seq(Seq(Word))
    <3>1. Len(b) = Len(arena) + Len(stack[Len(stack)])
      BY <2>5
    <3>2. rest = SubSeq(stack, 1, Len(stack) - 1)
      OBVIOUS
    <3> HIDE DEF rest, words
    <3> QED
      BY <1>1, <1>2, <2>2, <2>4, <3>1, <3>2, ParseClose
  <2>9. rest \in Seq(Seq(Word))
    <3> DEFINE S == Seq(Word)
    <3>1. stack \in Seq(S)
      BY <1>2
    <3> HIDE DEF S
    <3>2. rest \in Seq(S)
      BY <1>1, <3>1, AllButLast
    <3> QED
      BY <3>2 DEF S
  <2> HIDE DEF rest, words
  <2>10. pos' \in 0..Len(tokens)
    BY <1>2, <2>1
  <2>11. CASE rest = << >>
    <3>1. word' = w /\ stack' = << >> /\ pc' = "print"
      BY <2>1, <2>11 DEF Deliver
    <3>2. stack' \in Seq(Seq(Word))
      BY <3>1
    <3>3. RTypeOK'
      BY <1>1, <1>2, <2>1, <2>2, <2>4, <2>10, <3>1, <3>2 DEF RTypeOK
    <3>4. Complete(tokens, pos + 1, b)
      BY <2>8, <2>11
    <3>5. AtPoint(pc', tokens', pos', stack', arena', transient', outcome')
      BY <1>1, <2>1, <2>4, <2>7, <3>1, <3>4 DEF AtPoint
    <3> QED
      BY <3>3, <3>5 DEF RInv
  <2>12. CASE rest # << >>
    <3> DEFINE t == [rest EXCEPT ![Len(rest)] = Append(@, w)]
    <3>1. stack' = t /\ word' = word /\ pc' = "parse"
      BY <1>1, <2>1, <2>12 DEF Deliver
    <3>2. Parsing(tokens, pos + 1, t, b) /\ t \in Seq(Seq(Word))
      BY <2>8, <2>12
    <3>3. StringsLive(t, b, transient)
      BY <2>2, <2>3, <2>4, <2>9, <2>12, StringsTop
    <3> HIDE DEF t
    <3>4. RTypeOK'
      BY <1>1, <1>2, <2>1, <2>4, <2>10, <3>1, <3>2 DEF RTypeOK
    <3>5. AtPoint(pc', tokens', pos', stack', arena', transient', outcome')
      BY <1>1, <1>2, <2>1, <2>7, <3>1, <3>2, <3>3 DEF AtPoint
    <3> QED
      BY <3>4, <3>5 DEF RInv
  <2> QED
    BY <2>11, <2>12
<1> QED
  BY <1>4, <1>5

\* Where the text ends before the form does, or begins with ")".
LEMMA FailStep == ASSUME RInv, ParseFails PROVE RInv'
<1>1. pc = "parse" /\ UNCHANGED << inputVars, parseVars, arena, slots >>
  BY DEF ParseFails
<1>2. /\ tokens \in Seq(TokenKind) /\ Len(tokens) \in Nat /\ pos \in Nat /\ pos <= Len(tokens)
      /\ Parsing(tokens, pos, stack, arena)
  BY <1>1, WhileParsing
<1>3. CASE ~More /\ Finish("unexpected eof")
  <2>1. pos = Len(tokens)
    <3>1. ~(pos < Len(tokens))
      BY <1>3 DEF More
    <3>2. pos \in Nat /\ Len(tokens) \in Nat /\ pos <= Len(tokens)
      BY <1>2
    <3> QED
      BY ONLY <3>1, <3>2
  <2>2. First(tokens) = {}
    <3>1. CASE tokens = << >>
      BY <3>1 DEF First
    <3>2. CASE tokens # << >>
      <4>1. pos # 0
        BY <1>2, <2>1, <3>2
      <4>2. tokens[1] = "(" /\ Unended(tokens, Len(tokens))
        BY <1>2, <2>1, <4>1 DEF Parsing
      <4> QED
        BY <1>2, <3>2, <4>2, EndUnknown
    <3> QED
      BY <3>1, <3>2
  <2>3. Told("unexpected eof", tokens)
    BY <2>2 DEF Told
  <2> QED
    BY <1>1, <1>3, <2>3, FinishStep
<1>4. CASE More /\ Next1 = ")" /\ stack = << >> /\ Finish("unexpected close")
  <2>1. pos = 0
    BY <1>2, <1>4 DEF Parsing
  <2>2. tokens # << >> /\ tokens[1] = ")"
    <3>1. pos < Len(tokens) /\ tokens[pos + 1] = ")"
      BY <1>4 DEF More, Next1
    <3>2. 0 < Len(tokens) /\ tokens[0 + 1] = ")"
      BY <2>1, <3>1
    <3> QED
      BY <1>2, <3>2
  <2>3. First(tokens) = {}
    BY <1>2, <2>2, CloseFirst
  <2>4. Told("unexpected close", tokens)
    BY <2>2, <2>3 DEF Told
  <2> QED
    BY <1>1, <1>4, <2>4, FinishStep
<1> QED
  BY <1>3, <1>4 DEF ParseFails

LEMMA PrintStep == ASSUME RInv, PrintForm PROVE RInv'
<1>1. /\ pc = "print" /\ UNCHANGED << inputVars, parseVars, arena, slots >>
      /\ Finish(IF pos = Len(tokens) THEN "value" ELSE "trailing input")
  BY DEF PrintForm
<1>2. tokens \in Seq(TokenKind) /\ Complete(tokens, pos, arena)
  BY <1>1 DEF RInv, RTypeOK, AtPoint
<1>3. First(tokens) = {pos}
  BY <1>2, CompleteMeans
<1>4. CASE pos = Len(tokens)
  <2>1. Finish("value") /\ Told("value", tokens)
    BY <1>1, <1>3, <1>4 DEF Told
  <2> QED
    BY <1>1, <2>1, FinishStep
<1>5. CASE pos # Len(tokens)
  <2>1. Finish("trailing input") /\ Told("trailing input", tokens)
    BY <1>1, <1>3, <1>5 DEF Told
  <2> QED
    BY <1>1, <2>1, FinishStep
<1> QED
  BY <1>4, <1>5

LEMMA ReaderInvariant == Spec => []RInv
<1>1. RInv /\ [Next]_vars => RInv'
  <2> SUFFICES ASSUME RInv, [Next]_vars PROVE RInv'
    OBVIOUS
  <2>1. CASE EvalString
    BY <2>1, BeginStep
  <2>2. CASE Unterminated
    <3>1. Told("unterminated string", tokens)
      BY DEF Told
    <3> QED
      BY <2>2, <3>1, FinishStep DEF Unterminated
  <2>3. CASE Preflight
    BY <2>3, PreflightStep
  <2>4. CASE ReadAtom
    <3>1. Atom \in Word /\ Atom.tag # "str"
      BY DEF Atom, Word
    <3>2. /\ pc = "parse" /\ More /\ Next1 \in {"atom", "str"} /\ Advance /\ Deliver(Atom, stack)
          /\ UNCHANGED << tokens, arena, slots, transient, outcome >>
      BY <2>4 DEF ReadAtom, inputVars, boxedVars
    <3>3. slots' \in Nat /\ transient \subseteq transient'
      BY <3>2 DEF RInv, RTypeOK
    <3> QED
      BY <3>1, <3>2, <3>3, WordStep
  <2>5. CASE ReadString
    <3>1. /\ pc = "parse" /\ More /\ Next1 \in {"atom", "str"} /\ Advance
          /\ Deliver(Str(slots + 1), stack) /\ transient' = transient \cup {slots + 1}
          /\ slots' = slots + 1 /\ UNCHANGED << tokens, arena, outcome >>
      BY <2>5 DEF ReadString, inputVars
    <3>2. slots' \in Nat /\ slots + 1 \in Nat
      BY <3>1 DEF RInv, RTypeOK
    <3>3. Str(slots + 1) \in Word /\ Str(slots + 1).at \in transient'
      BY <3>1, <3>2 DEF Str, Word
    <3>4. transient \subseteq transient'
      BY <3>1
    <3> QED
      BY <3>1, <3>2, <3>3, <3>4, WordStep
  <2>6. CASE ReadOpen
    BY <2>6, OpenStep
  <2>7. CASE ReadClose
    BY <2>7, CloseStep
  <2>8. CASE ParseFails
    BY <2>8, FailStep
  <2>9. CASE PrintForm
    BY <2>9, PrintStep
  <2>10. CASE UNCHANGED vars
    BY <2>10 DEF vars, inputVars, parseVars, boxedVars, RInv, RTypeOK
  <2> QED
    BY <2>1, <2>2, <2>3, <2>4, <2>5, <2>6, <2>7, <2>8, <2>9, <2>10 DEF Next
<1> QED
  BY <1>1, ReaderInit, PTL DEF Spec

-----------------------------------------------------------------------------
(* What follows. *)

\* For every arena and every text: when a form has been read, the preflight's
\* count was the number of cells it took.
THEOREM PreflightCounts == Spec => []PreflightExact
<1>1. RInv => PreflightExact
  <2> SUFFICES ASSUME RInv, pc = "print" PROVE Required = {Len(arena)}
    BY DEF PreflightExact
  <2>1. tokens \in Seq(TokenKind) /\ Complete(tokens, pos, arena)
    BY DEF RInv, RTypeOK, AtPoint
  <2> QED
    BY <2>1, CompleteMeans, SameCounts
<1> QED
  BY <1>1, ReaderInvariant, PTL

\* No text writes past the arena, and only a form that does not end can exhaust
\* it and end the process.
THEOREM PreflightProtects == Spec => []PreflightSuffices
<1>1. RInv => PreflightSuffices
  BY SameCounts DEF RInv, AtPoint, PreflightSuffices
<1> QED
  BY <1>1, ReaderInvariant, PTL

\* Every outcome is the one the text calls for: a value for exactly one whole
\* form, and each error only for its own kind of text.
THEOREM OutcomesMatch == Spec => []OutcomeMatches
<1>1. RInv => OutcomeMatches
  <2> SUFFICES ASSUME RInv, pc = "idle" PROVE OutcomeMatches
    BY DEF OutcomeMatches
  <2>1. Told(outcome, tokens)
    BY DEF RInv, AtPoint
  <2> QED
    BY <2>1, SameCounts DEF Told, OutcomeMatches
<1> QED
  BY <1>1, ReaderInvariant, PTL

\* No string outlives its form, and none is lost while its form is read.
THEOREM StringsAreScoped == Spec => []StringsScoped
<1>1. RInv => StringsScoped
  BY DEF RInv, AtPoint, StringsScoped, StringsLive
<1> QED
  BY <1>1, ReaderInvariant, PTL

-----------------------------------------------------------------------------
(* The printer. *)

\* The order of the natural numbers as a relation, and the least of a set of
\* them: induction, for what is said of cells that refer to earlier cells.
Before == {p \in Nat \X Nat : p[1] < p[2]}

LEMMA Least ==
    ASSUME NEW T, T \subseteq Nat, T # {}
    PROVE  \E x \in T : \A y \in T : x <= y
<1>1. OpToRel(<, Nat) = Before
  BY DEF OpToRel, Before
<1>2. IsWellFoundedOn(Before, Nat)
  BY <1>1, NatLessThanWellFounded
<1>3. PICK x \in T : \A y \in T : ~ (<< y, x >> \in Before)
  BY <1>2, WFMin
<1>4. \A y \in T : y \in Nat /\ x \in Nat /\ ~(y < x)
  BY <1>3 DEF Before
<1> QED
  BY <1>4

\* A sequence of tokens: a source, or what the printer writes.
Text == Seq(TokenKind)

\* write_value, if W is the text from each cell on.
Printed(W, w) ==
    CASE w.tag = "nil" -> <<"(", ")">>
      [] w.tag = "cons" -> <<"(">> \o W[w.at] \o <<")">>
      [] OTHER -> << w.tag >>

\* A word that refers to one of m cells, or to none.
Refers(w, m) == w.tag = "cons" => w.at \in 1..m

\* W is the text from each cell on; cells refer to earlier ones.
Prints(W, a) ==
    /\ W \in [0..Len(a) -> Text] /\ W[0] = << >>
    /\ \A n \in 1..Len(a) :
          /\ Refers(a[n].car, n - 1) /\ a[n].cdr.at \in 0..(n - 1)
          /\ W[n] = Printed(W, a[n].car) \o W[a[n].cdr.at]

Step(f) == [n \in 0..Len(arena) |->
              IF n = 0 THEN << >>
              ELSE LET c == arena[n]
                       head == CASE c.car.tag = "nil" -> <<"(", ")">>
                               [] c.car.tag = "cons" -> <<"(">> \o f[c.car.at] \o <<")">>
                               [] OTHER -> << c.car.tag >>
                   IN  head \o f[c.cdr.at]]

LEMMA WriteChosen == WriteFrom = CHOOSE f : f = Step(f)
  BY DEF WriteFrom, Step

\* The printer's function is the only text of the cells.
LEMMA WriteIs ==
    ASSUME NEW W, Prints(W, arena), arena \in Seq(Cell)
    PROVE  \A n \in 0..Len(arena) : WriteFrom[n] = W[n]
<1> DEFINE L == Len(arena)
<1>1. L \in Nat
  OBVIOUS
<1>2. \A f : Step(f) = [n \in 0..L |-> IF n = 0 THEN << >> ELSE Printed(f, arena[n].car) \o f[arena[n].cdr.at]]
  BY DEF Step, Printed
<1>3. W = Step(W)
  <2>1. W = [n \in 0..L |-> W[n]]
    BY DEF Prints
  <2>2. \A n \in 0..L : W[n] = IF n = 0 THEN << >> ELSE Printed(W, arena[n].car) \o W[arena[n].cdr.at]
    BY <1>1 DEF Prints
  <2> QED
    BY <1>2, <2>1, <2>2
<1> DEFINE F == WriteFrom
<1>4. F = Step(F)
  BY <1>3, WriteChosen
<1> HIDE DEF F
<1>5. \A n \in 0..L : F[n] = IF n = 0 THEN << >> ELSE Printed(F, arena[n].car) \o F[arena[n].cdr.at]
  BY <1>2, <1>4
<1> DEFINE T == {n \in 0..L : F[n] # W[n]}
<1> SUFFICES ASSUME T # {} PROVE FALSE
  BY DEF F
<1>6. T \subseteq Nat
  BY <1>1
<1>7. PICK n \in T : \A y \in T : n <= y
  BY <1>6, Least
<1>8. n \in 1..L
  <2>1. n # 0
    BY <1>5 DEF Prints
  <2> QED
    BY <1>1, <2>1
<1>9. \A y \in 0..(n - 1) : F[y] = W[y]
  <2>1. \A y \in 0..(n - 1) : y \in 0..L /\ ~(n <= y)
    BY <1>1, <1>8
  <2> QED
    BY <1>7, <2>1
<1>10. /\ Refers(arena[n].car, n - 1) /\ arena[n].cdr.at \in 0..(n - 1)
       /\ W[n] = Printed(W, arena[n].car) \o W[arena[n].cdr.at]
  BY <1>8 DEF Prints
<1>11. Printed(F, arena[n].car) = Printed(W, arena[n].car)
  <2>1. CASE arena[n].car.tag = "cons"
    <3>1. arena[n].car.at \in 0..(n - 1)
      BY <1>1, <1>8, <1>10, <2>1 DEF Refers
    <3>2. F[arena[n].car.at] = W[arena[n].car.at]
      BY <1>9, <3>1
    <3> QED
      BY <2>1, <3>2 DEF Printed
  <2>2. CASE arena[n].car.tag # "cons"
    BY <2>2 DEF Printed
  <2> QED
    BY <2>1, <2>2
<1>12. F[arena[n].cdr.at] = W[arena[n].cdr.at]
  BY <1>9, <1>10
<1>13. F[n] = Printed(F, arena[n].car) \o F[arena[n].cdr.at]
  <2>1. n \in 0..L /\ n # 0
    BY <1>1, <1>8
  <2> QED
    BY ONLY <1>5, <2>1
<1> QED
  BY <1>10, <1>11, <1>12, <1>13

-----------------------------------------------------------------------------
\* A part of a text, and two that follow each other.
LEMMA Part ==
    ASSUME NEW ts \in Text, NEW i \in Nat, NEW j \in Nat, 1 <= i, j <= Len(ts)
    PROVE  SubSeq(ts, i, j) \in Text
<1>1. Len(ts) \in Nat /\ \A k \in i..j : ts[k] \in TokenKind
  BY DEF Text
<1> QED
  BY <1>1, SubSeqProperties DEF Text

LEMMA PartsJoin ==
    ASSUME NEW ts \in Text, NEW i \in Nat, NEW j \in Nat, NEW k \in Nat,
           1 <= i, i <= j + 1, j <= k, k <= Len(ts)
    PROVE  SubSeq(ts, i, j) \o SubSeq(ts, j + 1, k) = SubSeq(ts, i, k)
<1>1. Len(ts) \in Nat /\ ts \in Seq(TokenKind)
  BY DEF Text
<1>2. i \in 1..(Len(ts) + 1) /\ j \in (i - 1)..Len(ts) /\ k \in j..Len(ts)
  BY <1>1
<1> QED
  BY <1>1, <1>2, ConcatAdjacentSubSeq

LEMMA PartOfOne ==
    ASSUME NEW ts \in Text, NEW i \in 1..Len(ts)
    PROVE  SubSeq(ts, i, i) = << ts[i] >>
<1>1. Len(ts) \in Nat /\ i \in Int /\ ts[i] \in TokenKind /\ \A k \in i..i : ts[k] \in TokenKind
  BY DEF Text
<1> DEFINE r == SubSeq(ts, i, i)
           o == << ts[i] >>
<1>2. /\ r \in Seq(TokenKind) /\ Len(r) = IF i <= i THEN i - i + 1 ELSE 0
      /\ \A k \in 1..(i - i + 1) : r[k] = ts[i + k - 1]
  BY <1>1, SubSeqProperties
<1>3. o \in Seq(TokenKind) /\ Len(o) = 1 /\ o[1] = ts[i]
  BY <1>1
<1> HIDE DEF r, o
<1>4. i - i + 1 = 1 /\ i <= i /\ i + 1 - 1 = i
  BY <1>1
<1>5. Len(r) = 1 /\ r[1] = ts[i]
  BY <1>2, <1>4
<1>6. \A k \in 1..Len(r) : r[k] = o[k]
  BY <1>3, <1>5
<1>7. r = o
  BY <1>2, <1>3, <1>5, <1>6, SeqEqual
<1> QED
  BY <1>7 DEF r, o

\* The parenthesis before a part, the part, and the parenthesis after it.
LEMMA PartInside ==
    ASSUME NEW ts \in Text, NEW i \in Nat, NEW j \in Nat, 1 <= i, i <= j, j + 1 <= Len(ts),
           ts[i] = "(", ts[j + 1] = ")"
    PROVE  <<"(">> \o SubSeq(ts, i + 1, j) \o <<")">> = SubSeq(ts, i, j + 1)
<1>1. Len(ts) \in Nat
  BY DEF Text
<1>2. SubSeq(ts, i, i) = <<"(">> /\ SubSeq(ts, j + 1, j + 1) = <<")">>
  <2>1. i \in 1..Len(ts) /\ j + 1 \in 1..Len(ts)
    BY <1>1
  <2> QED
    BY <2>1, PartOfOne
<1>3. SubSeq(ts, i, i) \o SubSeq(ts, i + 1, j) = SubSeq(ts, i, j)
  BY <1>1, PartsJoin
<1>4. SubSeq(ts, i, j) \o SubSeq(ts, j + 1, j + 1) = SubSeq(ts, i, j + 1)
  BY <1>1, PartsJoin
<1> QED
  BY <1>2, <1>3, <1>4

-----------------------------------------------------------------------------
\* Word w, of m cells with texts W, is the text x.
Spells(W, m, w, x) == Refers(w, m) /\ Printed(W, w) = x

\* These words are, one after the other, the tokens after `from' up to `to'.
Lies(W, m, ts, words, from, to) ==
    \E c \in [Nat -> Nat] :
        /\ c[0] = from /\ c[Len(words)] = to
        /\ \A j \in 0..Len(words) : from <= c[j] /\ c[j] <= to
        /\ \A j \in 1..Len(words) :
              /\ c[j - 1] <= c[j]
              /\ Spells(W, m, words[j], SubSeq(ts, c[j - 1] + 1, c[j]))

\* List i of the stack opens at token b[i]: the open lists, one inside the
\* other, are the tokens read so far.
LaidBy(W, m, b, ts, p, s) ==
    /\ b \in [Nat -> Nat] /\ b[1] = 1 /\ b[Len(s) + 1] = p + 1
    /\ \A i \in 1..Len(s) :
          /\ b[i] >= 1 /\ ts[b[i]] = "("
          /\ Lies(W, m, ts, s[i], b[i], b[i + 1] - 1)

\* More cells change no word that is there.
LEMMA SpellsStill ==
    ASSUME NEW W, NEW V, NEW m \in Nat, NEW k \in Nat, m <= k, \A n \in 0..m : V[n] = W[n],
           NEW w, NEW x, Spells(W, m, w, x)
    PROVE  Spells(V, k, w, x)
<1>1. CASE w.tag = "cons"
  <2>1. w.at \in 1..m /\ w.at \in 0..m /\ w.at \in 1..k
    BY <1>1 DEF Spells, Refers
  <2>2. V[w.at] = W[w.at]
    BY <2>1
  <2> QED
    BY <1>1, <2>1, <2>2 DEF Spells, Refers, Printed
<1>2. CASE w.tag # "cons"
  BY <1>2 DEF Spells, Refers, Printed
<1> QED
  BY <1>1, <1>2

LEMMA LiesStill ==
    ASSUME NEW W, NEW V, NEW m \in Nat, NEW k \in Nat, m <= k, \A n \in 0..m : V[n] = W[n],
           NEW ts, NEW words, NEW from, NEW to, Lies(W, m, ts, words, from, to)
    PROVE  Lies(V, k, ts, words, from, to)
<1>1. \A w, x : Spells(W, m, w, x) => Spells(V, k, w, x)
  BY SpellsStill
<1> QED
  BY <1>1 DEF Lies

\* One more word at the end.
LEMMA LiesMore ==
    ASSUME NEW W, NEW m, NEW ts, NEW words \in Seq(Word), NEW from \in Nat, NEW to \in Nat,
           Lies(W, m, ts, words, from, to), NEW q \in Nat, to <= q,
           NEW w \in Word, Spells(W, m, w, SubSeq(ts, to + 1, q))
    PROVE  Lies(W, m, ts, Append(words, w), from, q)
<1> DEFINE k == Len(words)
           v == Append(words, w)
<1>1. k \in Nat /\ Len(v) = k + 1 /\ v[k + 1] = w /\ \A j \in 1..k : v[j] = words[j]
  BY AppendProperties
<1>2. PICK c \in [Nat -> Nat] :
          /\ c[0] = from /\ c[k] = to
          /\ \A j \in 0..k : from <= c[j] /\ c[j] <= to
          /\ \A j \in 1..k : c[j - 1] <= c[j] /\ Spells(W, m, words[j], SubSeq(ts, c[j - 1] + 1, c[j]))
  BY DEF Lies
<1> HIDE DEF k, v
<1> DEFINE d == [j \in Nat |-> IF j = k + 1 THEN q ELSE c[j]]
<1>3. d \in [Nat -> Nat] /\ d[k + 1] = q /\ \A j \in 0..k : d[j] = c[j]
  <2>1. k + 1 \in Nat /\ q \in Nat /\ \A j \in 0..k : j \in Nat /\ j # k + 1
    BY <1>1
  <2>2. c \in [Nat -> Nat]
    BY <1>2
  <2>3. d \in [Nat -> Nat]
    BY ONLY <2>1, <2>2
  <2>4. d[k + 1] = q
    BY ONLY <2>1
  <2>5. \A j \in 0..k : d[j] = c[j]
    BY ONLY <2>1
  <2> QED
    BY <2>3, <2>4, <2>5
<1> HIDE DEF d
<1>4. d[0] = from /\ d[Len(v)] = q /\ d[k] = to
  BY <1>1, <1>2, <1>3
<1>5. ASSUME NEW j \in 0..Len(v) PROVE from <= d[j] /\ d[j] <= q
  <2>1. CASE j = k + 1
    <3>1. from <= c[k] /\ c[k] = to
      BY <1>1, <1>2
    <3>2. from <= q
      BY ONLY <3>1, from \in Nat, to \in Nat, q \in Nat, to <= q
    <3>3. d[j] = q
      BY ONLY <1>3, <2>1
    <3> QED
      BY ONLY <3>2, <3>3, q \in Nat
  <2>2. CASE j # k + 1
    <3>1. j \in 0..k
      BY <1>1, <2>2
    <3>2. d[j] = c[j] /\ from <= c[j] /\ c[j] <= to /\ c[j] \in Nat
      BY <1>2, <1>3, <3>1
    <3> QED
      BY <3>2
  <2> QED
    BY <2>1, <2>2
<1>6. ASSUME NEW j \in 1..Len(v)
      PROVE  d[j - 1] <= d[j] /\ Spells(W, m, v[j], SubSeq(ts, d[j - 1] + 1, d[j]))
  <2>1. CASE j = k + 1
    <3>1. j - 1 = k /\ v[j] = w
      BY <1>1, <2>1
    <3> QED
      BY <1>3, <1>4, <2>1, <3>1
  <2>2. CASE j # k + 1
    <3>1. j \in 1..k /\ j - 1 \in 0..k /\ j \in 0..k
      BY <1>1, <2>2
    <3>2. d[j] = c[j] /\ d[j - 1] = c[j - 1] /\ v[j] = words[j]
      BY <1>1, <1>3, <3>1
    <3> QED
      BY <1>2, <3>1, <3>2
  <2> QED
    BY <2>1, <2>2
<1>7. Lies(W, m, ts, v, from, q)
  BY <1>3, <1>4, <1>5, <1>6 DEF Lies
<1> QED
  BY <1>7 DEF v

\* A word is put on the innermost open list.
LEMMA LaidTop ==
    ASSUME NEW W, NEW m, NEW b, NEW ts, NEW p \in Nat, NEW s \in Seq(Seq(Word)), s # << >>,
           LaidBy(W, m, b, ts, p, s), NEW q \in Nat, p < q,
           NEW w \in Word, Spells(W, m, w, SubSeq(ts, p + 1, q))
    PROVE  \E d : LaidBy(W, m, d, ts, q, [s EXCEPT ![Len(s)] = Append(@, w)])
<1> DEFINE n == Len(s)
           v == Append(s[n], w)
           t == [s EXCEPT ![n] = v]
<1>1. n \in Nat \ {0} /\ n \in 1..n /\ s[n] \in Seq(Word) /\ DOMAIN s = 1..n
  OBVIOUS
<1>2. t[n] = v /\ \A i \in 1..n : i # n => t[i] = s[i]
  BY <1>1
<1>3. Len(t) = n
  <2>1. DOMAIN t = 1..n
    BY <1>1
  <2>2. \A i \in 1..n : t[i] \in Seq(Word)
    <3>1. v \in Seq(Word)
      BY <1>1, AppendProperties
    <3>2. \A i \in 1..n : s[i] \in Seq(Word)
      BY <1>1, ElementOfSeq
    <3> QED
      BY <1>2, <3>1, <3>2
  <2> HIDE DEF t, n
  <2> QED
    BY <1>1, <2>1
<1>4. /\ b \in [Nat -> Nat] /\ b[1] = 1 /\ b[n + 1] = p + 1
      /\ \A i \in 1..n : /\ b[i] >= 1 /\ ts[b[i]] = "("
                         /\ Lies(W, m, ts, s[i], b[i], b[i + 1] - 1)
  BY DEF LaidBy
<1> HIDE DEF n, t
<1> DEFINE d == [j \in Nat |-> IF j = n + 1 THEN q + 1 ELSE b[j]]
<1>5. d \in [Nat -> Nat] /\ d[n + 1] = q + 1 /\ \A j \in 1..n : d[j] = b[j]
  <2>1. n + 1 \in Nat /\ q + 1 \in Nat /\ \A j \in 1..n : j \in Nat /\ j # n + 1
    BY <1>1
  <2>2. b \in [Nat -> Nat]
    BY <1>4
  <2>3. d \in [Nat -> Nat]
    BY ONLY <2>1, <2>2
  <2>4. d[n + 1] = q + 1
    BY ONLY <2>1
  <2>5. \A j \in 1..n : d[j] = b[j]
    BY ONLY <2>1
  <2> QED
    BY <2>3, <2>4, <2>5
<1> HIDE DEF d
<1>6. Lies(W, m, ts, v, b[n], q)
  <2>1. Lies(W, m, ts, s[n], b[n], p)
    <3>1. b[n + 1] - 1 = p
      BY <1>4
    <3> QED
      BY <1>1, <1>4, <3>1
  <2>2. b[n] \in Nat
    BY <1>1, <1>4
  <2> QED
    BY <1>1, <2>1, <2>2, LiesMore
<1> HIDE DEF v
<1>7. ASSUME NEW i \in 1..n
      PROVE  d[i] >= 1 /\ ts[d[i]] = "(" /\ Lies(W, m, ts, t[i], d[i], d[i + 1] - 1)
  <2>1. d[i] = b[i] /\ d[i] >= 1 /\ ts[b[i]] = "("
    BY <1>4, <1>5
  <2>2. CASE i = n
    <3>1. d[i + 1] - 1 = q /\ t[i] = v
      BY <1>2, <1>5, <2>2
    <3> QED
      BY <1>6, <2>1, <2>2, <3>1
  <2>3. CASE i # n
    <3>1. i + 1 \in 1..n
      BY <1>1, <2>3
    <3>2. d[i + 1] = b[i + 1] /\ t[i] = s[i]
      BY <1>2, <1>5, <2>3, <3>1
    <3> QED
      BY <1>4, <2>1, <3>2
  <2> QED
    BY <2>2, <2>3
<1>8. d[1] = 1
  BY <1>1, <1>4, <1>5
<1>9. LaidBy(W, m, d, ts, q, t)
  BY <1>3, <1>5, <1>7, <1>8 DEF LaidBy
<1> QED
  BY <1>9 DEF t, v, n

\* "(" opens a list with nothing in it.
LEMMA LaidOpen ==
    ASSUME NEW W, NEW m, NEW b, NEW ts, NEW p \in Nat, NEW s \in Seq(Seq(Word)),
           LaidBy(W, m, b, ts, p, s), ts[p + 1] = "("
    PROVE  \E d : LaidBy(W, m, d, ts, p + 1, Append(s, << >>))
<1> DEFINE S == Seq(Word)
           e == << >>
           n == Len(s)
           t == Append(s, e)
<1>1. /\ n \in Nat /\ Len(t) = n + 1 /\ t[n + 1] = e /\ \A i \in 1..n : t[i] = s[i]
  <2>1. e \in S /\ s \in Seq(S)
    OBVIOUS
  <2> HIDE DEF S, e
  <2> QED
    BY <2>1, AppendProperties
<1>2. /\ b \in [Nat -> Nat] /\ b[1] = 1 /\ b[n + 1] = p + 1
      /\ \A i \in 1..n : /\ b[i] >= 1 /\ ts[b[i]] = "("
                         /\ Lies(W, m, ts, s[i], b[i], b[i + 1] - 1)
  BY DEF LaidBy
<1>3. Lies(W, m, ts, e, p + 1, p + 1)
  <2> DEFINE c == [j \in Nat |-> p + 1]
  <2>1. c \in [Nat -> Nat] /\ Len(e) = 0 /\ \A j \in Nat : c[j] = p + 1
    OBVIOUS
  <2> HIDE DEF c, e
  <2>2. \A j \in 0..Len(e) : p + 1 <= c[j] /\ c[j] <= p + 1
    BY <2>1
  <2>3. \A j \in 1..Len(e) : FALSE
    BY <2>1
  <2> QED
    BY <2>1, <2>2, <2>3 DEF Lies
<1> HIDE DEF n, t, e
<1> DEFINE d == [j \in Nat |-> IF j = n + 2 THEN p + 2 ELSE b[j]]
<1>4. d \in [Nat -> Nat] /\ d[n + 2] = p + 2 /\ \A j \in 1..(n + 1) : d[j] = b[j]
  <2>1. n + 2 \in Nat /\ p + 2 \in Nat /\ \A j \in 1..(n + 1) : j \in Nat /\ j # n + 2
    BY <1>1
  <2>2. b \in [Nat -> Nat]
    BY <1>2
  <2>3. d \in [Nat -> Nat]
    BY ONLY <2>1, <2>2
  <2>4. d[n + 2] = p + 2
    BY ONLY <2>1
  <2>5. \A j \in 1..(n + 1) : d[j] = b[j]
    BY ONLY <2>1
  <2> QED
    BY <2>3, <2>4, <2>5
<1> HIDE DEF d
<1>5. ASSUME NEW i \in 1..(n + 1)
      PROVE  d[i] >= 1 /\ ts[d[i]] = "(" /\ Lies(W, m, ts, t[i], d[i], d[i + 1] - 1)
  <2>1. CASE i = n + 1
    <3>1. d[i] = p + 1 /\ d[i + 1] - 1 = p + 1 /\ t[i] = e
      BY <1>1, <1>2, <1>4, <2>1
    <3> QED
      BY <1>3, <3>1
  <2>2. CASE i # n + 1
    <3>1. i \in 1..n /\ i + 1 \in 1..(n + 1)
      BY <1>1, <2>2
    <3>2. d[i] = b[i] /\ d[i + 1] = b[i + 1] /\ t[i] = s[i]
      BY <1>1, <1>4, <3>1
    <3> QED
      BY <1>2, <3>1, <3>2
  <2> QED
    BY <2>1, <2>2
<1>6. d[1] = 1 /\ d[Len(t) + 1] = (p + 1) + 1
  <2>1. Len(t) + 1 = n + 2 /\ (p + 1) + 1 = p + 2 /\ 1 \in 1..(n + 1)
    BY <1>1
  <2> QED
    BY <1>2, <1>4, <2>1
<1>7. LaidBy(W, m, d, ts, p + 1, t)
  BY <1>1, <1>4, <1>5, <1>6 DEF LaidBy
<1> QED
  BY <1>7 DEF t, e

\* The cells of these words, on top of l others.
Holds(cells, words, l) ==
    /\ Len(cells) = Len(words)
    /\ \A m \in 1..Len(words) : /\ cells[m].car = words[Len(words) - m + 1]
                                 /\ cells[m].cdr.at = IF m = 1 THEN 0 ELSE l + m - 1

\* V is W on l cells, and the text x from the first of these words on.
Adds(V, W, l, words, x) ==
    /\ \A n \in 0..l : V[n] = W[n]
    /\ words # << >> => V[l + Len(words)] = x

\* The cells of words that lie in a text, on top of the cells a: the text from
\* each cell on is the rest of that text.
LEMMA CellsLie ==
    ASSUME NEW a \in Seq(Cell), NEW W, Prints(W, a), NEW words \in Seq(Word),
           NEW cells \in Seq(Cell), Holds(cells, words, Len(a)),
           NEW ts \in Text, NEW from \in Nat, NEW to \in Nat, to <= Len(ts),
           Lies(W, Len(a), ts, words, from, to)
    PROVE  \E V : Prints(V, a \o cells) /\ Adds(V, W, Len(a), words, SubSeq(ts, from + 1, to))
<1> DEFINE l == Len(a)
           k == Len(words)
           b == a \o cells
<1>1. l \in Nat /\ k \in Nat /\ Len(ts) \in Nat
  BY DEF Text
<1>2. /\ Len(b) = l + k
      /\ \A i \in 1..(l + k) : b[i] = IF i <= l THEN a[i] ELSE cells[i - l]
  <2>1. /\ Len(b) = l + Len(cells)
        /\ \A i \in 1..(l + Len(cells)) : b[i] = IF i <= l THEN a[i] ELSE cells[i - l]
    BY ONLY a \in Seq(Cell), cells \in Seq(Cell), Joined
  <2>2. Len(cells) = k
    BY DEF Holds
  <2> HIDE DEF l, k, b
  <2> QED
    BY ONLY <2>1, <2>2
<1>3. /\ W \in [0..l -> Text] /\ W[0] = << >>
      /\ \A n \in 1..l : /\ Refers(a[n].car, n - 1) /\ a[n].cdr.at \in 0..(n - 1)
                         /\ W[n] = Printed(W, a[n].car) \o W[a[n].cdr.at]
  BY DEF Prints
<1>4. PICK c \in [Nat -> Nat] :
          /\ c[0] = from /\ c[k] = to
          /\ \A j \in 0..k : from <= c[j] /\ c[j] <= to
          /\ \A j \in 1..k : c[j - 1] <= c[j] /\ Spells(W, l, words[j], SubSeq(ts, c[j - 1] + 1, c[j]))
  BY DEF Lies
<1>15. \A j \in 0..k : c[j] \in Nat /\ c[j] + 1 \in Nat /\ 1 <= c[j] + 1
  <2>1. k \in Nat /\ \A u \in Nat : u + 1 \in Nat /\ 1 <= u + 1
    BY <1>1
  <2>2. c \in [Nat -> Nat]
    BY <1>4
  <2>3. \A j \in 0..k : j \in Nat
    BY ONLY <2>1
  <2> HIDE DEF k
  <2> QED
    BY ONLY <2>1, <2>2, <2>3
<1>5. \A m \in 1..k : /\ cells[m].car = words[k - m + 1]
                      /\ cells[m].cdr.at = IF m = 1 THEN 0 ELSE l + m - 1
  BY DEF Holds
<1> HIDE DEF l, k, b
<1> DEFINE V == [n \in 0..(l + k) |-> IF n <= l THEN W[n] ELSE SubSeq(ts, c[k - (n - l)] + 1, to)]
<1>6. \A j \in 0..k : SubSeq(ts, c[j] + 1, to) \in Text
  <2> TAKE j \in 0..k
  <2>1. c[j] + 1 \in Nat /\ 1 <= c[j] + 1
    BY <1>15
  <2> QED
    BY ONLY <2>1, Part, ts \in Text, to \in Nat, to <= Len(ts)
<1>7. V \in [0..(l + k) -> Text]
  <2>1. ASSUME NEW n \in 0..(l + k)
        PROVE  (IF n <= l THEN W[n] ELSE SubSeq(ts, c[k - (n - l)] + 1, to)) \in Text
    <3>1. CASE n <= l
      <4>1. n \in 0..l
        BY <1>1, <3>1
      <4> QED
        BY <1>3, <3>1, <4>1
    <3>2. CASE ~(n <= l)
      <4>1. k - (n - l) \in 0..k
        BY <1>1, <3>2
      <4> QED
        BY <1>6, <3>2, <4>1
    <3> QED
      BY <3>1, <3>2
  <2> QED
    BY <2>1
<1>8. \A n \in 0..l : V[n] = W[n]
  <2>1. \A n \in 0..l : n \in 0..(l + k) /\ n <= l
    BY <1>1
  <2> QED
    BY ONLY <2>1
<1>9. \A m \in 1..k : V[l + m] = SubSeq(ts, c[k - m] + 1, to)
  <2> TAKE m \in 1..k
  <2>1. l + m \in 0..(l + k) /\ ~(l + m <= l) /\ (l + m) - l = m
    BY <1>1
  <2>2. V[l + m] = SubSeq(ts, c[k - ((l + m) - l)] + 1, to)
    BY ONLY <2>1
  <2> QED
    BY <2>1, <2>2
<1> HIDE DEF V
<1>10. V[0] = << >>
  <2>1. 0 \in 0..l
    BY <1>1
  <2> QED
    BY ONLY <1>3, <1>8, <2>1
<1>11. ASSUME NEW w, NEW x, Spells(W, l, w, x) PROVE Spells(V, l, w, x)
  <2>1. l \in Nat /\ l <= l
    BY <1>1
  <2> QED
    BY ONLY <1>8, <1>11, <2>1, SpellsStill
<1>12. ASSUME NEW n \in 1..(l + k)
       PROVE  /\ Refers(b[n].car, n - 1) /\ b[n].cdr.at \in 0..(n - 1)
              /\ V[n] = Printed(V, b[n].car) \o V[b[n].cdr.at]
  <2>1. CASE n <= l
    <3>1. n \in 1..l /\ n \in 0..l /\ b[n] = a[n] /\ n - 1 \in Nat /\ n - 1 <= l
      <4>1. b[n] = a[n]
        BY ONLY <1>2, <2>1, n \in 1..(l + k)
      <4>2. n \in 1..l /\ n \in 0..l /\ n - 1 \in Nat /\ n - 1 <= l
        BY ONLY <1>1, <2>1, n \in 1..(l + k)
      <4> QED
        BY <4>1, <4>2
    <3>2. /\ Refers(a[n].car, n - 1) /\ a[n].cdr.at \in 0..(n - 1)
          /\ W[n] = Printed(W, a[n].car) \o W[a[n].cdr.at]
      BY <1>3, <3>1
    <3>3. Spells(W, l, a[n].car, Printed(W, a[n].car))
      <4>1. \A q \in 1..(n - 1) : q \in 1..l
        BY ONLY <1>1, <3>1
      <4> QED
        BY ONLY <3>2, <4>1 DEF Spells, Refers
    <3>4. Printed(V, a[n].car) = Printed(W, a[n].car)
      BY <1>11, <3>3 DEF Spells
    <3>5. V[n] = W[n] /\ V[a[n].cdr.at] = W[a[n].cdr.at]
      <4>1. a[n].cdr.at \in 0..l
        <5>1. \A q \in 0..(n - 1) : q \in 0..l
          BY ONLY <1>1, <3>1
        <5> QED
          BY ONLY <3>2, <5>1
      <4> QED
        BY <1>8, <3>1, <4>1
    <3> QED
      BY <3>1, <3>2, <3>4, <3>5
  <2>2. CASE ~(n <= l)
    <3> DEFINE m == n - l
               j == k - m + 1
               x == SubSeq(ts, c[j - 1] + 1, c[j])
    <3>1. m \in 1..k /\ l + m = n /\ j \in 1..k /\ j \in 0..k /\ j - 1 \in 0..k /\ j - 1 = k - m
      BY <1>1, <2>2
    <3>2. b[n] = cells[m]
      BY <1>2, <2>2
    <3> HIDE DEF m
    <3>3. b[n].car = words[j] /\ b[n].cdr.at = IF m = 1 THEN 0 ELSE l + m - 1
      BY <1>5, <3>1, <3>2
    <3>4. V[n] = SubSeq(ts, c[j - 1] + 1, to)
      <4>1. V[l + m] = SubSeq(ts, c[k - m] + 1, to)
        BY <1>9, <3>1
      <4> QED
        BY <3>1, <4>1
    <3> HIDE DEF j, x
    <3>5. c[j - 1] <= c[j] /\ Spells(W, l, words[j], x) /\ c[j] <= to /\ c[j] \in Nat /\ c[j - 1] \in Nat
      <4>1. c[j] \in Nat /\ c[j - 1] \in Nat
        BY <1>15, <3>1
      <4> QED
        BY <1>4, <3>1, <4>1 DEF x
    <3>6. Spells(V, l, words[j], x)
      BY <1>11, <3>5
    <3>7. Refers(b[n].car, n - 1) /\ Printed(V, b[n].car) = x
      <4>1. Refers(words[j], l) /\ Printed(V, words[j]) = x
        BY <3>6 DEF Spells
      <4>2. \A q \in 1..l : q \in 1..(n - 1)
        <5>1. n \in Nat /\ l < n
          BY ONLY <1>1, <2>2, n \in 1..(l + k)
        <5> QED
          BY ONLY <1>1, <5>1
      <4> QED
        BY <3>3, <4>1, <4>2 DEF Refers
    <3>8. b[n].cdr.at \in 0..(n - 1)
      <4>1. n \in Nat /\ m \in 1..k /\ l + m = n
        BY <1>1, <3>1
      <4> QED
        BY ONLY <1>1, <3>3, <4>1
    <3>9. x \o SubSeq(ts, c[j] + 1, to) = V[n]
      <4>1. /\ c[j - 1] + 1 \in Nat /\ 1 <= c[j - 1] + 1 /\ c[j - 1] + 1 <= c[j] + 1
        <5>1. \A u, v \in Nat : u <= v => u + 1 <= v + 1
          OBVIOUS
        <5> QED
          BY ONLY <1>15, <3>1, <3>5, <5>1
      <4>2. x \o SubSeq(ts, c[j] + 1, to) = SubSeq(ts, c[j - 1] + 1, to)
        BY <3>5, <4>1, PartsJoin DEF x
      <4> QED
        BY <3>4, <4>2
    <3>10. V[b[n].cdr.at] = SubSeq(ts, c[j] + 1, to)
      <4>1. CASE m = 1
        <5>1. j = k /\ c[j] = to
          BY <1>1, <1>4, <4>1 DEF j
        <5>2. SubSeq(ts, to + 1, to) = << >>
          BY <1>1
        <5> QED
          BY <1>10, <3>3, <4>1, <5>1, <5>2
      <4>2. CASE m # 1
        <5>1. m - 1 \in 1..k /\ k - (m - 1) = j /\ l + (m - 1) = l + m - 1
          BY <1>1, <3>1, <4>2 DEF j
        <5>2. V[l + (m - 1)] = SubSeq(ts, c[k - (m - 1)] + 1, to)
          BY <1>9, <5>1
        <5> QED
          BY <3>3, <4>2, <5>1, <5>2
      <4> QED
        BY <4>1, <4>2
    <3> QED
      BY <3>7, <3>8, <3>9, <3>10
  <2> QED
    BY <2>1, <2>2
<1>13. Prints(V, b)
  BY <1>2, <1>7, <1>10, <1>12 DEF Prints
<1>14. words # << >> => V[l + k] = SubSeq(ts, from + 1, to)
  <2> SUFFICES ASSUME words # << >> PROVE V[l + k] = SubSeq(ts, from + 1, to)
    OBVIOUS
  <2>1. k \in 1..k /\ k - k = 0
    <3>1. k # 0
      BY DEF k
    <3> QED
      BY <1>1, <3>1
  <2>2. V[l + k] = SubSeq(ts, c[k - k] + 1, to)
    BY <1>9, <2>1
  <2> QED
    BY <1>4, <2>1, <2>2
<1> QED
  BY <1>8, <1>13, <1>14 DEF Adds, l, k, b

\* The innermost list opens at token b[Len(s)], and its words follow.
LEMMA LaidInner ==
    ASSUME NEW W, NEW m, NEW b, NEW ts, NEW p \in Nat, NEW s \in Seq(Seq(Word)), s # << >>,
           LaidBy(W, m, b, ts, p, s)
    PROVE  /\ b[Len(s)] \in 1..p /\ ts[b[Len(s)]] = "(" /\ Lies(W, m, ts, s[Len(s)], b[Len(s)], p)
           /\ Len(s) = 1 => b[Len(s)] = 1
<1> DEFINE n == Len(s)
<1>1. n \in Nat \ {0} /\ n \in 1..n /\ s[n] \in Seq(Word)
  OBVIOUS
<1>3. /\ b \in [Nat -> Nat] /\ b[1] = 1 /\ b[n + 1] = p + 1
      /\ \A i \in 1..n : /\ b[i] >= 1 /\ ts[b[i]] = "("
                         /\ Lies(W, m, ts, s[i], b[i], b[i + 1] - 1)
  BY DEF LaidBy
<1> HIDE DEF n
<1>4. Lies(W, m, ts, s[n], b[n], p)
  <2>1. Lies(W, m, ts, s[n], b[n], b[n + 1] - 1) /\ b[n + 1] = p + 1
    BY <1>1, <1>3
  <2>2. (p + 1) - 1 = p
    OBVIOUS
  <2> QED
    BY <2>1, <2>2
<1>5. b[n] \in Nat /\ b[n] >= 1
  <2>1. b[n] >= 1 /\ b \in [Nat -> Nat] /\ n \in Nat
    BY <1>1, <1>3
  <2> QED
    BY ONLY <2>1
<1>6. b[n] <= p
  <2>1. PICK c \in [Nat -> Nat] : c[0] = b[n] /\ \A j \in 0..Len(s[n]) : b[n] <= c[j] /\ c[j] <= p
    BY <1>4 DEF Lies
  <2>2. 0 \in 0..Len(s[n])
    <3> DEFINE x == s[n]
    <3>1. x \in Seq(Word)
      BY <1>1
    <3> HIDE DEF x
    <3>2. 0 \in 0..Len(x)
      BY ONLY <3>1
    <3> QED
      BY <3>2 DEF x
  <2>3. b[n] <= c[0] /\ c[0] <= p /\ c[0] = b[n]
    BY <2>1, <2>2
  <2> QED
    BY ONLY <2>3
<1>7. b[n] \in 1..p
  BY ONLY <1>5, <1>6, p \in Nat
<1>11. n = 1 => b[n] = 1
  BY <1>3
<1>12. ts[b[n]] = "("
  BY <1>1, <1>3
<1> QED
  BY <1>4, <1>7, <1>11, <1>12 DEF n

\* The lists around the innermost.
LEMMA LaidBelow ==
    ASSUME NEW W, NEW V, NEW m \in Nat, NEW k \in Nat, m <= k, \A n \in 0..m : V[n] = W[n],
           NEW b, NEW ts, NEW p \in Nat, NEW s \in Seq(Seq(Word)), s # << >>,
           LaidBy(W, m, b, ts, p, s)
    PROVE  LaidBy(V, k, b, ts, b[Len(s)] - 1, SubSeq(s, 1, Len(s) - 1))
<1> DEFINE S == Seq(Word)
           n == Len(s)
           r == SubSeq(s, 1, n - 1)
<1>1. n \in Nat \ {0} /\ n \in 1..n
  OBVIOUS
<1>2. Len(r) = n - 1 /\ \A i \in 1..(n - 1) : r[i] = s[i]
  <2>1. s \in Seq(S)
    OBVIOUS
  <2> HIDE DEF S
  <2> QED
    BY <2>1, AllButLast
<1>3. /\ b \in [Nat -> Nat] /\ b[1] = 1 /\ b[n + 1] = p + 1
      /\ \A i \in 1..n : /\ b[i] >= 1 /\ ts[b[i]] = "("
                         /\ Lies(W, m, ts, s[i], b[i], b[i + 1] - 1)
  BY DEF LaidBy
<1> HIDE DEF n, r, S
<1>7. b[n] - 1 + 1 = b[n]
  <2>1. b[n] \in 1..p
    BY LaidInner DEF n
  <2> QED
    BY ONLY <2>1, p \in Nat
<1>8. ASSUME NEW i \in 1..(n - 1)
      PROVE  b[i] >= 1 /\ ts[b[i]] = "(" /\ Lies(V, k, ts, r[i], b[i], b[i + 1] - 1)
  <2>1. i \in 1..n /\ r[i] = s[i]
    BY <1>1, <1>2
  <2>2. b[i] >= 1 /\ ts[b[i]] = "(" /\ Lies(W, m, ts, s[i], b[i], b[i + 1] - 1)
    BY <1>3, <2>1
  <2>3. Lies(V, k, ts, s[i], b[i], b[i + 1] - 1)
    <3> DEFINE x == s[i]
               f == b[i]
               g == b[i + 1] - 1
    <3>1. Lies(W, m, ts, x, f, g) /\ m \in Nat /\ k \in Nat /\ m <= k /\ \A q \in 0..m : V[q] = W[q]
      BY <2>2
    <3> HIDE DEF x, f, g
    <3>2. Lies(V, k, ts, x, f, g)
      BY ONLY <3>1, LiesStill
    <3> QED
      BY <3>2 DEF x, f, g
  <2> QED
    BY <2>1, <2>2, <2>3
<1>9. b[Len(r) + 1] = (b[n] - 1) + 1
  <2>1. Len(r) + 1 = n
    BY <1>1, <1>2
  <2> QED
    BY <1>7, <2>1
<1>10. LaidBy(V, k, b, ts, b[n] - 1, r)
  BY <1>2, <1>3, <1>8, <1>9 DEF LaidBy
<1> QED
  BY <1>10 DEF n, r

\* The cells of a list refer to each other.
LEMMA CellsLinked ==
    ASSUME NEW words \in Seq(Word), Len(arena) \in Nat
    PROVE  \A m \in 1..Len(words) :
              CellsOf(words)[m].cdr.at = IF m = 1 THEN 0 ELSE Len(arena) + m - 1
  BY DEF CellsOf, Nil, Cons

\* The word of a list whose words lie between two parentheses is the text from
\* the one to the other.
LEMMA ListSpells ==
    ASSUME NEW words \in Seq(Word), Len(arena) \in Nat, NEW W, NEW V,
           NEW ts \in Text, NEW from \in Nat, NEW to \in Nat, 1 <= from, from <= to,
           to + 1 <= Len(ts), ts[from] = "(", ts[to + 1] = ")",
           Lies(W, Len(arena), ts, words, from, to),
           words # << >> => V[Len(arena) + Len(words)] = SubSeq(ts, from + 1, to)
    PROVE  Spells(V, Len(arena) + Len(words), ListOf(words), SubSeq(ts, from, to + 1))
<1>1. <<"(">> \o SubSeq(ts, from + 1, to) \o <<")">> = SubSeq(ts, from, to + 1)
  BY PartInside
<1>2. CASE words = << >>
  <2>1. from = to
    BY <1>2 DEF Lies
  <2>2. SubSeq(ts, from + 1, to) = << >>
    <3>1. from + 1 > from
      OBVIOUS
    <3>2. SubSeq(ts, from + 1, from) = << >>
      BY <3>1
    <3> QED
      BY <2>1, <3>2
  <2>3. <<"(">> \o << >> \o <<")">> = <<"(", ")">>
    <3>1. <<"(">> \in Seq(TokenKind) /\ <<")">> \in Seq(TokenKind)
      BY DEF TokenKind
    <3>2. <<"(">> \o << >> = <<"(">>
      BY ONLY <3>1, ConcatEmptySeq
    <3>3. <<"(">> \o <<")">> = <<"(", ")">>
      <4> DEFINE x == <<"(">> \o <<")">>
                 y == <<"(", ")">>
      <4>1. /\ x \in Seq(TokenKind) /\ Len(x) = 1 + 1
            /\ \A i \in 1..(1 + 1) : x[i] = IF i <= 1 THEN <<"(">>[i] ELSE <<")">>[i - 1]
        BY <3>1, ConcatProperties
      <4>2. y \in Seq(TokenKind) /\ Len(y) = 2 /\ y[1] = "(" /\ y[2] = ")"
        BY DEF TokenKind
      <4> HIDE DEF x, y
      <4>3. x[1] = "(" /\ x[2] = ")" /\ Len(x) = 2
        BY <4>1
      <4>4. \A i \in 1..Len(x) : x[i] = y[i]
        BY <4>2, <4>3
      <4>5. x = y
        BY <4>1, <4>2, <4>3, <4>4, SeqEqual
      <4> QED
        BY <4>5 DEF x, y
    <3> QED
      BY ONLY <3>2, <3>3
  <2>4. SubSeq(ts, from, to + 1) = <<"(", ")">>
    BY <1>1, <2>2, <2>3
  <2> QED
    BY <1>2, <2>4 DEF Spells, Refers, Printed, ListOf, Nil
<1>3. CASE words # << >>
  <2>1. Len(arena) + Len(words) \in 1..(Len(arena) + Len(words))
    <3>1. Len(words) \in Nat /\ Len(words) # 0
      BY <1>3
    <3> QED
      BY ONLY <3>1, Len(arena) \in Nat
  <2>2. ListOf(words) = Cons(Len(arena) + Len(words))
    BY <1>3 DEF ListOf
  <2> QED
    <3> DEFINE w == ListOf(words)
               l == Len(arena) + Len(words)
    <3>1. w.tag = "cons" /\ w.at = l
      BY <2>2 DEF Cons
    <3>2. l \in 1..l /\ V[l] = SubSeq(ts, from + 1, to)
      BY <1>3, <2>1
    <3> HIDE DEF w, l
    <3>3. Refers(w, l) /\ Printed(V, w) = <<"(">> \o SubSeq(ts, from + 1, to) \o <<")">>
      BY ONLY <3>1, <3>2 DEF Refers, Printed
    <3>4. Spells(V, l, w, SubSeq(ts, from, to + 1))
      BY ONLY <1>1, <3>3 DEF Spells
    <3> QED
      BY <3>4 DEF w, l
<1> QED
  BY <1>2, <1>3

\* ")" makes the innermost list a word: the whole form, or one more word of the
\* list around it.
LEMMA LaidClose ==
    ASSUME arena \in Seq(Cell), NEW W, Prints(W, arena), NEW ts \in Text, NEW p \in Nat, p < Len(ts),
           ts[p + 1] = ")", NEW s \in Seq(Seq(Word)), s # << >>, NEW b,
           LaidBy(W, Len(arena), b, ts, p, s)
    PROVE  LET words == s[Len(s)]
               rest == SubSeq(s, 1, Len(s) - 1)
               w == ListOf(words)
               a == arena \o CellsOf(words)
           IN  \E V : /\ Prints(V, a)
                      /\ IF rest = << >> THEN Spells(V, Len(a), w, SubSeq(ts, 1, p + 1))
                         ELSE \E d : LaidBy(V, Len(a), d, ts, p + 1,
                                            [rest EXCEPT ![Len(rest)] = Append(@, w)])
<1> DEFINE n == Len(s)
           words == s[n]
           rest == SubSeq(s, 1, n - 1)
           w == ListOf(words)
           cells == CellsOf(words)
           a == arena \o cells
<1>1. /\ n \in Nat \ {0} /\ words \in Seq(Word) /\ Len(words) \in Nat /\ Len(arena) \in Nat /\ Len(ts) \in Nat
  <2>1. n \in Nat \ {0} /\ words \in Seq(Word)
    OBVIOUS
  <2> HIDE DEF n, words
  <2> QED
    BY <2>1 DEF Text
<1>2. rest \in Seq(Seq(Word)) /\ Len(rest) = n - 1
  <2> DEFINE S == Seq(Word)
  <2>1. s \in Seq(S)
    OBVIOUS
  <2> HIDE DEF S
  <2>2. rest \in Seq(S) /\ Len(rest) = n - 1
    BY <2>1, AllButLast
  <2> QED
    BY <2>2 DEF S
<1>3. /\ b[n] \in 1..p /\ ts[b[n]] = "(" /\ Lies(W, Len(arena), ts, words, b[n], p)
      /\ n = 1 => b[n] = 1
      /\ \A V, k : k \in Nat /\ Len(arena) <= k /\ (\A i \in 0..Len(arena) : V[i] = W[i])
                      => LaidBy(V, k, b, ts, b[n] - 1, rest)
  <2>2. Len(arena) \in Nat /\ Len(arena) <= Len(arena)
    BY <1>1
  <2>3. /\ b[n] \in 1..p /\ ts[b[n]] = "(" /\ Lies(W, Len(arena), ts, words, b[n], p)
        /\ n = 1 => b[n] = 1
    BY ONLY LaidInner, p \in Nat, s \in Seq(Seq(Word)), s # << >>,
            LaidBy(W, Len(arena), b, ts, p, s)
  <2>4. ASSUME NEW V, NEW k \in Nat, Len(arena) <= k, \A i \in 0..Len(arena) : V[i] = W[i]
        PROVE  LaidBy(V, k, b, ts, b[n] - 1, rest)
    BY ONLY <2>2, <2>4, LaidBelow, k \in Nat, p \in Nat, s \in Seq(Seq(Word)), s # << >>,
            LaidBy(W, Len(arena), b, ts, p, s)
  <2> QED
    BY <2>3, <2>4
<1> HIDE DEF n, words, rest
<1>4. /\ cells \in Seq(Cell) /\ Len(cells) = Len(words) /\ w \in Word
      /\ \A m \in 1..Len(words) : /\ cells[m].car = words[Len(words) - m + 1]
                                  /\ cells[m].cdr.at = IF m = 1 THEN 0 ELSE Len(arena) + m - 1
  BY <1>1, ListCells, CellsLinked
<1> HIDE DEF cells
<1> DEFINE from == b[n]
<1>5. from \in Nat /\ 1 <= from /\ from <= p /\ p <= Len(ts) /\ p + 1 <= Len(ts) /\ p + 1 \in Nat
  BY <1>1, <1>3
<1> HIDE DEF from
<1>6. ts[from] = "(" /\ Lies(W, Len(arena), ts, words, from, p)
  BY <1>3 DEF from
<1>13. PICK V : Prints(V, a) /\ Adds(V, W, Len(arena), words, SubSeq(ts, from + 1, p))
  <2>1. arena \in Seq(Cell) /\ Prints(W, arena) /\ ts \in Text /\ p \in Nat /\ cells \in Seq(Cell)
    BY <1>4
  <2>2. Holds(cells, words, Len(arena))
    BY <1>4 DEF Holds
  <2> QED
    BY ONLY <1>1, <1>5, <1>6, <2>1, <2>2, CellsLie
<1>7. /\ Prints(V, a) /\ \A i \in 0..Len(arena) : V[i] = W[i]
      /\ words # << >> => V[Len(arena) + Len(words)] = SubSeq(ts, from + 1, p)
  BY <1>13 DEF Adds
<1>8. Len(a) = Len(arena) + Len(words) /\ Len(a) \in Nat /\ Len(arena) <= Len(a)
  <2>1. Len(a) = Len(arena) + Len(cells)
    BY ONLY arena \in Seq(Cell), <1>4, Joined
  <2> HIDE DEF a
  <2> QED
    BY ONLY <1>1, <1>4, <2>1
<1>9. Spells(V, Len(a), w, SubSeq(ts, from, p + 1))
  <2>1. Spells(V, Len(arena) + Len(words), w, SubSeq(ts, from, p + 1))
    BY <1>1, <1>5, <1>6, <1>7, ListSpells
  <2> HIDE DEF a, w
  <2> QED
    BY <1>8, <2>1
<1> HIDE DEF w, a
<1>10. CASE rest = << >>
  <2>1. from = 1
    BY <1>1, <1>2, <1>3, <1>10 DEF from
  <2> QED
    BY <1>7, <1>9, <1>10, <2>1 DEF w, a, cells, words, rest, n
<1>11. CASE rest # << >>
  <2> DEFINE t == [rest EXCEPT ![Len(rest)] = Append(@, w)]
             q == from - 1
  <2>1. q \in Nat /\ q < p + 1 /\ q + 1 = from
    BY ONLY <1>5, p \in Nat
  <2>2. LaidBy(V, Len(a), b, ts, q, rest)
    BY <1>3, <1>7, <1>8 DEF from
  <2> HIDE DEF q
  <2>3. Spells(V, Len(a), w, SubSeq(ts, q + 1, p + 1))
    BY <1>9, <2>1
  <2>4. \E d : LaidBy(V, Len(a), d, ts, p + 1, t)
    BY ONLY <1>2, <1>4, <1>5, <1>11, <2>1, <2>2, <2>3, LaidTop
  <2> QED
    BY <1>7, <1>11, <2>4 DEF w, a, cells, words, rest, n
<1> QED
  BY <1>10, <1>11

-----------------------------------------------------------------------------
(* The text of what has been read. *)

\* The words on the stack are the tokens read so far; the whole form is the
\* tokens it was read from; a value is the whole text.
Spelled(at, ts, p, s, w, a, result) ==
    /\ at = "parse" => \E W : Prints(W, a) /\ \E b : LaidBy(W, Len(a), b, ts, p, s)
    /\ at = "print" => \E W : Prints(W, a) /\ Spells(W, Len(a), w, SubSeq(ts, 1, p))
    /\ at = "idle" /\ result = "value" => \E W : Prints(W, a) /\ Spells(W, Len(a), w, ts)

RoundInv == Spelled(pc, tokens, pos, stack, word, arena, outcome)

LEMMA SpelledStarts ==
    ASSUME NEW ts PROVE \E W : Prints(W, << >>) /\ \E b : LaidBy(W, 0, b, ts, 0, << >>)
<1> DEFINE W == [n \in 0..0 |-> << >>]
           b == [n \in Nat |-> 1]
           e == << >>
<1>1. Len(e) = 0 /\ e \in Text /\ W[0] = e
  BY DEF Text
<1>2. W \in [0..Len(e) -> Text]
  BY <1>1
<1>3. b \in [Nat -> Nat] /\ b[1] = 1 /\ b[0 + 1] = 0 + 1
  OBVIOUS
<1> HIDE DEF W, b, e
<1>4. \A n \in 1..Len(e) : FALSE
  BY <1>1
<1>5. W[0] = << >>
  BY <1>1 DEF e
<1>6. Prints(W, e)
  BY <1>2, <1>4, <1>5 DEF Prints
<1>7. LaidBy(W, 0, b, ts, 0, e)
  BY <1>1, <1>3, <1>4 DEF LaidBy
<1> QED
  BY <1>6, <1>7 DEF e

\* A token that is a word by itself.
LEMMA SpelledWord ==
    ASSUME RInv, RoundInv, pc = "parse", More, Advance, NEW w \in Word,
           w.tag = Next1, Next1 \in {"atom", "str"}, Deliver(w, stack), UNCHANGED << tokens, arena >>
    PROVE  RoundInv'
<1>1. /\ tokens \in Text /\ Len(tokens) \in Nat /\ pos \in Nat /\ pos < Len(tokens)
      /\ stack \in Seq(Seq(Word)) /\ pos' = pos + 1 /\ w.tag = tokens[pos + 1]
  BY WhileParsing DEF More, Next1, Advance, Text
<1>2. PICK W : Prints(W, arena) /\ \E b : LaidBy(W, Len(arena), b, tokens, pos, stack)
  BY DEF RoundInv, Spelled
<1>3. PICK b : LaidBy(W, Len(arena), b, tokens, pos, stack)
  BY <1>2
<1>4. Spells(W, Len(arena), w, SubSeq(tokens, pos + 1, pos + 1))
  <2>1. pos + 1 \in 1..Len(tokens)
    BY <1>1
  <2>2. SubSeq(tokens, pos + 1, pos + 1) = << tokens[pos + 1] >>
    BY ONLY <1>1, <2>1, PartOfOne
  <2>3. w.tag # "nil" /\ w.tag # "cons"
    OBVIOUS
  <2>4. Refers(w, Len(arena)) /\ Printed(W, w) = << w.tag >>
    BY ONLY <2>3 DEF Refers, Printed
  <2> QED
    BY <1>1, <2>2, <2>4 DEF Spells
<1>5. CASE stack = << >>
  <2>1. word' = w /\ pc' = "print"
    BY <1>5 DEF Deliver
  <2>2. pos = 0
    BY <1>5, WhileParsing DEF Parsing
  <2>3. Spells(W, Len(arena), w, SubSeq(tokens, 1, pos'))
    BY <1>1, <1>4, <2>2
  <2>4. Spelled(pc', tokens', pos', stack', word', arena', outcome')
    BY <1>2, <2>1, <2>3 DEF Spelled
  <2> QED
    BY <2>4 DEF RoundInv
<1>6. CASE stack # << >>
  <2>1. stack' = [stack EXCEPT ![Len(stack)] = Append(@, w)] /\ pc' = "parse"
    BY <1>6 DEF Deliver
  <2>2. pos + 1 \in Nat /\ pos < pos + 1
    BY <1>1
  <2>3. \E d : LaidBy(W, Len(arena), d, tokens, pos + 1, [stack EXCEPT ![Len(stack)] = Append(@, w)])
    BY ONLY <1>1, <1>3, <1>4, <1>6, <2>2, LaidTop, w \in Word
  <2>4. Spelled(pc', tokens', pos', stack', word', arena', outcome')
    BY <1>1, <1>2, <2>1, <2>3 DEF Spelled
  <2> QED
    BY <2>4 DEF RoundInv
<1> QED
  BY <1>5, <1>6

LEMMA SpelledOpen == ASSUME RInv, RoundInv, ReadOpen PROVE RoundInv'
<1>1. /\ pc = "parse" /\ More /\ Next1 = "(" /\ pos' = pos + 1 /\ stack' = Append(stack, << >>)
      /\ UNCHANGED << pc, tokens, word, arena, outcome >>
  BY DEF ReadOpen, Advance, inputVars, boxedVars
<1>2. pos \in Nat /\ stack \in Seq(Seq(Word)) /\ tokens[pos + 1] = "("
  BY <1>1, WhileParsing DEF Next1
<1>3. PICK W : Prints(W, arena) /\ \E b : LaidBy(W, Len(arena), b, tokens, pos, stack)
  BY <1>1 DEF RoundInv, Spelled
<1>4. \E d : LaidBy(W, Len(arena), d, tokens, pos + 1, Append(stack, << >>))
  BY ONLY <1>2, <1>3, LaidOpen
<1>5. Spelled(pc', tokens', pos', stack', word', arena', outcome')
  BY <1>1, <1>3, <1>4 DEF Spelled
<1> QED
  BY <1>5 DEF RoundInv

LEMMA SpelledClose == ASSUME RInv, RoundInv, ReadClose PROVE RoundInv'
<1> DEFINE words == stack[Len(stack)]
           rest == SubSeq(stack, 1, Len(stack) - 1)
           w == ListOf(words)
           a == arena \o CellsOf(words)
<1>1. pc = "parse" /\ More /\ Next1 = ")" /\ stack # << >> /\ UNCHANGED << tokens, outcome >>
  BY DEF ReadClose, inputVars
<1>2. /\ tokens \in Text /\ pos \in Nat /\ pos < Len(tokens) /\ tokens[pos + 1] = ")"
      /\ stack \in Seq(Seq(Word)) /\ arena \in Seq(Cell)
  BY <1>1, WhileParsing DEF More, Next1, Text
<1>3. PICK W : Prints(W, arena) /\ \E b : LaidBy(W, Len(arena), b, tokens, pos, stack)
  BY <1>1 DEF RoundInv, Spelled
<1>4. PICK b : LaidBy(W, Len(arena), b, tokens, pos, stack)
  BY <1>3
<1>5. PICK V : /\ Prints(V, a)
               /\ IF rest = << >> THEN Spells(V, Len(a), w, SubSeq(tokens, 1, pos + 1))
                  ELSE \E d : LaidBy(V, Len(a), d, tokens, pos + 1,
                                     [rest EXCEPT ![Len(rest)] = Append(@, w)])
  BY <1>1, <1>2, <1>3, <1>4, LaidClose
<1>6. CASE Len(arena) + Len(words) > ArenaCells
  <2>1. pc' = "dead"
    BY <1>6 DEF ReadClose
  <2>2. Spelled(pc', tokens', pos', stack', word', arena', outcome')
    BY <2>1 DEF Spelled
  <2> QED
    BY <2>2 DEF RoundInv
<1>7. CASE ~(Len(arena) + Len(words) > ArenaCells)
  <2>1. pos' = pos + 1 /\ arena' = a /\ Deliver(w, rest)
    BY <1>7 DEF ReadClose, Advance
  <2> HIDE DEF words, rest, w, a
  <2>2. CASE rest = << >>
    <3>1. word' = w /\ pc' = "print"
      BY <2>1, <2>2 DEF Deliver
    <3>2. Spelled(pc', tokens', pos', stack', word', arena', outcome')
      BY <1>1, <1>5, <2>1, <2>2, <3>1 DEF Spelled
    <3> QED
      BY <3>2 DEF RoundInv
  <2>3. CASE rest # << >>
    <3>1. stack' = [rest EXCEPT ![Len(rest)] = Append(@, w)] /\ pc' = "parse"
      BY <1>1, <2>1, <2>3 DEF Deliver
    <3>2. \E d : LaidBy(V, Len(a), d, tokens, pos + 1, [rest EXCEPT ![Len(rest)] = Append(@, w)])
      BY <1>5, <2>3
    <3>3. Spelled(pc', tokens', pos', stack', word', arena', outcome')
      BY <1>1, <1>5, <2>1, <3>1, <3>2 DEF Spelled
    <3> QED
      BY <3>3 DEF RoundInv
  <2> QED
    BY <2>2, <2>3
<1> QED
  BY <1>6, <1>7

\* An end that is not a value.
LEMMA SpelledEnds ==
    ASSUME NEW result, result # "value", Finish(result) PROVE RoundInv'
<1>1. pc' = "idle" /\ outcome' = result
  BY DEF Finish
<1>2. Spelled(pc', tokens', pos', stack', word', arena', outcome')
  BY <1>1 DEF Spelled
<1> QED
  BY <1>2 DEF RoundInv

LEMMA SpelledPrint == ASSUME RInv, RoundInv, PrintForm PROVE RoundInv'
<1>1. CASE pos = Len(tokens)
  <2>1. /\ pc = "print" /\ pc' = "idle" /\ UNCHANGED << tokens, pos, stack, word, arena >>
    BY DEF PrintForm, Finish, inputVars, parseVars
  <2>2. PICK W : Prints(W, arena) /\ Spells(W, Len(arena), word, SubSeq(tokens, 1, pos))
    BY <2>1 DEF RoundInv, Spelled
  <2>3. SubSeq(tokens, 1, pos) = tokens
    <3>1. tokens \in Seq(TokenKind)
      BY DEF RInv, RTypeOK
    <3> QED
      BY <1>1, <3>1, SubSeqFull
  <2>4. Spelled(pc', tokens', pos', stack', word', arena', outcome')
    BY <2>1, <2>2, <2>3 DEF Spelled
  <2> QED
    BY <2>4 DEF RoundInv
<1>2. CASE pos # Len(tokens)
  <2>1. Finish("trailing input")
    BY <1>2 DEF PrintForm
  <2> QED
    BY <2>1, SpelledEnds
<1> QED
  BY <1>1, <1>2

LEMMA RoundStep == ASSUME RInv, RoundInv, [Next]_vars PROVE RoundInv'
<1>1. CASE EvalString
  <2>1. Spelled(pc', tokens', pos', stack', word', arena', outcome')
    BY <1>1 DEF EvalString, Spelled
  <2> QED
    BY <2>1 DEF RoundInv
<1>2. CASE Unterminated
  BY <1>2, SpelledEnds DEF Unterminated
<1>3. CASE Preflight
  <2>1. CASE \E n \in Required : n > ArenaCells
    <3>1. Finish("too large")
      BY <1>3, <2>1 DEF Preflight
    <3> QED
      BY <3>1, SpelledEnds
  <2>2. CASE ~\E n \in Required : n > ArenaCells
    <3>1. pc' = "parse" /\ UNCHANGED << tokens, pos, stack, word, arena, outcome >>
      BY <1>3, <2>2 DEF Preflight, inputVars, parseVars
    <3>2. pos = 0 /\ stack = << >> /\ arena = << >>
      BY <1>3 DEF Preflight, RInv, AtPoint
    <3>3. \E W : Prints(W, arena) /\ \E b : LaidBy(W, Len(arena), b, tokens, pos, stack)
      <4>1. Len(arena) = 0
        BY <3>2
      <4> QED
        BY <3>2, <4>1, SpelledStarts
    <3>4. Spelled(pc', tokens', pos', stack', word', arena', outcome')
      BY <3>1, <3>3 DEF Spelled
    <3> QED
      BY <3>4 DEF RoundInv
  <2> QED
    BY <2>1, <2>2
<1>4. CASE ReadAtom
  <2>1. Atom \in Word /\ Atom.tag = Next1 /\ Next1 \in {"atom", "str"}
    BY <1>4 DEF ReadAtom, Atom, Word
  <2> QED
    BY <1>4, <2>1, SpelledWord DEF ReadAtom, inputVars
<1>5. CASE ReadString
  <2>1. slots + 1 \in Nat
    BY DEF RInv, RTypeOK
  <2>2. Str(slots + 1) \in Word /\ Str(slots + 1).tag = Next1 /\ Next1 \in {"atom", "str"}
    BY <1>5, <2>1 DEF ReadString, Str, Word
  <2> QED
    BY <1>5, <2>2, SpelledWord DEF ReadString, inputVars
<1>6. CASE ReadOpen
  BY <1>6, SpelledOpen
<1>7. CASE ReadClose
  BY <1>7, SpelledClose
<1>8. CASE ParseFails
  BY <1>8, SpelledEnds DEF ParseFails
<1>9. CASE PrintForm
  BY <1>9, SpelledPrint
<1>10. CASE UNCHANGED vars
  <2>1. UNCHANGED << pc, tokens, pos, stack, word, arena, outcome >>
    BY <1>10 DEF vars, inputVars, parseVars
  <2> QED
    BY <2>1 DEF RoundInv
<1> QED
  BY <1>1, <1>2, <1>3, <1>4, <1>5, <1>6, <1>7, <1>8, <1>9, <1>10 DEF Next

\* Every value prints back as the text it was read from: for every text, every
\* arena and whatever was read before.
THEOREM ValuesPrintBack == Spec => []RoundTrip
<1>1. Init => RoundInv
  <2> SUFFICES ASSUME Init PROVE RoundInv
    OBVIOUS
  <2>1. Spelled(pc, tokens, pos, stack, word, arena, outcome)
    BY DEF Init, Spelled
  <2> QED
    BY <2>1 DEF RoundInv
<1>2. RInv /\ RoundInv /\ [Next]_vars => RoundInv'
  BY RoundStep
<1>3. RInv /\ RoundInv => RoundTrip
  <2> SUFFICES ASSUME RInv, RoundInv, pc = "idle", outcome = "value" PROVE Written = tokens
    BY DEF RoundTrip
  <2>1. PICK W : Prints(W, arena) /\ Spells(W, Len(arena), word, tokens)
    BY DEF RoundInv, Spelled
  <2>2. arena \in Seq(Cell) /\ Len(arena) \in Nat
    BY DEF RInv, RTypeOK
  <2>3. \A n \in 0..Len(arena) : WriteFrom[n] = W[n]
    BY ONLY <2>1, <2>2, WriteIs
  <2>4. Refers(word, Len(arena)) /\ Printed(W, word) = tokens
    BY <2>1 DEF Spells
  <2>5. Written = Printed(WriteFrom, word)
    BY DEF Written, Printed
  <2>6. Printed(WriteFrom, word) = Printed(W, word)
    <3>1. CASE word.tag = "cons"
      <4>1. word.at \in 0..Len(arena)
        BY <2>2, <2>4, <3>1 DEF Refers
      <4>2. WriteFrom[word.at] = W[word.at]
        BY ONLY <2>3, <4>1
      <4> QED
        BY ONLY <3>1, <4>2 DEF Printed
    <3>2. CASE word.tag # "cons"
      BY ONLY <3>2 DEF Printed
    <3> QED
      BY <3>1, <3>2
  <2> QED
    BY <2>4, <2>5, <2>6
<1> QED
  BY <1>1, <1>2, <1>3, ReaderInvariant, PTL DEF Spec
=============================================================================
