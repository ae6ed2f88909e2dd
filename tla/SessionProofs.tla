---------------------------- MODULE SessionProofs ----------------------------
(***************************************************************************)
(* What holds of a session for every width of its words and every set of   *)
(* names, texts and values: integers of the payload's width survive        *)
(* encoding, symbols keep their names, and boxed values keep their slots.  *)
(***************************************************************************)
EXTENDS Session, FiniteSetTheorems, WellFoundedInduction, TLAPS

-----------------------------------------------------------------------------
(* Integers. *)

\* A remainder on either side of zero.
LEMMA ModSmall ==
    ASSUME NEW m \in Nat, m > 0, NEW a \in 0..(m - 1)
    PROVE  a % m = a
  OBVIOUS

LEMMA ModNegative ==
    ASSUME NEW m \in Nat, m > 0, NEW a \in Int, -m <= a, a < 0
    PROVE  a % m = a + m
  OBVIOUS

LEMMA Halves == ASSUME NEW p \in Nat, p % 2 = 0 PROVE \E k \in Int : p = 2 * k
  OBVIOUS

\* Wrapping leaves what i64 can hold as it is.
LEMMA WrapFits == ASSUME NEW x \in I64 PROVE Wrap(x) = x
<1>1. Payloads \in Nat /\ WordSize \in Nat /\ WordSize > 0
  BY PayloadsAssumption DEF WordSize
<1>2. x + 4 * Payloads \in 0..(WordSize - 1)
  BY <1>1 DEF I64, I64Min, I64Max, WordSize
<1>3. (x + 4 * Payloads) % WordSize = x + 4 * Payloads
  BY <1>1, <1>2, ModSmall
<1> QED
  BY <1>1, <1>3 DEF Wrap, I64, I64Min, I64Max

\* `as u64' and back.
LEMMA SignedAgain == ASSUME NEW x \in I64 PROVE AsU64(x) \in AnyWord /\ AsI64(AsU64(x)) = x
<1>1. Payloads \in Nat /\ WordSize \in Nat /\ WordSize > 0 /\ WordSize = 8 * Payloads
  BY PayloadsAssumption DEF WordSize
<1>2. x \in Int /\ -(4 * Payloads) <= x /\ x < 4 * Payloads
  BY <1>1 DEF I64, I64Min, I64Max
<1>3. CASE x >= 0
  <2>1. AsU64(x) = x
    BY <1>1, <1>2, <1>3, ModSmall DEF AsU64
  <2> QED
    BY <1>1, <1>2, <1>3, <2>1, WrapFits DEF AsI64, AnyWord
<1>4. CASE x < 0
  <2>1. AsU64(x) = x + WordSize
    BY <1>1, <1>2, <1>4, ModNegative DEF AsU64
  <2> DEFINE y == x + 4 * Payloads
  <2>2. y \in 0..(WordSize - 1) /\ y \in Int
    BY <1>1, <1>2, <1>4
  <2>3. (y + WordSize) % WordSize = y
    <3> HIDE DEF y
    <3> QED
      BY <1>1, <2>2
  <2>4. x + WordSize + 4 * Payloads = y + WordSize
    BY <1>1, <1>2
  <2>5. Wrap(x + WordSize) = y - 4 * Payloads
    BY <2>3, <2>4 DEF Wrap
  <2> QED
    BY <1>1, <1>2, <1>4, <2>1, <2>5 DEF AsI64, AnyWord
<1> QED
  BY <1>2, <1>3, <1>4

\* The integers of the payload's width.
Fixnum == {n \in Int : -Payloads <= 2 * n /\ 2 * n < Payloads}

\* decode_fixnum after encode_fixnum is the identity on the integers of the
\* payload's width: 61 bits in the code.
THEOREM FixnumExact == \A n \in Fixnum : decode_fixnum(encode_fixnum(n)) = n
<1> SUFFICES ASSUME NEW n \in Fixnum PROVE decode_fixnum(encode_fixnum(n)) = n
  OBVIOUS
<1>1. Payloads \in Nat /\ n \in Int /\ -(4 * Payloads) <= 8 * n /\ 8 * n < 4 * Payloads
  BY PayloadsAssumption DEF Fixnum
<1>2. 8 * n \in I64
  BY <1>1 DEF I64, I64Min, I64Max
<1>3. 8 * n + 3 \in I64
  <2>1. 8 * n + 8 <= 4 * Payloads
    <3>1. PICK k \in Int : Payloads = 2 * k
      BY <1>1, PayloadsAssumption, Halves
    <3> QED
      BY <1>1, <3>1
  <2> QED
    BY <1>1, <2>1 DEF I64, I64Min, I64Max
<1>4. encode_fixnum(n) = AsU64(8 * n + 3)
  BY <1>2, WrapFits DEF encode_fixnum, TAG_FIXNUM
<1>5. AsI64(encode_fixnum(n)) = 8 * n + 3
  BY <1>3, <1>4, SignedAgain
<1>6. (8 * n + 3) \div 8 = n
  BY <1>1
<1> QED
  BY <1>5, <1>6 DEF decode_fixnum

\* What is a whole number of words apart wraps to the same.
LEMMA ModShift ==
    ASSUME NEW m \in Nat, m > 0, NEW a \in 0..(m - 1), NEW q \in Int
    PROVE  (m * q + a) % m = a
  OBVIOUS

LEMMA DivMod ==
    ASSUME NEW m \in Nat, m > 0, NEW a \in Int
    PROVE  a \div m \in Int /\ a % m = a - m * (a \div m)
<1> DEFINE u == a \div m
           r == a % m
<1>1. u \in Int /\ r \in Int /\ a = m * u + r
  OBVIOUS
<1> HIDE DEF u, r
<1> DEFINE w == m * u
<1>2. w \in Int
  BY <1>1
<1>3. a = w + r
  BY <1>1
<1> HIDE DEF w
<1>4. r = a - w
  BY ONLY <1>1, <1>2, <1>3
<1> QED
  BY <1>1, <1>4 DEF u, r, w

LEMMA WrapShift == ASSUME NEW x \in I64, NEW q \in Int PROVE Wrap(WordSize * q + x) = x
<1>1. Payloads \in Nat /\ WordSize \in Nat /\ WordSize > 0 /\ x \in Int
  BY PayloadsAssumption DEF WordSize, I64, I64Min, I64Max
<1> DEFINE a == x + 4 * Payloads
<1>2. a \in 0..(WordSize - 1) /\ a \in Int
  BY <1>1 DEF I64, I64Min, I64Max, WordSize
<1>3. a - 4 * Payloads = x /\ WordSize * q + x + 4 * Payloads = WordSize * q + a
  BY <1>1
<1> HIDE DEF a
<1>4. (WordSize * q + a) % WordSize = a
  BY <1>1, <1>2, ModShift
<1> QED
  BY <1>3, <1>4 DEF Wrap

\* An integer's low 61 bits, read as a signed number: one, and only one.
LEMMA LowBits ==
    ASSUME NEW n \in Int
    PROVE  \E m \in Fixnum, q \in Int : n = Payloads * q + m
<1>1. PICK h \in Nat : Payloads = 2 * h /\ h > 0 /\ Payloads \in Nat
  <2>1. PICK k \in Int : Payloads = 2 * k
    BY PayloadsAssumption, Halves
  <2> QED
    BY <2>1, PayloadsAssumption
<1> DEFINE r == (n + h) % Payloads
           q == (n + h) \div Payloads
<1>2. r \in Nat /\ r < Payloads /\ q \in Int /\ n + h = Payloads * q + r
  BY <1>1
<1> HIDE DEF r, q
<1>3. r - h \in Fixnum
  BY <1>1, <1>2 DEF Fixnum
<1>4. Payloads * q \in Int
  BY <1>1, <1>2
<1>5. n = Payloads * q + (r - h)
  BY <1>1, <1>2, <1>4
<1> QED
  BY <1>2, <1>3, <1>5

LEMMA LowBitsKept ==
    ASSUME NEW n \in Int, NEW m \in Fixnum, NEW q \in Int, n = Payloads * q + m
    PROVE  Kept(n) = m
<1>1. PICK h \in Nat : Payloads = 2 * h /\ h > 0 /\ Payloads \in Nat
  <2>1. PICK k \in Int : Payloads = 2 * k
    BY PayloadsAssumption, Halves
  <2> QED
    BY <2>1, PayloadsAssumption
<1> DEFINE R == -(Payloads \div 2)..(Payloads \div 2 - 1)
<1>2. R = -h..(h - 1)
  <2>1. (2 * h) \div 2 = h
    BY <1>1
  <2> QED
    BY <1>1, <2>1
<1>3. m \in Int /\ m \in R
  BY <1>1, <1>2 DEF Fixnum
<1>4. (m - n) % Payloads = 0
  <2> DEFINE z == -q
  <2>1. z \in Int /\ m - n = Payloads * z + 0
    BY <1>1, <1>3
  <2> HIDE DEF z
  <2>2. 0 \in 0..(Payloads - 1) /\ Payloads > 0
    BY <1>1
  <2>3. (Payloads * z + 0) % Payloads = 0
    BY <1>1, <2>1, <2>2, ModShift
  <2> QED
    BY <2>1, <2>3
<1>5. ASSUME NEW k \in R, (k - n) % Payloads = 0 PROVE k = m
  <2> DEFINE u == (k - n) \div Payloads
  <2>1. k \in Int /\ -h <= k /\ k < h /\ -h <= m /\ m < h
    BY <1>1, <1>2, <1>3
  <2>2. u \in Int /\ k - n = Payloads * u
    BY <1>1, <1>5, <2>1
  <2> HIDE DEF u
  <2> DEFINE v == u + q
  <2>3. v \in Int /\ k - m = Payloads * v
    BY <1>1, <1>3, <2>1, <2>2
  <2> HIDE DEF v
  <2>4. -(2 * h) < k - m /\ k - m < 2 * h
    BY <1>1, <1>3, <2>1
  <2>5. v = 0
    <3>1. CASE v >= 1
      <4>1. Payloads * v >= Payloads
        BY ONLY <1>1, <2>3, <3>1
      <4> QED
        BY <1>1, <1>3, <2>1, <2>3, <2>4, <4>1
    <3>2. CASE v <= -1
      <4>1. Payloads * v <= -Payloads
        BY ONLY <1>1, <2>3, <3>2
      <4> QED
        BY <1>1, <1>3, <2>1, <2>3, <2>4, <4>1
    <3> QED
      BY <2>3, <3>1, <3>2
  <2> QED
    BY <1>1, <1>3, <2>1, <2>3, <2>5
<1> HIDE DEF R
<1>6. (CHOOSE k \in R : (k - n) % Payloads = 0) = m
  BY <1>3, <1>4, <1>5
<1> QED
  BY <1>6 DEF Kept, R

\* Every integer, whether its payload holds it or not, reads back as the one
\* with its low bits, under the tag of integers.
LEMMA FixnumKept ==
    ASSUME NEW n \in Int
    PROVE  /\ decode_fixnum(encode_fixnum(n)) = Kept(n)
           /\ tag_of(encode_fixnum(n)) = TAG_FIXNUM
<1>1. PICK m \in Fixnum, q \in Int : n = Payloads * q + m
  BY LowBits
<1>2. m \in Int /\ Payloads \in Nat
  BY PayloadsAssumption DEF Fixnum
<1>3. 8 * m \in I64
  BY PayloadsAssumption DEF Fixnum, I64, I64Min, I64Max
<1>4. 8 * n = WordSize * q + 8 * m
  BY <1>1, <1>2 DEF WordSize
<1>5. Wrap(8 * n) = 8 * m /\ Wrap(8 * m) = 8 * m
  BY <1>3, <1>4, WrapShift, WrapFits
<1>6. encode_fixnum(n) = encode_fixnum(m)
  BY <1>5 DEF encode_fixnum
<1>7. decode_fixnum(encode_fixnum(n)) = Kept(n)
  BY <1>1, <1>6, FixnumExact, LowBitsKept
<1>8. encode_fixnum(n) = AsU64(8 * m + 3)
  BY <1>5, <1>6 DEF encode_fixnum, TAG_FIXNUM
<1>9. PICK c \in Int : encode_fixnum(n) = 8 * c + 3
  <2> DEFINE a == 8 * m + 3
             u == a \div WordSize
  <2>1. WordSize \in Nat /\ WordSize > 0 /\ WordSize = 8 * Payloads /\ a \in Int
    BY <1>2, PayloadsAssumption DEF WordSize
  <2> HIDE DEF a
  <2>2. u \in Int /\ a % WordSize = a - WordSize * u
    BY <2>1, DivMod
  <2> HIDE DEF u
  <2> DEFINE c == m - Payloads * u
  <2>3. c \in Int /\ a - WordSize * u = 8 * c + 3
    <3> DEFINE w == Payloads * u
    <3>1. w \in Int /\ WordSize * u = 8 * w
      BY <1>2, <2>1, <2>2
    <3> HIDE DEF w
    <3>2. c = m - w
      BY DEF w
    <3> QED
      BY ONLY <1>2, <3>1, <3>2, a = 8 * m + 3 DEF a
  <2>4. encode_fixnum(n) = a % WordSize
    BY <1>8 DEF AsU64, a
  <2> HIDE DEF c
  <2> QED
    BY <2>2, <2>3, <2>4
<1>10. (8 * c + 3) % 8 = 3
  OBVIOUS
<1> QED
  BY <1>7, <1>9, <1>10 DEF tag_of, TAG_FIXNUM

-----------------------------------------------------------------------------
(* Induction on the naturals, from the library's well-founded minimum: what  *)
(* a recursive function computes is proved with sets and no operator.        *)

Before == {p \in Nat \X Nat : p[1] < p[2]}

LEMMA Least ==
    ASSUME NEW T, T \subseteq Nat, T # {}
    PROVE  \E x \in T : \A y \in T : x <= y
<1>1. OpToRel(<, Nat) = Before
  BY DEF OpToRel, Before
<1>2. IsWellFoundedOn(Before, Nat)
  BY <1>1, NatLessThanWellFounded
<1>3. PICK x \in T : \A y \in T : ~ (<< y, x >> \in Before)
  BY <1>2, WFMin
<1>4. \A y \in T : y \in Nat /\ x \in Nat /\ ~(y < x)
  BY <1>3 DEF Before
<1> QED
  BY <1>4

LEMMA Induction ==
    ASSUME NEW T, 0 \in T, \A n \in Nat : n \in T => n + 1 \in T
    PROVE  Nat \subseteq T
<1> SUFFICES ASSUME ~ (Nat \subseteq T) PROVE FALSE
  OBVIOUS
<1> DEFINE S == Nat \ T
<1>1. S \subseteq Nat /\ S # {}
  OBVIOUS
<1>2. PICK x \in S : \A y \in S : x <= y
  BY <1>1, Least
<1>3. x # 0 /\ x \in Nat
  OBVIOUS
<1>4. x - 1 \in Nat /\ x - 1 + 1 = x /\ ~(x <= x - 1)
  BY <1>3
<1>5. x - 1 \in T
  BY <1>2, <1>4
<1> QED
  BY <1>4, <1>5

LEMMA Division ==
    ASSUME NEW a \in Nat, NEW b \in Nat \ {0}
    PROVE  /\ a \div b \in Nat
           /\ b * (a \div b) <= a /\ a < b * (a \div b) + b
  OBVIOUS

LEMMA DivMul ==
    ASSUME NEW g \in Nat \ {0}, NEW x \in Nat
    PROVE  (g * x) \div g = x
  OBVIOUS
LEMMA Rem0 == ASSUME NEW a \in Int, NEW b \in Int \ {0}
   PROVE /\ Quotient(a, b) \in Int /\ Remainder(a, b) \in Int /\ Abs(Remainder(a,b)) < Abs(b)
         /\ a >= 0 => Remainder(a, b) >= 0
  BY Division DEF Quotient, Remainder, Abs

-----------------------------------------------------------------------------
(* gcd is the function its equation describes. *)

Pair == Int \X Int
Rest(p) == << p[2], Remainder(p[1], p[2]) >>

\* The pairs whose second number is at most m, and gcd on them.
Upto(m) == {p \in Pair : Abs(p[2]) <= m}
GcdUpto(f, m) == f = [p \in Upto(m) |-> IF p[2] = 0 THEN p[1] ELSE f[Rest(p)]]

LEMMA AbsNat == \A x \in Int : Abs(x) \in Nat /\ (Abs(x) = 0 <=> x = 0)
  BY DEF Abs

LEMMA RestSmaller ==
    ASSUME NEW p \in Pair, p[2] # 0
    PROVE  Rest(p) \in Pair /\ Abs(Rest(p)[2]) < Abs(p[2])
<1>1. p[1] \in Int /\ p[2] \in Int \ {0}
  BY DEF Pair
<1> QED
  BY <1>1, Rem0 DEF Rest, Pair

LEMMA GcdStage == \A m \in Nat : \E f : GcdUpto(f, m)
<1> DEFINE T == {m \in Nat : \E f : GcdUpto(f, m)}
<1>1. 0 \in T
  <2> DEFINE f == [p \in Upto(0) |-> p[1]]
  <2>1. \A p \in Upto(0) : p[2] = 0
    BY AbsNat DEF Upto, Pair
  <2>2. GcdUpto(f, 0)
    BY <2>1 DEF GcdUpto
  <2> QED
    BY <2>2
<1>2. ASSUME NEW m \in Nat, m \in T PROVE m + 1 \in T
  <2>1. PICK f : GcdUpto(f, m)
    BY <1>2
  <2> DEFINE g == [p \in Upto(m + 1) |-> IF p[2] = 0 THEN p[1] ELSE f[Rest(p)]]
  <2>2. ASSUME NEW p \in Upto(m) PROVE p \in Upto(m + 1) /\ g[p] = f[p]
    <3>1. p \in Upto(m + 1)
      BY AbsNat DEF Upto, Pair
    <3>2. f[p] = IF p[2] = 0 THEN p[1] ELSE f[Rest(p)]
      BY <2>1 DEF GcdUpto
    <3> QED
      BY <3>1, <3>2
  <2>3. ASSUME NEW p \in Upto(m + 1), p[2] # 0 PROVE Rest(p) \in Upto(m)
    <3>1. p \in Pair /\ Abs(p[2]) <= m + 1 /\ Abs(p[2]) \in Nat
      BY AbsNat DEF Upto, Pair
    <3>2. Rest(p) \in Pair /\ Abs(Rest(p)[2]) < Abs(p[2]) /\ Abs(Rest(p)[2]) \in Nat
      BY <2>3, <3>1, RestSmaller, AbsNat DEF Pair
    <3> QED
      BY <3>1, <3>2 DEF Upto
  <2> HIDE DEF g
  <2>4. \A p \in Upto(m + 1) : p[2] # 0 => g[Rest(p)] = f[Rest(p)]
    BY <2>2, <2>3
  <2>5. GcdUpto(g, m + 1)
    BY <2>4 DEF g, GcdUpto
  <2> QED
    BY <2>5
<1> HIDE DEF T
<1>3. Nat \subseteq T
  BY <1>1, <1>2, Induction
<1> QED
  BY <1>3 DEF T

LEMMA GcdAgree ==
    ASSUME NEW m \in Nat, NEW f, GcdUpto(f, m), NEW n \in Nat, NEW g, GcdUpto(g, n)
    PROVE  \A p \in Upto(m) \cap Upto(n) : f[p] = g[p]
<1> SUFFICES ASSUME NEW q \in Upto(m) \cap Upto(n), f[q] # g[q] PROVE FALSE
  OBVIOUS
<1> DEFINE B == {p \in Upto(m) \cap Upto(n) : f[p] # g[p]}
           T == {Abs(p[2]) : p \in B}
<1>1. T \subseteq Nat /\ T # {}
  BY AbsNat DEF Upto, Pair
<1>2. PICK x \in T : \A y \in T : x <= y
  BY <1>1, Least
<1>3. PICK p \in B : x = Abs(p[2])
  OBVIOUS
<1>4. /\ f[p] = IF p[2] = 0 THEN p[1] ELSE f[Rest(p)]
      /\ g[p] = IF p[2] = 0 THEN p[1] ELSE g[Rest(p)]
  BY DEF GcdUpto
<1>5. p[2] # 0 /\ f[Rest(p)] # g[Rest(p)]
  BY <1>4
<1>6. /\ p \in Pair /\ Abs(p[2]) \in Nat /\ Abs(p[2]) <= m /\ Abs(p[2]) <= n
  BY AbsNat DEF Upto, Pair
<1>7. Rest(p) \in Pair /\ Abs(Rest(p)[2]) < Abs(p[2]) /\ Abs(Rest(p)[2]) \in Nat
  BY <1>5, <1>6, RestSmaller, AbsNat DEF Pair
<1>8. Rest(p) \in B
  BY <1>5, <1>6, <1>7 DEF Upto
<1>9. Abs(Rest(p)[2]) \in T
  BY <1>8
<1> QED
  BY <1>2, <1>3, <1>6, <1>7, <1>9

LEMMA GcdDef ==
    \A p \in Pair : gcd[p] = IF p[2] = 0 THEN p[1] ELSE gcd[Rest(p)]
<1> DEFINE stage(m) == CHOOSE f : GcdUpto(f, m)
           F == [p \in Pair |-> stage(Abs(p[2]))[p]]
<1>1. \A m \in Nat : GcdUpto(stage(m), m)
  BY GcdStage
<1> HIDE DEF stage
<1>2. ASSUME NEW p \in Pair PROVE F[p] = IF p[2] = 0 THEN p[1] ELSE F[Rest(p)]
  <2>1. Abs(p[2]) \in Nat
    BY AbsNat DEF Pair
  <2> DEFINE m == Abs(p[2])
             f == stage(m)
  <2>2. GcdUpto(f, m) /\ p \in Upto(m)
    BY <1>1, <2>1 DEF Upto
  <2>3. f[p] = IF p[2] = 0 THEN p[1] ELSE f[Rest(p)]
    BY <2>2 DEF GcdUpto
  <2>4. CASE p[2] # 0
    <3> DEFINE q == Rest(p)
               n == Abs(q[2])
    <3>1. q \in Pair /\ n < m /\ n \in Nat
      BY <2>4, RestSmaller, AbsNat DEF Pair
    <3>2. GcdUpto(stage(n), n) /\ q \in Upto(n) /\ q \in Upto(m)
      BY <1>1, <2>1, <3>1 DEF Upto
    <3>3. stage(n)[q] = f[q]
      BY <2>1, <2>2, <3>1, <3>2, GcdAgree
    <3> QED
      BY <2>3, <2>4, <3>1, <3>3
  <2> QED
    BY <2>3, <2>4
<1>3. F = [p \in Pair |-> IF p[2] = 0 THEN p[1] ELSE F[Rest(p)]]
  BY <1>2
<1> HIDE DEF F
<1>4. \E f : f = [p \in Int \X Int |-> IF p[2] = 0 THEN p[1] ELSE f[<< p[2], Remainder(p[1], p[2]) >>]]
  BY <1>3 DEF Pair, Rest
<1>5. gcd = [p \in Int \X Int |-> IF p[2] = 0 THEN p[1] ELSE gcd[<< p[2], Remainder(p[1], p[2]) >>]]
  BY <1>4 DEF gcd
<1> QED
  BY <1>5 DEF Pair, Rest

-----------------------------------------------------------------------------
(* Common divisors. *)

Factor(k, a) == \E x \in Nat : a = k * x

LEMMA RemainderNat ==
    ASSUME NEW a \in Nat, NEW b \in Nat \ {0}
    PROVE  /\ Remainder(a, b) \in 0..(b - 1)
           /\ \E q \in Nat : a = b * q + Remainder(a, b)
<1>1. Remainder(a, b) = a - b * (a \div b)
  BY Division DEF Remainder, Quotient, Abs
<1> DEFINE q == a \div b
<1>2. q \in Nat /\ b * q <= a /\ a < b * q + b /\ b * q \in Nat
  BY Division
<1> HIDE DEF q
<1>3. a - b * q \in 0..(b - 1) /\ a = b * q + (a - b * q)
  BY <1>2
<1>4. Remainder(a, b) = a - b * q
  BY <1>1 DEF q
<1> QED
  BY <1>2, <1>3, <1>4

LEMMA FactorOfSum ==
    ASSUME NEW k \in Nat, NEW b \in Nat, NEW q \in Nat, NEW r \in Nat,
           Factor(k, b), Factor(k, r)
    PROVE  Factor(k, b * q + r)
<1>1. PICK x \in Nat : b = k * x
  BY DEF Factor
<1>2. PICK y \in Nat : r = k * y
  BY DEF Factor
<1>3. x * q + y \in Nat /\ b * q + r = k * (x * q + y)
  BY <1>1, <1>2
<1> QED
  BY <1>3 DEF Factor

LEMMA FactorOfRest ==
    ASSUME NEW k \in Nat, NEW b \in Nat, NEW q \in Nat, NEW r \in Nat,
           Factor(k, b), Factor(k, b * q + r)
    PROVE  Factor(k, r)
<1>1. PICK x \in Nat : b = k * x
  BY DEF Factor
<1>2. PICK y \in Nat : b * q + r = k * y
  BY DEF Factor
<1> DEFINE z == y - x * q
<1>3. z \in Int /\ r = k * z
  BY <1>1, <1>2
<1>4. CASE k = 0
  <2>1. r = k * 0
    BY <1>3, <1>4
  <2> QED
    BY <2>1 DEF Factor
<1>5. CASE k > 0
  <2> HIDE DEF z
  <2>1. z >= 0
    BY <1>3, <1>5
  <2> QED
    BY <1>3, <2>1 DEF Factor
<1> QED
  BY <1>4, <1>5

\* gcd of naturals is a common divisor that all the others divide.
Greatest(g, a, b) ==
    /\ g \in Nat /\ (b > 0 => g > 0)
    /\ Factor(g, a) /\ Factor(g, b)
    /\ \A k \in Nat : Factor(k, a) /\ Factor(k, b) => Factor(k, g)

LEMMA GcdGreatest == \A a, b \in Nat : Greatest(gcd[<< a, b >>], a, b)
<1> DEFINE T == {b \in Nat : \E a \in Nat : ~Greatest(gcd[<< a, b >>], a, b)}
<1> SUFFICES ASSUME T # {} PROVE FALSE
  OBVIOUS
<1>1. PICK b \in T : \A y \in T : b <= y
  BY Least
<1>2. PICK a \in Nat : ~Greatest(gcd[<< a, b >>], a, b)
  OBVIOUS
<1>3. b \in Nat
  OBVIOUS
<1>4. CASE b = 0
  <2>1. gcd[<< a, b >>] = a
    BY <1>4, GcdDef DEF Pair
  <2>2. a = a * 1 /\ b = a * 0
    BY <1>4
  <2>3. Factor(a, a) /\ Factor(a, b)
    BY <2>2, 0 \in Nat, 1 \in Nat, Zenon DEF Factor
  <2>4. Greatest(a, a, b)
    BY <1>4, <2>3 DEF Greatest
  <2> QED
    BY <1>2, <2>1, <2>4
<1>5. CASE b > 0
  <2> DEFINE r == Remainder(a, b)
             g == gcd[<< b, r >>]
  <2>1. r \in Nat /\ r < b /\ \E q \in Nat : a = b * q + r
    <3>1. b \in Nat \ {0}
      BY <1>3, <1>5
    <3>2. r \in 0..(b - 1) /\ \E q \in Nat : a = b * q + r
      BY <3>1, RemainderNat
    <3> HIDE DEF r
    <3> QED
      BY <3>1, <3>2
  <2>2. PICK q \in Nat : a = b * q + r
    BY <2>1
  <2>3. gcd[<< a, b >>] = g
    <3>1. << a, b >> \in Pair /\ << a, b >>[2] # 0 /\ Rest(<< a, b >>) = << b, r >>
      BY <1>3, <1>5 DEF Pair, Rest
    <3> QED
      BY <3>1, GcdDef
  <2>4. Greatest(g, b, r)
    <3>1. r \notin T
      BY <1>1, <1>3, <2>1
    <3> QED
      BY <1>3, <2>1, <3>1
  <2> HIDE DEF r, g
  <2>5. g \in Nat /\ Factor(g, b) /\ Factor(g, r)
    BY <2>4 DEF Greatest
  <2>6. Factor(g, a)
    BY <1>3, <2>1, <2>2, <2>5, FactorOfSum
  <2>7. g > 0
    <3>1. PICK x \in Nat : b = g * x
      BY <2>5 DEF Factor
    <3> QED
      BY <1>5, <2>5, <3>1
  <2>8. ASSUME NEW k \in Nat, Factor(k, a), Factor(k, b) PROVE Factor(k, g)
    <3>1. Factor(k, r)
      BY <1>3, <2>1, <2>2, <2>8, FactorOfRest
    <3> QED
      BY <2>4, <2>8, <3>1 DEF Greatest
  <2> QED
    BY <1>2, <2>3, <2>5, <2>6, <2>7, <2>8 DEF Greatest
<1> QED
  BY <1>3, <1>4, <1>5

LEMMA ExactQuotient ==
    ASSUME NEW g \in Nat \ {0}, NEW x \in Int
    PROVE  Quotient(g * x, g) = x
<1>1. CASE x >= 0
  <2>1. g * x \in Nat /\ (g * x) \div g = x
    BY <1>1, DivMul
  <2> QED
    BY <2>1 DEF Quotient, Abs
<1>2. CASE x < 0
  <2>1. -x \in Nat /\ (g * (-x)) \div g = -x /\ g * x < 0 /\ -(g * x) = g * (-x)
    BY <1>2, DivMul
  <2> QED
    BY <2>1 DEF Quotient, Abs
<1> QED
  BY <1>1, <1>2

LEMMA DividesFactor ==
    ASSUME NEW k \in Nat \ {0}, NEW n \in Int, Remainder(n, k) = 0
    PROVE  Factor(k, Abs(n))
<1> DEFINE q == Quotient(n, k)
<1>1. q \in Int /\ n = k * q
  <2>1. q \in Int /\ n - k * q = 0
    BY Rem0 DEF Remainder
  <2> HIDE DEF q
  <2>2. k * q \in Int
    BY <2>1
  <2> QED
    BY <2>1, <2>2
<1> HIDE DEF q
<1>2. Abs(q) \in Nat /\ Abs(n) = k * Abs(q)
  BY <1>1 DEF Abs
<1> QED
  BY <1>2 DEF Factor

\* Dividing two numbers by their greatest common divisor.
LEMMA InLowestTerms ==
    ASSUME NEW g \in Nat, g > 0, NEW x \in Nat, NEW y \in Nat, y > 0,
           Greatest(g, g * x, g * y), NEW k \in Nat, Factor(k, x), Factor(k, y)
    PROVE  k = 1
<1>1. PICK u \in Nat : x = k * u
  BY DEF Factor
<1>2. PICK v \in Nat : y = k * v
  BY DEF Factor
<1>3. k * g \in Nat /\ g * x = (k * g) * u /\ g * y = (k * g) * v
  BY <1>1, <1>2
<1>4. Factor(k * g, g * x) /\ Factor(k * g, g * y)
  BY <1>3 DEF Factor
<1>5. Factor(k * g, g)
  BY <1>3, <1>4 DEF Greatest
<1>6. PICK z \in Nat : g = (k * g) * z
  BY <1>5 DEF Factor
<1>7. g * (k * z - 1) = 0 /\ k * z \in Nat
  BY <1>6
<1>8. k * z = 1
  BY <1>7
<1> QED
  BY <1>8

\* reduce answers an equal fraction in lowest terms, its denominator positive.
LEMMA ReduceExact ==
    ASSUME NEW n \in I64, NEW d \in I64, n # I64Min, d # I64Min, d # 0
    PROVE  \E a, b \in Int :
              /\ reduce(n, d) = << a, b >>
              /\ b > 0 /\ a * d = n * b
              /\ \A k \in Nat : k > 1 => ~(Remainder(a, k) = 0 /\ Remainder(b, k) = 0)
<1> DEFINE s == IF d < 0 THEN -1 ELSE 1
           m == n * s
           e == d * s
           g == gcd[<< Abs(m), e >>]
<1>1. Payloads \in Nat /\ n \in Int /\ d \in Int
  BY PayloadsAssumption DEF I64, I64Min, I64Max
<1>2. m \in I64 /\ e \in I64 /\ Abs(m) \in I64 /\ m \in Int /\ e \in Nat /\ e > 0 /\ s \in {-1, 1}
  BY <1>1 DEF I64, I64Min, I64Max, Abs
<1>3. m * d = n * e
  BY <1>1, <1>2
<1>4. reduce(n, d) = LET divisor == IF g > 1 THEN g ELSE 1
                     IN  << Quotient(m, divisor), Quotient(e, divisor) >>
  BY <1>2, WrapFits DEF reduce
<1>5. Abs(m) \in Nat
  BY <1>2, AbsNat
<1> HIDE DEF s, m, e
<1>6. Greatest(g, Abs(m), e)
  BY <1>2, <1>5, GcdGreatest
<1> HIDE DEF g
<1>7. g \in Nat /\ g > 0
  BY <1>2, <1>6 DEF Greatest
<1>8. reduce(n, d) = << Quotient(m, g), Quotient(e, g) >>
  <2>1. (IF g > 1 THEN g ELSE 1) = g
    BY <1>7
  <2> QED
    BY <1>4, <2>1
<1>9. PICK x \in Nat : Abs(m) = g * x
  BY <1>6 DEF Greatest, Factor
<1>10. PICK y \in Nat : e = g * y
  BY <1>6 DEF Greatest, Factor
<1> DEFINE a == IF m < 0 THEN -x ELSE x
<1>11. a \in Int /\ m = g * a /\ Abs(a) = x
  BY <1>2, <1>7, <1>9 DEF Abs
<1>12. y > 0
  BY <1>2, <1>7, <1>10
<1> HIDE DEF a
<1>13. reduce(n, d) = << a, y >>
  BY <1>7, <1>8, <1>10, <1>11, ExactQuotient
<1>14. a * d = n * y
  <2>1. g * (a * d) = g * (n * y)
    BY <1>1, <1>3, <1>7, <1>10, <1>11
  <2> DEFINE p == a * d
             q == n * y
  <2>2. p \in Int /\ q \in Int
    BY <1>1, <1>11
  <2> HIDE DEF p, q
  <2>3. g * p = g * q => p = q
    BY ONLY <2>2, <1>7
  <2> QED
    BY <2>1, <2>3 DEF p, q
<1>15. ASSUME NEW k \in Nat, k > 1, Remainder(a, k) = 0, Remainder(y, k) = 0 PROVE FALSE
  <2>1. Factor(k, x) /\ Factor(k, Abs(y))
    BY <1>11, <1>15, DividesFactor
  <2>2. Abs(y) = y
    BY DEF Abs
  <2> QED
    BY <1>6, <1>7, <1>9, <1>10, <1>12, <1>15, <2>1, <2>2, InLowestTerms
<1> QED
  BY <1>11, <1>12, <1>13, <1>14, <1>15

-----------------------------------------------------------------------------
(* Symbols. *)

\* Interning a name keeps the table one to one: its new id is larger than all.
LEMMA InternKeepsTable ==
    ASSUME NEW s, TableOneToOne(s), NEW name \in Name \cup {"t"}
    PROVE  TableOneToOne(intern(s, name))
<1>1. CASE name = "t" \/ s.ids[name] # 0
  BY <1>1 DEF intern
<1>2. CASE name # "t" /\ s.ids[name] = 0
  <2> DEFINE r == intern(s, name)
  <2>1. name \in Name
    BY <1>2
  <2>2. r = [ids |-> [s.ids EXCEPT ![name] = s.next], next |-> s.next + 1]
    BY <1>2 DEF intern
  <2>3. IsFiniteSet(Interned(s)) /\ Cardinality(Interned(s)) \in Nat
    BY SessionAssumption, FS_Subset, FS_CardinalityType DEF Interned
  <2>4. s.next \in Nat \ {0}
    BY <2>3 DEF TableOneToOne
  <2>5. r.ids \in [Name -> Nat] /\ r.ids[name] = s.next
    BY <2>1, <2>2, <2>4 DEF TableOneToOne
  <2>6. \A n \in Name : n # name => r.ids[n] = s.ids[n]
    BY <2>2 DEF TableOneToOne
  <2>7. Interned(r) = Interned(s) \cup {name}
    BY <1>2, <2>1, <2>4, <2>5, <2>6 DEF Interned
  <2>8. Cardinality(Interned(r)) = Cardinality(Interned(s)) + 1
    <3>1. name \notin Interned(s)
      BY <1>2 DEF Interned
    <3> QED
      BY ONLY <2>3, <2>7, <3>1, FS_AddElement
  <2>9. r.next = Cardinality(Interned(r)) + 1
    BY <2>2, <2>8 DEF TableOneToOne
  <2>10. \A n \in Name : r.ids[n] < r.next
    <3>1. r.next = s.next + 1
      BY <2>2
    <3>2. \A n \in Name : s.ids[n] \in Nat /\ s.ids[n] < s.next
      BY DEF TableOneToOne
    <3> QED
      BY <2>4, <2>5, <2>6, <3>1, <3>2
  <2>11. \A m, n \in Interned(r) : r.ids[m] = r.ids[n] => m = n
    <3>1. \A n \in Interned(s) : n \in Name /\ s.ids[n] \in Nat /\ s.ids[n] < s.next /\ n # name
      BY <1>2 DEF TableOneToOne, Interned
    <3>2. \A m, n \in Interned(s) : s.ids[m] = s.ids[n] => m = n
      BY DEF TableOneToOne
    <3> QED
      BY <2>4, <2>5, <2>6, <2>7, <3>1, <3>2
  <2>12. r = [ids |-> r.ids, next |-> r.next]
    BY <2>2
  <2> QED
    BY <2>5, <2>9, <2>10, <2>11, <2>12 DEF TableOneToOne
<1> QED
  BY <1>1, <1>2

LEMMA AtomKeepsTable ==
    ASSUME NEW s, TableOneToOne(s), NEW atom, NamesOf(atom) \subseteq Name \cup {"t"}
    PROVE  TableOneToOne(InternAtom(s, atom))
<1>1. CASE NamesOf(atom) = {}
  BY <1>1 DEF InternAtom
<1>2. CASE NamesOf(atom) # {}
  <2>1. (CHOOSE n \in NamesOf(atom) : TRUE) \in Name \cup {"t"}
    BY <1>2
  <2> QED
    BY <1>2, <2>1, InternKeepsTable DEF InternAtom
<1> QED
  BY <1>1, <1>2

\* The atoms of a text, and the names they intern.
LEMMA TextAtoms ==
    ASSUME NEW text \in Text
    PROVE  \/ /\ text.kind = "call" /\ text.name \in Name \cup {"t"}
              /\ Atoms(text) = << [kind |-> "sym", name |-> text.name], text.arg[1] >>
              /\ IsAtom(text.arg[1])
           \/ /\ text.kind \in {"nil", "str", "sym", "int"}
              /\ Atoms(text) = << text >> /\ IsAtom(text)
  BY TextAssumption DEF Atoms, IsAtom

LEMMA AtomNames == ASSUME NEW a, IsAtom(a) PROVE NamesOf(a) \subseteq Name \cup {"t"}
  BY DEF IsAtom, NamesOf

LEMMA TextNames ==
    ASSUME NEW text \in Text, NEW i \in 1..Len(Atoms(text))
    PROVE  NamesOf(Atoms(text)[i]) \subseteq Name \cup {"t"}
<1>1. CASE text.kind = "call"
  <2>1. /\ text.name \in Name \cup {"t"} /\ IsAtom(text.arg[1])
        /\ Atoms(text) = << [kind |-> "sym", name |-> text.name], text.arg[1] >>
    BY <1>1, TextAtoms
  <2>2. i \in {1, 2}
    BY <2>1
  <2>3. CASE i = 1
    BY <2>1, <2>3 DEF NamesOf
  <2>4. CASE i = 2
    BY <2>1, <2>4, AtomNames
  <2> QED
    BY <2>2, <2>3, <2>4
<1>2. CASE text.kind # "call"
  BY <1>2, TextAtoms, AtomNames
<1> QED
  BY <1>1, <1>2

\* Whatever texts are read, in whatever order, the table stays one to one.
LEMMA ReadKeepsTable ==
    ASSUME TableOneToOne(symbols), NEW text \in Text
    PROVE  TableOneToOne(ReadSymbols(text))
<1>1. Len(Atoms(text)) \in {1, 2}
  BY DEF Atoms
<1>2. NamesOf(Atoms(text)[1]) \subseteq Name \cup {"t"}
  BY <1>1, TextNames
<1>3. TableOneToOne(InternAtom(symbols, Atoms(text)[1]))
  BY <1>2, AtomKeepsTable
<1>4. CASE Len(Atoms(text)) = 1
  BY <1>3, <1>4 DEF ReadSymbols
<1>5. CASE Len(Atoms(text)) = 2
  <2>1. NamesOf(Atoms(text)[2]) \subseteq Name \cup {"t"}
    BY <1>5, TextNames
  <2> QED
    BY <1>3, <1>5, <2>1, AtomKeepsTable DEF ReadSymbols
<1> QED
  BY <1>1, <1>4, <1>5

LEMMA NewTable == TableOneToOne(NewSymbols)
<1>1. Interned(NewSymbols) = {}
  BY DEF Interned, NewSymbols
<1>2. Cardinality({}) = 0
  BY FS_EmptySet
<1> QED
  BY <1>1, <1>2 DEF TableOneToOne, NewSymbols

\* A one-to-one table never reaches the id of `t': there are too few names.
LEMMA TableWord ==
    ASSUME NEW s, TableOneToOne(s), NEW n \in Name, s.ids[n] # 0
    PROVE  /\ WordOf(s, n) \in AnyWord \ {SYM_T_WORD} /\ tag_of(WordOf(s, n)) = TAG_SYMBOL
           /\ name_of(s, WordOf(s, n)) = {n}
<1>1. Cardinality(Interned(s)) \in Nat /\ Cardinality(Interned(s)) <= Cardinality(Name)
  BY SessionAssumption, FS_Subset, FS_CardinalityType DEF Interned
<1>2. Cardinality(Name) \in Nat /\ Cardinality(Name) < SYM_T_ID
  BY SessionAssumption, FS_CardinalityType
<1>3. Payloads \in Nat /\ SYM_T_ID = Payloads - 1 /\ WordSize = 8 * Payloads
  BY PayloadsAssumption DEF SYM_T_ID, WordSize
<1> DEFINE id == s.ids[n]
<1>4. id \in Nat /\ id < SYM_T_ID
  BY <1>1, <1>2, <1>3 DEF TableOneToOne
<1>5. n # "t" /\ WordOf(s, n) = 8 * id + 4
  BY SessionAssumption DEF WordOf, SymbolWord, TAG_SYMBOL
<1>6. /\ 8 * id + 4 \in AnyWord /\ 8 * id + 4 # SYM_T_WORD /\ IdOf(8 * id + 4) = id
      /\ tag_of(8 * id + 4) = TAG_SYMBOL
  <2> HIDE DEF id
  <2>1. SYM_T_WORD = 8 * SYM_T_ID + 4
    BY DEF SYM_T_WORD, SymbolWord, TAG_SYMBOL
  <2>2. (8 * id + 4) \div 8 = id /\ (8 * id + 4) % 8 = 4
    BY <1>4
  <2> QED
    BY <1>3, <1>4, <2>1, <2>2 DEF AnyWord, IdOf, tag_of, TAG_SYMBOL
<1>7. \A m \in Name : s.ids[m] # 0 /\ s.ids[m] = id => m = n
  BY DEF TableOneToOne, Interned
<1> QED
  BY <1>5, <1>6, <1>7 DEF name_of

LEMMA TableNames == TableOneToOne(symbols) => SymbolsKeepNames
  BY TableWord DEF SymbolsKeepNames, name_of

\* No step makes the table less than one to one.
LEMMA TableStep == TableOneToOne(symbols) /\ [Next]_vars => TableOneToOne(symbols)'
<1> SUFFICES ASSUME TableOneToOne(symbols), [Next]_vars PROVE TableOneToOne(symbols)'
  OBVIOUS
<1>1. ASSUME NEW text \in Text, wsm_eval_string(text) PROVE TableOneToOne(symbols)'
  BY <1>1, ReadKeepsTable DEF wsm_eval_string, TableOneToOne, Interned
<1>2. CASE wsm_session_free
  BY <1>2, NewTable DEF wsm_session_free, TableOneToOne, Interned
<1>3. CASE UNCHANGED symbols
  BY <1>3 DEF TableOneToOne, Interned
<1> QED
  BY <1>1, <1>2, <1>3 DEF Next, Call, Build, wsm_session_init, wsm_wrap_transient_string,
     wsm_register_primitive, wsm_bind, wsm_wrap_game_handle, wsm_wrap_rational,
     wsm_wrap_transient_rational, AddFraction, Add, vars, session

\* However texts are read and sessions begun and ended, every symbol word shows
\* as the name it was interned for, and none is taken for `t'.
THEOREM SymbolNames == Spec => []SymbolsKeepNames
<1>1. Init => TableOneToOne(symbols)
  BY NewTable DEF Init
<1> QED
  BY <1>1, TableStep, TableNames, PTL DEF Spec

-----------------------------------------------------------------------------
(* Boxed values. *)

\* What slots hold: handles, texts, fractions as given and as reduced.
Held ==
    {<< >>, << "text" >>} \cup {<< t >> : t \in Token} \cup Fraction
    \cup {reduce(f[1], f[2]) : f \in Fraction}

Slot == [kind : {"none", "handle", "str", "rational"}, value : Held,
         lifetime : {"none", "transient", "persistent"}]

\* Slot x of the table is what y asked for, a fraction reduced, or is emptied and
\* was transient.
Reduced(v, f) == f \in Fraction /\ f[2] # 0 /\ v = reduce(f[1], f[2])

Faithful(x, y) ==
    /\ y.lifetime = "persistent" => y.kind \in {"handle", "rational"}
    /\ \/ x = Gone /\ y.lifetime = "transient"
       \/ /\ x.kind = y.kind /\ x.lifetime = y.lifetime
          /\ x.kind = "handle" => x.value = y.value
          /\ x.kind = "rational" => Reduced(x.value, y.value)

\* The table and the history of what was asked go slot by slot together.
SlotsAgree(table, asked) ==
    /\ table \in Seq(Slot) /\ asked \in Seq(Slot) /\ Len(table) = Len(asked)
    /\ \A i \in 1..Len(asked) : Faithful(table[i], asked[i])

LEMMA GoneSlot == Gone \in Slot /\ Gone.kind = "none" /\ Gone.lifetime = "none"
  BY DEF Gone, Value, Slot, Held

LEMMA LiteralSlot ==
    /\ Literal \in Slot /\ Literal.kind = "str" /\ Literal.lifetime = "transient"
  BY DEF Literal, Value, Slot, Held

\* A value added to both keeps them together.
LEMMA AddKeepsSlots ==
    ASSUME NEW table, NEW asked, SlotsAgree(table, asked),
           NEW x \in Slot, NEW y \in Slot, Faithful(x, y)
    PROVE  SlotsAgree(Append(table, x), Append(asked, y))
<1>1. /\ table \in Seq(Slot) /\ asked \in Seq(Slot) /\ Len(table) = Len(asked) /\ Len(asked) \in Nat
      /\ \A i \in 1..Len(asked) : Faithful(table[i], asked[i])
  BY DEF SlotsAgree
<1> DEFINE t == Append(table, x)
           a == Append(asked, y)
<1>2. /\ t \in Seq(Slot) /\ Len(t) = Len(table) + 1 /\ t[Len(table) + 1] = x
      /\ \A i \in 1..Len(table) : t[i] = table[i]
  BY <1>1
<1>3. /\ a \in Seq(Slot) /\ Len(a) = Len(asked) + 1 /\ a[Len(asked) + 1] = y
      /\ \A i \in 1..Len(asked) : a[i] = asked[i]
  BY <1>1
<1> HIDE DEF t, a
<1>4. ASSUME NEW i \in 1..Len(a) PROVE Faithful(t[i], a[i])
  <2>1. CASE i \in 1..Len(asked)
    BY <1>1, <1>2, <1>3, <2>1
  <2>2. CASE i = Len(asked) + 1
    <3>1. t[i] = x /\ a[i] = y
      BY <1>1, <1>2, <1>3, <2>2
    <3> QED
      BY <3>1
  <2> QED
    BY <1>1, <1>3, <2>1, <2>2
<1>5. SlotsAgree(t, a)
  BY <1>1, <1>2, <1>3, <1>4 DEF SlotsAgree
<1> QED
  BY <1>5 DEF t, a

\* Clearing empties transient slots only, and moves none.
LEMMA ClearKeepsSlots ==
    ASSUME NEW table, NEW asked, SlotsAgree(table, asked)
    PROVE  SlotsAgree(Cleared(table), asked)
<1>1. /\ table \in Seq(Slot) /\ asked \in Seq(Slot) /\ Len(table) = Len(asked) /\ Len(table) \in Nat
      /\ \A i \in 1..Len(asked) : Faithful(table[i], asked[i])
  BY DEF SlotsAgree
<1> DEFINE c == Cleared(table)
<1>2. \A i \in 1..Len(table) : table[i] \in Slot
  BY <1>1
<1>3. c = [i \in 1..Len(table) |-> IF table[i].lifetime = "transient" THEN Gone ELSE table[i]]
  BY DEF Cleared
<1> HIDE DEF c
<1>4. \A i \in 1..Len(table) : c[i] \in Slot
  BY <1>2, <1>3, GoneSlot
<1>5. c \in Seq(Slot) /\ Len(c) = Len(table)
  BY <1>1, <1>3, <1>4
<1>6. ASSUME NEW i \in 1..Len(asked) PROVE Faithful(c[i], asked[i])
  <2>1. Faithful(table[i], asked[i]) /\ i \in 1..Len(table)
    BY <1>1
  <2>2. CASE table[i].lifetime = "transient"
    <3>1. c[i] = Gone
      BY <1>3, <2>1, <2>2
    <3>2. asked[i].lifetime = "transient"
      BY <2>1, <2>2, GoneSlot DEF Faithful
    <3> QED
      BY <2>1, <3>1, <3>2 DEF Faithful
  <2>3. CASE table[i].lifetime # "transient"
    <3>1. c[i] = table[i]
      BY <1>3, <2>1, <2>3
    <3> QED
      BY <2>1, <3>1
  <2> QED
    BY <2>2, <2>3
<1>7. SlotsAgree(c, asked)
  BY <1>1, <1>5, <1>6 DEF SlotsAgree
<1> QED
  BY <1>7 DEF c

LEMMA LiteralIsFaithful == Faithful(Literal, Literal)
  BY LiteralSlot DEF Faithful

\* The literals of a text, at the end of both.
LEMMA LiteralsKeepSlots ==
    ASSUME NEW table, NEW asked, SlotsAgree(table, asked), NEW n \in Nat
    PROVE  SlotsAgree(table \o [i \in 1..n |-> Literal], asked \o [i \in 1..n |-> Literal])
<1> DEFINE l == [i \in 1..n |-> Literal]
           t == table \o l
           a == asked \o l
<1>1. /\ table \in Seq(Slot) /\ asked \in Seq(Slot) /\ Len(table) = Len(asked) /\ Len(asked) \in Nat
      /\ \A i \in 1..Len(asked) : Faithful(table[i], asked[i])
  BY DEF SlotsAgree
<1>2. l \in Seq(Slot) /\ Len(l) = n /\ \A i \in 1..n : l[i] = Literal
  BY LiteralSlot
<1> HIDE DEF l
<1>3. /\ t \in Seq(Slot) /\ Len(t) = Len(table) + n
      /\ \A i \in 1..Len(t) : t[i] = IF i <= Len(table) THEN table[i] ELSE l[i - Len(table)]
  BY <1>1, <1>2, SMTT(20)
<1>4. /\ a \in Seq(Slot) /\ Len(a) = Len(asked) + n
      /\ \A i \in 1..Len(a) : a[i] = IF i <= Len(asked) THEN asked[i] ELSE l[i - Len(asked)]
  BY <1>1, <1>2, SMTT(20)
<1> HIDE DEF t, a
<1>5. ASSUME NEW i \in 1..Len(a) PROVE Faithful(t[i], a[i])
  <2>1. CASE i <= Len(asked)
    BY <1>1, <1>3, <1>4, <2>1
  <2>2. CASE ~(i <= Len(asked))
    <3>1. i - Len(asked) \in 1..n /\ t[i] = l[i - Len(asked)] /\ a[i] = l[i - Len(asked)]
      BY <1>1, <1>3, <1>4, <2>2
    <3>2. t[i] = Literal /\ a[i] = Literal
      BY <1>2, <3>1
    <3> QED
      BY <3>2, LiteralIsFaithful
  <2> QED
    BY <2>1, <2>2
<1>6. SlotsAgree(t, a)
  BY <1>1, <1>3, <1>4, <1>5 DEF SlotsAgree
<1> QED
  BY <1>6 DEF t, a, l

LEMMA LiteralsCounted == \A text \in Text : Literals(text) \in Nat
<1> TAKE text \in Text
<1>1. Len(Atoms(text)) \in Nat
  BY DEF Atoms
<1> DEFINE S == {i \in 1..Len(Atoms(text)) : Atoms(text)[i].kind = "str"}
<1>2. IsFiniteSet(1..Len(Atoms(text)))
  BY <1>1, FS_Interval
<1>3. IsFiniteSet(S)
  BY <1>2, FS_Subset
<1>4. Cardinality(S) \in Nat
  BY <1>3, FS_CardinalityType
<1> QED
  BY <1>4 DEF Literals

\* What the host wraps goes into a slot of its own.
LEMMA WrapStep ==
    ASSUME SlotsAgree(boxed, given), NEW value \in Held, NEW asked \in Held,
           NEW kind \in {"handle", "str", "rational"}, NEW lifetime \in {"transient", "persistent"},
           kind = "str" => lifetime = "transient", kind = "handle" => value = asked,
           kind = "rational" => Reduced(value, asked),
           Add(kind, value, lifetime, asked)
    PROVE  SlotsAgree(boxed', given')
<1> DEFINE x == Value(kind, value, lifetime)
           y == Value(kind, asked, lifetime)
<1>1. boxed' = Append(boxed, x) /\ given' = Append(given, y)
  BY DEF Add
<1>2. /\ x \in Slot /\ x.kind = kind /\ x.lifetime = lifetime /\ x.value = value
      /\ y \in Slot /\ y.kind = kind /\ y.lifetime = lifetime /\ y.value = asked
  BY DEF Value, Slot
<1> HIDE DEF x, y
<1>3. Faithful(x, y)
  BY <1>2 DEF Faithful
<1> QED
  BY <1>1, <1>2, <1>3, AddKeepsSlots

LEMMA EmptySlots == SlotsAgree(<< >>, << >>)
  BY DEF SlotsAgree

\* Every step keeps the table and what was asked together.
LEMMA SlotsStep ==
    ASSUME SlotsAgree(boxed, given), [Next]_vars
    PROVE  SlotsAgree(boxed', given')
<1>1. CASE wsm_session_free
  BY <1>1, EmptySlots DEF wsm_session_free
<1>2. CASE wsm_wrap_transient_string
  <2>1. << "text" >> \in Held
    BY DEF Held
  <2> QED
    BY <1>2, <2>1, WrapStep DEF wsm_wrap_transient_string
<1>3. ASSUME NEW t \in Token, wsm_wrap_game_handle(t) PROVE SlotsAgree(boxed', given')
  <2>1. << t >> \in Held
    BY DEF Held
  <2> QED
    BY <1>3, <2>1, WrapStep DEF wsm_wrap_game_handle
<1>4. ASSUME NEW f \in Fraction, NEW lifetime \in {"transient", "persistent"},
             f[2] # 0, AddFraction(f, lifetime)
      PROVE  SlotsAgree(boxed', given')
  <2>1. f \in Held /\ reduce(f[1], f[2]) \in Held
    BY DEF Held
  <2>2. Add("rational", reduce(f[1], f[2]), lifetime, f)
    BY <1>4 DEF AddFraction
  <2> DEFINE v == reduce(f[1], f[2])
  <2> HIDE DEF v
  <2>3. v \in Held /\ Reduced(v, f) /\ Add("rational", v, lifetime, f)
    BY <1>4, <2>1, <2>2 DEF v, Reduced
  <2> QED
    BY <2>1, <2>3, WrapStep
<1>5. ASSUME NEW text \in Text, wsm_eval_string(text) PROVE SlotsAgree(boxed', given')
  <2> DEFINE n == Literals(text)
  <2>1. n \in Nat
    BY LiteralsCounted
  <2>2. boxed' = Cleared(Table(text)) /\ given' = given \o [i \in 1..n |-> Literal]
    BY <1>5 DEF wsm_eval_string
  <2>3. Table(text) = Cleared(boxed) \o [i \in 1..n |-> Literal]
    BY DEF Table
  <2> HIDE DEF n
  <2>4. SlotsAgree(Cleared(boxed), given)
    BY ClearKeepsSlots
  <2>5. SlotsAgree(Table(text), given')
    BY <2>1, <2>2, <2>3, <2>4, LiteralsKeepSlots
  <2> QED
    BY <2>2, <2>5, ClearKeepsSlots
<1>6. CASE UNCHANGED << boxed, given >>
  BY <1>6
<1> QED
  BY <1>1, <1>2, <1>3, <1>4, <1>5, <1>6 DEF Next, Call, Build, wsm_session_init,
     wsm_register_primitive, wsm_bind, wsm_wrap_rational, wsm_wrap_transient_rational, vars, session

LEMMA SlotsStepPrimed == SlotsAgree(boxed, given) /\ [Next]_vars => SlotsAgree(boxed, given)'
<1>1. SlotsAgree(boxed, given) /\ [Next]_vars => SlotsAgree(boxed', given')
  BY SlotsStep
<1> QED
  BY <1>1 DEF SlotsAgree, Faithful, Reduced, Slot, Held

\* A table that agrees with what was asked answers every word as it should.
LEMMA SlotsAnswer == SlotsAgree(boxed, given) => SlotsKept
<1> SUFFICES ASSUME SlotsAgree(boxed, given), NEW w \in AnyWord
             PROVE  LET i == Handle(w)
                    IN  /\ \A h \in wsm_unwrap_game_handle(w) :
                              i \in 1..Len(given) /\ given[i].kind = "handle" /\ given[i].value = h
                        /\ wsm_unwrap_rational(w) # {} =>
                              i \in 1..Len(given) /\ given[i].kind = "rational"
                        /\ i \in 1..Len(given) /\ given[i].lifetime = "persistent" =>
                              wsm_unwrap_game_handle(w) \cup wsm_unwrap_rational(w) # {}
  BY DEF SlotsKept
<1> DEFINE i == Handle(w)
           e == entry(boxed, w)
<1>1. /\ Len(boxed) = Len(given)
      /\ \A k \in 1..Len(given) : Faithful(boxed[k], given[k])
  BY DEF SlotsAgree
<1>2. /\ wsm_unwrap_game_handle(w) = IF e.kind = "handle" THEN {e.value} ELSE {}
      /\ wsm_unwrap_rational(w) = IF e.kind = "rational" THEN {e.value} ELSE {}
  BY DEF wsm_unwrap_game_handle, wsm_unwrap_rational, Get, kind_of
<1>3. e = IF i \in 1..Len(given) THEN boxed[i] ELSE Gone
  BY <1>1 DEF entry
<1> HIDE DEF i, e
<1>4. ASSUME i \in 1..Len(given)
      PROVE  /\ e.kind = "handle" => given[i].kind = "handle" /\ given[i].value = e.value
             /\ e.kind = "rational" => given[i].kind = "rational"
             /\ given[i].lifetime = "persistent" => e.kind \in {"handle", "rational"}
  <2>1. e = boxed[i] /\ Faithful(e, given[i])
    BY <1>1, <1>3, <1>4
  <2> QED
    BY <2>1, GoneSlot DEF Faithful
<1>5. ASSUME i \notin 1..Len(given) PROVE e.kind = "none"
  BY <1>3, <1>5, GoneSlot
<1>6. e.kind \in {"handle", "rational"} => i \in 1..Len(given)
  BY <1>5
<1> QED
  BY <1>2, <1>4, <1>6 DEF i

\* A fraction of the table is the one that was asked for, reduced.
LEMMA FractionsAnswer == SlotsAgree(boxed, given) => FractionsExact
<1> SUFFICES ASSUME SlotsAgree(boxed, given), NEW w \in AnyWord, NEW f \in wsm_unwrap_rational(w),
                    Ordinary(given[Handle(w)].value)
             PROVE  LET asked == given[Handle(w)].value
                    IN  Lowest(f) /\ f[1] * asked[2] = asked[1] * f[2]
  BY DEF FractionsExact
<1> DEFINE i == Handle(w)
           asked == given[i].value
<1>1. entry(boxed, w).kind = "rational" /\ f = entry(boxed, w).value
  BY DEF wsm_unwrap_rational, Get, kind_of
<1>2. i \in 1..Len(boxed) /\ entry(boxed, w) = boxed[i]
  BY <1>1, GoneSlot DEF entry
<1>3. Faithful(boxed[i], given[i])
  BY <1>2 DEF SlotsAgree
<1> HIDE DEF i
<1>4. Reduced(f, asked)
  BY <1>1, <1>2, <1>3, GoneSlot DEF Faithful
<1>5. Ordinary(asked)
  BY DEF i
<1> HIDE DEF asked
<1>6. asked[1] \in I64 /\ asked[2] \in I64 /\ asked[2] # 0 /\ f = reduce(asked[1], asked[2])
  BY <1>4, SessionAssumption DEF Reduced
<1>7. asked[1] # I64Min /\ asked[2] # I64Min
  BY <1>5 DEF Ordinary
<1>8. PICK a, b \in Int :
          /\ f = << a, b >> /\ b > 0 /\ a * asked[2] = asked[1] * b
          /\ \A k \in Nat : k > 1 => ~(Remainder(a, k) = 0 /\ Remainder(b, k) = 0)
  BY <1>6, <1>7, ReduceExact
<1>9. \A k \in 2..I64Max : k \in Nat /\ k > 1
  BY PayloadsAssumption DEF I64Max
<1>10. Lowest(f)
  BY <1>8, <1>9 DEF Lowest, Divides
<1> QED
  BY <1>8, <1>10 DEF asked, i

\* In every session a host unwraps from a slot only what it wrapped there: a
\* handle verbatim, a fraction equal and in lowest terms unless reduce met the
\* least i64; and what it wrapped to stay is there until the session ends.
THEOREM UnwrapIsSound == Spec => []UnwrapSound
<1>1. Init => SlotsAgree(boxed, given)
  BY EmptySlots DEF Init
<1> QED
  BY <1>1, SlotsStepPrimed, SlotsAnswer, FractionsAnswer, PTL DEF Spec, UnwrapSound
-----------------------------------------------------------------------------
(* What a text is answered. *)

\* The last atom of a text, the symbols and the table when it is read, its word.
LastAtom(text) == Atoms(text)[Len(Atoms(text))]
WordIn(text) == atom_to_word(ReadSymbols(text), LastAtom(text), Table(text))

LEMMA LastIsAtom ==
    ASSUME NEW text \in Text
    PROVE  /\ IsAtom(LastAtom(text))
           /\ LastAtom(text) = IF text.kind = "call" THEN text.arg[1] ELSE text
<1>1. CASE text.kind = "call"
  <2>1. IsAtom(text.arg[1]) /\ Atoms(text) = << [kind |-> "sym", name |-> text.name], text.arg[1] >>
    BY <1>1, TextAtoms
  <2> QED
    BY <1>1, <2>1 DEF LastAtom
<1>2. CASE text.kind # "call"
  BY <1>2, TextAtoms DEF LastAtom
<1> QED
  BY <1>1, <1>2

\* An atom is a value without words, or it interns one name.
LEMMA PlainOrNamed ==
    ASSUME NEW atom, IsAtom(atom)
    PROVE  \/ /\ Plain(atom) # {}
              /\ \/ atom.kind = "nil" /\ Plain(atom) = {<< "nil" >>}
                 \/ atom.kind = "str" /\ Plain(atom) = {<< "str" >>}
                 \/ /\ atom.kind = "int" /\ atom.n \in I64
                    /\ Plain(atom) = {<< "int", Kept(atom.n) >>}
                 \/ /\ atom.kind = "sym" /\ atom.name = "t" /\ NamesOf(atom) = {"t"}
                    /\ Plain(atom) = {<< "sym", {"t"} >>}
           \/ /\ Plain(atom) = {}
              /\ \/ atom.kind = "sym" /\ atom.name \in Name /\ NamesOf(atom) = {atom.name}
                 \/ /\ atom.kind = "int" /\ atom.n \notin I64 /\ Digits(atom.n) \in Name
                    /\ NamesOf(atom) = {Digits(atom.n)}
<1>1. CASE atom.kind = "nil"
  BY <1>1 DEF Plain
<1>2. CASE atom.kind = "str"
  BY <1>2 DEF Plain
<1>3. CASE atom.kind = "sym" /\ atom.name = "t"
  BY <1>3 DEF Plain, NamesOf
<1>4. CASE atom.kind = "sym" /\ atom.name # "t"
  <2>1. atom.name \in Name
    BY <1>4 DEF IsAtom
  <2> QED
    BY <1>4, <2>1 DEF Plain, NamesOf
<1>5. CASE atom.kind = "int" /\ atom.n \in I64
  BY <1>5 DEF Plain
<1>6. CASE atom.kind = "int" /\ atom.n \notin I64
  <2>1. Digits(atom.n) \in Name
    BY <1>6 DEF IsAtom
  <2> QED
    BY <1>6, <2>1 DEF Plain, NamesOf
<1> QED
  BY <1>1, <1>2, <1>3, <1>4, <1>5, <1>6 DEF IsAtom

\* Reading an atom gives the name it stands for an id.
LEMMA AtomInterned ==
    ASSUME NEW s, TableOneToOne(s), NEW atom, NEW n \in Name, NamesOf(atom) = {n}
    PROVE  InternAtom(s, atom).ids[n] # 0
<1>1. (CHOOSE x \in NamesOf(atom) : TRUE) = n
  OBVIOUS
<1>2. InternAtom(s, atom) = intern(s, n)
  BY <1>1 DEF InternAtom
<1>3. n # "t"
  BY SessionAssumption
<1>4. CASE s.ids[n] # 0
  BY <1>2, <1>4 DEF intern
<1>5. CASE s.ids[n] = 0
  <2>1. Cardinality(Interned(s)) \in Nat
    BY SessionAssumption, FS_Subset, FS_CardinalityType DEF Interned
  <2>2. s.next # 0 /\ s.ids \in [Name -> Nat]
    BY <2>1 DEF TableOneToOne
  <2> QED
    BY <1>2, <1>3, <1>5, <2>2 DEF intern
<1> QED
  BY <1>4, <1>5

LEMMA LastInterned ==
    ASSUME TableOneToOne(symbols), NEW text \in Text, NEW n \in Name, NamesOf(LastAtom(text)) = {n}
    PROVE  ReadSymbols(text).ids[n] # 0
<1>1. CASE text.kind = "call"
  <2>1. Atoms(text) = << [kind |-> "sym", name |-> text.name], text.arg[1] >>
    BY <1>1, TextAtoms
  <2>2. Len(Atoms(text)) = 2 /\ LastAtom(text) = Atoms(text)[2]
    BY <2>1 DEF LastAtom
  <2>3. NamesOf(Atoms(text)[1]) \subseteq Name \cup {"t"}
    BY <2>2, TextNames
  <2>4. TableOneToOne(InternAtom(symbols, Atoms(text)[1]))
    BY <2>3, AtomKeepsTable
  <2> QED
    BY <2>2, <2>4, AtomInterned DEF ReadSymbols
<1>2. CASE text.kind # "call"
  <2>1. Len(Atoms(text)) = 1 /\ LastAtom(text) = Atoms(text)[1]
    BY <1>2, TextAtoms DEF LastAtom
  <2> QED
    BY <2>1, AtomInterned DEF ReadSymbols
<1> QED
  BY <1>1, <1>2

\* A word that is made of a handle, and the word of `t'.
LEMMA BoxedBack ==
    ASSUME NEW h \in Nat
    PROVE  tag_of(BoxedWord(h)) = TAG_BOXED /\ Handle(BoxedWord(h)) = h
<1>1. (8 * h + 7) % 8 = 7 /\ (8 * h + 7) \div 8 = h
  OBVIOUS
<1> QED
  BY <1>1 DEF BoxedWord, tag_of, TAG_BOXED, Handle

LEMMA WordOfT == \A s : /\ tag_of(SYM_T_WORD) = TAG_SYMBOL
                        /\ name_of(s, SYM_T_WORD) = {"t"}
<1> DEFINE i == Payloads - 1
<1>1. i \in Nat /\ SYM_T_WORD = 8 * i + 4
  BY PayloadsAssumption DEF SYM_T_WORD, SymbolWord, SYM_T_ID, TAG_SYMBOL
<1> HIDE DEF i
<1>2. (8 * i + 4) % 8 = 4
  BY <1>1
<1> QED
  BY <1>1, <1>2 DEF tag_of, TAG_SYMBOL, name_of

\* A literal of the text is the last slot of the table it is read into.
LEMMA LiteralLast ==
    ASSUME SlotsAgree(boxed, given), NEW text \in Text, LastAtom(text).kind = "str"
    PROVE  LET table == Table(text)
           IN  Len(table) \in Nat /\ Len(table) >= 1 /\ table[Len(table)] = Literal
<1> DEFINE n == Literals(text)
           S == {i \in 1..Len(Atoms(text)) : Atoms(text)[i].kind = "str"}
           l == [i \in 1..n |-> Literal]
           c == Cleared(boxed)
           table == c \o l
<1>1. Len(Atoms(text)) \in {1, 2}
  BY DEF Atoms
<1>2. S # {}
  BY <1>1 DEF LastAtom
<1>3. IsFiniteSet(S)
  <2>1. IsFiniteSet(1..Len(Atoms(text)))
    BY <1>1, FS_Interval
  <2> QED
    BY <2>1, FS_Subset
<1>4. Cardinality(S) # 0 /\ Cardinality(S) \in Nat
  BY <1>2, <1>3, FS_EmptySet, FS_CardinalityType
<1>5. n \in Nat /\ n >= 1
  BY <1>4 DEF Literals
<1> HIDE DEF n, S
<1>6. c \in Seq(Slot) /\ Len(c) \in Nat
  BY ClearKeepsSlots DEF SlotsAgree
<1> HIDE DEF c
<1>7. l \in Seq(Slot) /\ Len(l) = n /\ l[n] = Literal
  BY <1>5, LiteralSlot
<1> HIDE DEF l
<1>8. Len(table) = Len(c) + n /\ table[Len(c) + n] = l[n]
  BY <1>5, <1>6, <1>7
<1>9. Table(text) = table
  BY DEF Table, table, c, l, n
<1> HIDE DEF table
<1>10. Len(table) \in Nat /\ Len(table) >= 1 /\ table[Len(table)] = Literal
  BY <1>5, <1>6, <1>7, <1>8
<1> QED
  BY <1>9, <1>10

\* The word of an atom that is a value means that value, whatever is bound.
LEMMA PlainMeans ==
    ASSUME SlotsAgree(boxed, given), NEW text \in Text, Plain(LastAtom(text)) # {}
    PROVE  /\ EvalAtom(ReadSymbols(text), WordIn(text)) = {WordIn(text)}
           /\ {Shown(ReadSymbols(text), Table(text), WordIn(text))} = Plain(LastAtom(text))
<1> DEFINE s == ReadSymbols(text)
           table == Table(text)
           atom == LastAtom(text)
           w == WordIn(text)
<1>1. IsAtom(atom)
  BY LastIsAtom
<1>2. w = atom_to_word(s, atom, table)
  BY DEF WordIn
<1>3. CASE atom.kind = "str" /\ Plain(atom) = {<< "str" >>}
  <2> DEFINE h == Len(table)
  <2>1. h \in Nat /\ h >= 1 /\ table[h] = Literal
    BY <1>3, LiteralLast
  <2>2. w = BoxedWord(h)
    BY <1>2, <1>3 DEF atom_to_word
  <2>3. tag_of(w) = TAG_BOXED /\ Handle(w) = h
    BY <2>1, <2>2, BoxedBack
  <2>4. h \in 1..Len(table)
    BY <2>1
  <2> HIDE DEF h, s, table, atom, w
  <2>5. entry(table, w) = Literal
    BY <2>1, <2>3, <2>4 DEF entry, h
  <2>6. kind_of(table, w) = "str"
    BY <2>5, LiteralSlot DEF kind_of
  <2>7. Shown(s, table, w) = << "str" >>
    BY <2>3, <2>6 DEF Shown, TAG_NIL, TAG_FIXNUM, TAG_SYMBOL, TAG_BOXED
  <2>8. EvalAtom(s, w) = {w}
    BY <2>3 DEF EvalAtom, TAG_SYMBOL, TAG_BOXED
  <2> QED
    BY <1>3, <2>7, <2>8 DEF s, table, atom, w
<1> HIDE DEF s, table, atom, w
<1>4. CASE atom.kind = "nil" /\ Plain(atom) = {<< "nil" >>}
  <2>1. w = 1
    BY <1>2, <1>4 DEF atom_to_word, WORD_NIL, TAG_NIL
  <2>2. tag_of(w) = TAG_NIL
    BY <2>1 DEF tag_of, TAG_NIL
  <2>3. Shown(s, table, w) = << "nil" >> /\ EvalAtom(s, w) = {w}
    BY <2>2 DEF Shown, EvalAtom, TAG_NIL, TAG_FIXNUM, TAG_SYMBOL, TAG_BOXED
  <2> QED
    BY <1>4, <2>3 DEF s, table, atom, w
<1>5. CASE atom.kind = "int" /\ atom.n \in I64 /\ Plain(atom) = {<< "int", Kept(atom.n) >>}
  <2>1. w = encode_fixnum(atom.n)
    BY <1>2, <1>5 DEF atom_to_word
  <2>2. atom.n \in Int
    BY <1>5, PayloadsAssumption DEF I64, I64Min, I64Max
  <2>3. tag_of(w) = TAG_FIXNUM /\ decode_fixnum(w) = Kept(atom.n)
    BY <2>1, <2>2, FixnumKept
  <2>4. Shown(s, table, w) = << "int", decode_fixnum(w) >> /\ EvalAtom(s, w) = {w}
    BY <2>3 DEF Shown, EvalAtom, TAG_NIL, TAG_FIXNUM, TAG_SYMBOL, TAG_BOXED
  <2> QED
    BY <1>5, <2>3, <2>4 DEF s, table, atom, w
<1>6. CASE atom.kind = "sym" /\ NamesOf(atom) = {"t"} /\ Plain(atom) = {<< "sym", {"t"} >>}
  <2>1. w = SYM_T_WORD
    BY <1>2, <1>6 DEF atom_to_word, WordOf
  <2>2. tag_of(w) = TAG_SYMBOL /\ name_of(s, w) = {"t"}
    BY <2>1, WordOfT
  <2>3. Shown(s, table, w) = << "sym", {"t"} >> /\ EvalAtom(s, w) = {w}
    BY <2>2 DEF Shown, EvalAtom, TAG_NIL, TAG_FIXNUM, TAG_SYMBOL, TAG_BOXED
  <2> QED
    BY <1>6, <2>3 DEF s, table, atom, w
<1>7. Plain(atom) # {}
  BY DEF atom
<1> QED
  BY <1>1, <1>3, <1>4, <1>5, <1>6, <1>7, PlainOrNamed

\* The word of any other atom is shown as its name, and evaluates to what is
\* bound to that name.
LEMMA NamedMeans ==
    ASSUME TableOneToOne(symbols), NEW text \in Text, Plain(LastAtom(text)) = {}
    PROVE  \E n \in Name :
              /\ NamesOf(LastAtom(text)) = {n}
              /\ LastAtom(text).kind = "sym" => LastAtom(text).name = n
              /\ Shown(ReadSymbols(text), Table(text), WordIn(text)) = << "sym", {n} >>
              /\ EvalAtom(ReadSymbols(text), WordIn(text)) =
                    {bindings[m] : m \in {k \in {n} \cap Bindable : bindings[k] # NoWord}}
<1> DEFINE s == ReadSymbols(text)
           table == Table(text)
           atom == LastAtom(text)
           w == WordIn(text)
<1>1. IsAtom(atom)
  BY LastIsAtom
<1>2. PICK n \in Name : /\ NamesOf(atom) = {n}
                        /\ atom.kind = "sym" => atom.name = n
                        /\ atom.kind = "sym" \/ (atom.kind = "int" /\ atom.n \notin I64)
  BY <1>1, PlainOrNamed
<1>3. TableOneToOne(s) /\ s.ids[n] # 0
  BY <1>2, ReadKeepsTable, LastInterned
<1>4. w = WordOf(s, n)
  <2>1. (CHOOSE x \in NamesOf(atom) : TRUE) = n
    BY <1>2
  <2>2. w = atom_to_word(s, atom, table)
    BY DEF WordIn
  <2> HIDE DEF s, table, atom, w
  <2> QED
    BY <1>2, <2>1, <2>2 DEF atom_to_word
<1> HIDE DEF s, table, atom, w
<1>5. tag_of(w) = TAG_SYMBOL /\ name_of(s, w) = {n} /\ "t" \notin {n}
  BY <1>3, <1>4, TableWord, SessionAssumption
<1>6. Shown(s, table, w) = << "sym", {n} >>
  BY <1>5 DEF Shown, TAG_NIL, TAG_FIXNUM, TAG_SYMBOL, TAG_BOXED
<1>7. EvalAtom(s, w) = {bindings[m] : m \in {k \in {n} \cap Bindable : bindings[k] # NoWord}}
  BY <1>5 DEF EvalAtom
<1> QED
  BY <1>2, <1>6, <1>7 DEF s, table, atom, w

\* A word bound to a value that was wrapped to stay shows that kind of value.
LEMMA BoundShows ==
    ASSUME SlotsAgree(boxed, given), NEW text \in Text, NEW s, NEW w,
           Handle(w) \in 1..Len(given), given[Handle(w)].lifetime = "persistent"
    PROVE  Shown(s, Table(text), w)[1] = given[Handle(w)].kind
<1> DEFINE i == Handle(w)
           n == Literals(text)
           l == [k \in 1..n |-> Literal]
           c == Cleared(boxed)
           table == c \o l
<1>1. /\ boxed \in Seq(Slot) /\ Len(boxed) = Len(given) /\ Len(boxed) \in Nat
      /\ i \in 1..Len(boxed) /\ Faithful(boxed[i], given[i])
  BY DEF SlotsAgree
<1>2. i \in Nat \ {0} /\ tag_of(w) = TAG_BOXED
  BY <1>1 DEF Handle
<1> HIDE DEF i
<1>3. boxed[i].kind = given[i].kind /\ boxed[i].lifetime = "persistent"
  BY <1>1, GoneSlot DEF Faithful, i
<1>4. c \in Seq(Slot) /\ Len(c) = Len(boxed) /\ c[i] = boxed[i]
  <2>1. c \in Seq(Slot) /\ Len(c) = Len(given)
    BY ClearKeepsSlots DEF SlotsAgree
  <2>2. c[i] = boxed[i]
    BY <1>1, <1>3 DEF Cleared
  <2> QED
    BY <1>1, <2>1, <2>2
<1>5. n \in Nat
  BY LiteralsCounted
<1> HIDE DEF c, n
<1>6. l \in Seq(Slot) /\ Len(l) = n
  BY <1>5, LiteralSlot
<1> HIDE DEF l
<1>7. Len(table) = Len(c) + n /\ table[i] = c[i]
  <2>1. i \in 1..Len(c)
    BY <1>1, <1>4
  <2> QED
    BY ONLY <2>1, <1>4, <1>5, <1>6
<1>8. Table(text) = table
  BY DEF Table, table, c, l, n
<1> HIDE DEF table
<1>9. i \in 1..Len(table)
  BY <1>1, <1>4, <1>5, <1>7
<1>10. entry(table, w) = boxed[i]
  BY <1>4, <1>7, <1>9 DEF entry, i
<1>11. kind_of(table, w) = given[i].kind
  BY <1>3, <1>10 DEF kind_of
<1>12. Shown(s, table, w) = IF given[i].kind = "rational" THEN << "rational", entry(table, w).value >>
                            ELSE << given[i].kind >>
  BY <1>2, <1>11 DEF Shown, TAG_NIL, TAG_FIXNUM, TAG_SYMBOL, TAG_BOXED
<1>13. Shown(s, table, w)[1] = given[i].kind
  BY <1>12
<1> QED
  BY <1>8, <1>13 DEF i

\* Which of its cases a text's answer falls under.
LEMMA AnswerCases ==
    ASSUME NEW text \in Text
    PROVE  LET show(w) == Answer("value", Shown(ReadSymbols(text), Table(text), w))
               values == EvalAtom(ReadSymbols(text), WordIn(text))
               head == IF text.kind = "call" THEN HeadMeans(text.name) ELSE "none"
           IN  /\ head = "cond" => Answers(text) = {Error("invalid form")}
               /\ head = "quote" => Answers(text) = {show(WordIn(text))}
               /\ head = "unknown" => Answers(text) = {Error("unknown symbol")}
               /\ head \in {"none", "access", "call"} /\ values = {} =>
                     Answers(text) = {Error("unknown symbol")}
               /\ head = "none" /\ values # {} => Answers(text) = {show(w) : w \in values}
               /\ head = "access" /\ values # {} => Answers(text) = {Error("type error")}
               /\ head = "call" /\ values # {} =>
                     Answers(text) = {show(w) : w \in values} \cup {Error("host failed")}
  BY DEF Answers, WordIn, LastAtom

\* A word of the registry is that form, whatever is registered for it.
LEMMA HeadCases ==
    ASSUME Unambiguous, NEW name
    PROVE  /\ name \in tables["cond"] => HeadMeans(name) = "cond"
           /\ name \in tables["quote"] => HeadMeans(name) = "quote"
           /\ name \in tables["car"] \cup tables["cdr"] => HeadMeans(name) = "access"
           /\ (\A f \in CanonForm : name \notin tables[f]) =>
                 HeadMeans(name) = IF name \in prims THEN "call" ELSE "unknown"
<1>1. CanonForm = {"quote", "car", "cdr", "cond"}
  BY DEF CanonForm, CanonId
<1>2. \A f, g \in {"quote", "car", "cdr", "cond"} : f # g => tables[f] \cap tables[g] = {}
  BY <1>1 DEF Unambiguous
<1>3. /\ name \in tables["cond"] => name \notin tables["quote"] /\ name \notin tables["car"] /\ name \notin tables["cdr"]
      /\ name \in tables["quote"] => name \notin tables["cond"] /\ name \notin tables["car"] /\ name \notin tables["cdr"]
      /\ name \in tables["car"] => name \notin tables["cond"] /\ name \notin tables["quote"]
      /\ name \in tables["cdr"] => name \notin tables["cond"] /\ name \notin tables["quote"]
  BY <1>2
<1>4. name \in UNION {tables[f] : f \in CanonForm} <=> \E f \in CanonForm : name \in tables[f]
  OBVIOUS
<1>5. /\ tables.cond = tables["cond"] /\ tables.quote = tables["quote"]
      /\ tables.car = tables["car"] /\ tables.cdr = tables["cdr"]
  OBVIOUS
<1>6. CASE \A f \in CanonForm : name \notin tables[f]
  <2>1. /\ name \notin tables["cond"] /\ name \notin tables["quote"]
        /\ name \notin tables["car"] /\ name \notin tables["cdr"]
    BY <1>1, <1>6
  <2>2. name \in prims \ UNION {tables[f] : f \in CanonForm} <=> name \in prims
    BY <1>4, <1>6
  <2> QED
    BY <2>1, <2>2 DEF HeadMeans
<1>7. CASE \E f \in CanonForm : name \in tables[f]
  <2>1. name \notin prims \ UNION {tables[f] : f \in CanonForm}
    BY <1>4, <1>7
  <2>2. /\ name \in tables["cond"] => HeadMeans(name) = "cond"
        /\ name \in tables["quote"] => HeadMeans(name) = "quote"
    BY <1>3, <2>1 DEF HeadMeans
  <2>3. name \in tables["car"] \cup tables["cdr"] => HeadMeans(name) = "access"
    BY <1>3, <2>1 DEF HeadMeans
  <2> QED
    BY <1>7, <2>2, <2>3
<1> QED
  BY <1>6, <1>7

\* The symbols and the slots that every session keeps are all its answers need.
LEMMA TextMeans ==
    ASSUME TableOneToOne(symbols), SlotsAgree(boxed, given), Unambiguous, NEW text \in Text
    PROVE  MeansText(text)
<1> DEFINE is(f) == text.kind = "call" /\ text.name \in tables[f]
           special == \E f \in CanonForm : is(f)
           atom == LastAtom(text)
           bound == {n \in Bindable : bindings[n] # NoWord}
           known == Plain(atom) # {} \/ NamesOf(atom) \subseteq bound
           A == Answers(text)
           kinds == {a.kind : a \in A}
           shown == {a.shown : a \in {b \in A : b.kind = "value"}}
           S(w) == Shown(ReadSymbols(text), Table(text), w)
           word == WordIn(text)
           values == EvalAtom(ReadSymbols(text), word)
           head == IF text.kind = "call" THEN HeadMeans(text.name) ELSE "none"
<1>1. /\ head = "cond" => A = {Error("invalid form")}
      /\ head = "quote" => A = {Answer("value", S(word))}
      /\ head = "unknown" => A = {Error("unknown symbol")}
      /\ head \in {"none", "access", "call"} /\ values = {} => A = {Error("unknown symbol")}
      /\ head = "none" /\ values # {} => A = {Answer("value", S(w)) : w \in values}
      /\ head = "access" /\ values # {} => A = {Error("type error")}
      /\ head = "call" /\ values # {} =>
            A = {Answer("value", S(w)) : w \in values} \cup {Error("host failed")}
  BY AnswerCases, Zenon
<1>2. /\ is("cond") => head = "cond"
      /\ is("quote") => head = "quote"
      /\ is("car") \/ is("cdr") => head = "access"
      /\ text.kind = "call" /\ ~special => head = IF text.name \in prims THEN "call" ELSE "unknown"
      /\ text.kind # "call" => head = "none"
  BY HeadCases, Zenon
<1>3. Plain(atom) # {} => values = {word} /\ {S(word)} = Plain(atom)
  BY PlainMeans
<1>4. Plain(atom) = {} =>
          \E n \in Name : /\ NamesOf(atom) = {n}
                          /\ atom.kind = "sym" => atom.name = n
                          /\ S(word) = << "sym", {n} >>
                          /\ values = {bindings[m] : m \in {k \in {n} \cap Bindable : bindings[k] # NoWord}}
  BY NamedMeans
<1>5. atom.kind = "sym" => S(word) = << "sym", {atom.name} >>
  <2>1. CASE Plain(atom) = {}
    BY <1>4, <2>1
  <2>2. CASE Plain(atom) # {} /\ atom.kind = "sym"
    <3>1. IsAtom(atom)
      BY LastIsAtom
    <3>2. Plain(atom) = {<< "sym", {"t"} >>} /\ atom.name = "t"
      BY <2>2, <3>1, PlainOrNamed
    <3> QED
      BY <1>3, <2>2, <3>2
  <2> QED
    BY <2>1, <2>2
<1>6. values # {} <=> known
  <2>1. CASE Plain(atom) # {}
    BY <1>3, <2>1
  <2>2. CASE Plain(atom) = {}
    BY <1>4, <2>2
  <2> QED
    BY <2>1, <2>2
<1>7. text.kind # "call" /\ known /\ Plain(atom) = {} =>
          \A n \in NamesOf(atom) :
              Handle(bindings[n]) \in 1..Len(given) /\ given[Handle(bindings[n])].lifetime = "persistent" =>
                  \A w \in values : S(w)[1] = given[Handle(bindings[n])].kind
  <2> SUFFICES ASSUME Plain(atom) = {}, NEW n \in NamesOf(atom), NEW w \in values,
                      Handle(bindings[n]) \in 1..Len(given),
                      given[Handle(bindings[n])].lifetime = "persistent"
               PROVE  S(w)[1] = given[Handle(bindings[n])].kind
    OBVIOUS
  <2>1. w = bindings[n]
    BY <1>4
  <2> HIDE DEF values
  <2> QED
    BY <2>1, BoundShows
<1>8. MeansText(text) <=>
        /\ is("quote") /\ Plain(atom) # {} => shown = Plain(atom)
        /\ is("quote") /\ atom.kind = "sym" => shown = {<< "sym", {atom.name} >>}
        /\ text.kind # "call" /\ Plain(atom) # {} => shown = Plain(atom)
        /\ text.kind = "call" /\ ~special /\ known /\ text.name \in prims =>
              kinds = {"value", "host failed"} /\ (Plain(atom) # {} => shown = Plain(atom))
        /\ text.kind # "call" /\ known /\ Plain(atom) = {} =>
              \A n \in NamesOf(atom) :
                  LET i == Handle(bindings[n])
                  IN  i \in 1..Len(given) /\ given[i].lifetime = "persistent" =>
                          \A x \in shown : x[1] = given[i].kind
        /\ is("cond") => kinds = {"invalid form"}
        /\ (is("car") \/ is("cdr")) => kinds = {IF known THEN "type error" ELSE "unknown symbol"}
        /\ ~special /\ ~(known /\ (text.kind = "call" => text.name \in prims)) =>
              kinds = {"unknown symbol"}
  BY Zenon DEF MeansText, LastAtom
<1> HIDE DEF A, S, word, values, head, atom, bound
<1>9. \A k : A = {Error(k)} => kinds = {k}
  BY DEF Error, Answer
<1>10. \A v : Answer("value", v).kind = "value" /\ Answer("value", v).shown = v
  BY DEF Answer
<1>11. A = {Answer("value", S(w)) : w \in values} => shown = {S(w) : w \in values}
  <2> HAVE A = {Answer("value", S(w)) : w \in values}
  <2>1. {b \in A : b.kind = "value"} = {Answer("value", S(w)) : w \in values}
    BY <1>10
  <2>2. \A w \in values : Answer("value", S(w)).shown = S(w)
    BY <1>10
  <2> QED
    BY <2>1, <2>2
<1>12. A = {Answer("value", S(w)) : w \in values} \cup {Error("host failed")} =>
          /\ shown = {S(w) : w \in values}
          /\ values # {} => kinds = {"value", "host failed"}
  <2> HAVE A = {Answer("value", S(w)) : w \in values} \cup {Error("host failed")}
  <2>1. \A w \in values : Answer("value", S(w)).kind = "value" /\ Answer("value", S(w)).shown = S(w)
    BY DEF Answer
  <2>2. Error("host failed").kind = "host failed"
    BY DEF Error, Answer
  <2>3. {b \in A : b.kind = "value"} = {Answer("value", S(w)) : w \in values}
    BY ONLY <2>1, <2>2, A = {Answer("value", S(w)) : w \in values} \cup {Error("host failed")}
  <2>4. shown = {S(w) : w \in values}
    BY ONLY <2>1, <2>3 DEF shown
  <2>5. values # {} => kinds = {"value", "host failed"}
    BY ONLY <2>1, <2>2, A = {Answer("value", S(w)) : w \in values} \cup {Error("host failed")} DEF kinds
  <2> QED
    BY <2>4, <2>5
<1> HIDE DEF kinds, shown
<1>13. is("quote") => shown = {S(word)}
  <2> HAVE is("quote")
  <2>1. A = {Answer("value", S(word))}
    BY <1>1, <1>2
  <2>2. {b \in A : b.kind = "value"} = {Answer("value", S(word))}
    BY <1>10, <2>1
  <2>3. shown = {Answer("value", S(word)).shown}
    BY <2>2 DEF shown
  <2> QED
    BY <1>10, <2>3
<1>14. head = "none" /\ known => shown = {S(w) : w \in values}
  BY <1>1, <1>6, <1>11
<1>15. head = "call" /\ known => kinds = {"value", "host failed"} /\ shown = {S(w) : w \in values}
  BY <1>1, <1>6, <1>12
<1>16. Plain(atom) # {} => {S(w) : w \in values} = Plain(atom)
  BY <1>3
<1> HIDE DEF known, is
<1>17. Plain(atom) # {} => known
  BY DEF known
<1>18. /\ is("cond") => kinds = {"invalid form"}
       /\ (is("car") \/ is("cdr")) => kinds = {IF known THEN "type error" ELSE "unknown symbol"}
  BY <1>1, <1>2, <1>6, <1>9
<1>19. ~special /\ ~(known /\ (text.kind = "call" => text.name \in prims)) => kinds = {"unknown symbol"}
  BY <1>1, <1>2, <1>6, <1>9
<1>20. /\ is("quote") /\ Plain(atom) # {} => shown = Plain(atom)
       /\ is("quote") /\ atom.kind = "sym" => shown = {<< "sym", {atom.name} >>}
  BY <1>3, <1>5, <1>13
<1>21. text.kind # "call" /\ Plain(atom) # {} => shown = Plain(atom)
  BY <1>2, <1>14, <1>16, <1>17
<1>22. text.kind = "call" /\ ~special /\ known /\ text.name \in prims =>
          kinds = {"value", "host failed"} /\ (Plain(atom) # {} => shown = Plain(atom))
  BY <1>2, <1>15, <1>16
<1>23. text.kind # "call" /\ known /\ Plain(atom) = {} =>
          \A n \in NamesOf(atom) :
              LET i == Handle(bindings[n])
              IN  i \in 1..Len(given) /\ given[i].lifetime = "persistent" =>
                      \A x \in shown : x[1] = given[i].kind
  BY <1>2, <1>7, <1>14
<1> QED
  BY <1>8, <1>18, <1>19, <1>20, <1>21, <1>22, <1>23

\* In every session, whatever was registered, bound, wrapped and evaluated
\* before, what a text is answered means what the text says.
THEOREM TextsMeanWhatTheySay == Spec => []AnswersMeanText
<1>1. Init => TableOneToOne(symbols) /\ SlotsAgree(boxed, given)
  BY NewTable, EmptySlots DEF Init
<1>2. TableOneToOne(symbols) /\ [Next]_vars => TableOneToOne(symbols)'
  BY TableStep
<1>3. SlotsAgree(boxed, given) /\ [Next]_vars => SlotsAgree(boxed, given)'
  BY SlotsStepPrimed
<1>4. TableOneToOne(symbols) /\ SlotsAgree(boxed, given) => AnswersMeanText
  BY TextMeans DEF AnswersMeanText
<1> QED
  BY <1>1, <1>2, <1>3, <1>4, PTL DEF Spec
=============================================================================
