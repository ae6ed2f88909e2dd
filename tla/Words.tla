-------------------------------- MODULE Words --------------------------------
(***************************************************************************)
(* The 64-bit words of host-runtime/src/word.rs: a tag in the three low    *)
(* bits, a payload above it.  The width is a parameter, so that TLC meets  *)
(* every word and both ends of i64.                                        *)
(***************************************************************************)
EXTENDS Integers

CONSTANT Payloads   \* how many payloads a word can hold; 2^61 in the code

ASSUME PayloadsAssumption == Payloads \in Nat /\ Payloads % 2 = 0 /\ Payloads > 2

WordSize == 8 * Payloads
AnyWord == 0..(WordSize - 1)
I64Min == -(4 * Payloads)
I64Max == 4 * Payloads - 1
I64 == I64Min..I64Max

\* Arithmetic of a build without overflow checks, and `as u64', `as i64'.
Wrap(x) == ((x + 4 * Payloads) % WordSize) - 4 * Payloads
AsU64(x) == x % WordSize
AsI64(w) == Wrap(w)

\* Tag of wsm_os_target.
TAG_CONS == 0
TAG_NIL == 1
TAG_FIXNUM == 3
TAG_SYMBOL == 4
TAG_BOXED == 7

tag_of(w) == w % 8

WORD_NIL == TAG_NIL

\* value << 3 loses the bits that do not fit.
encode_fixnum(value) == AsU64(Wrap(8 * value) + TAG_FIXNUM)

\* A decode that shifts in zeros, for the mutants.
decode_fixnumUnsigned(w) == w \div 8

\* An arithmetic shift: the sign is kept.
decode_fixnum(w) == AsI64(w) \div 8

\* The id of `t', and the largest one (SYMBOL_ID_MAX).
SYM_T_ID == Payloads - 1

SymbolWord(id) == 8 * id + TAG_SYMBOL
SYM_T_WORD == SymbolWord(SYM_T_ID)
IdOf(w) == w \div 8

\* wsm_os_target::encode_boxed and decode_boxed: handles start at 1.
BoxedWord(handle) == 8 * handle + TAG_BOXED
Handle(w) == IF tag_of(w) = TAG_BOXED THEN w \div 8 ELSE 0

-----------------------------------------------------------------------------
(* Fractions. *)

Abs(x) == IF x < 0 THEN -x ELSE x

\* Rust's / and %: towards zero, the remainder with the dividend's sign.
Quotient(a, b) == LET q == Abs(a) \div Abs(b) IN IF (a < 0) # (b < 0) THEN -q ELSE q
Remainder(a, b) == a - b * Quotient(a, b)

gcd[p \in Int \X Int] ==
    IF p[2] = 0 THEN p[1] ELSE gcd[<< p[2], Remainder(p[1], p[2]) >>]

\* A reduce that leaves the sign where it is, for the mutants.
reduceSigned(numerator, denominator) ==
    LET g == gcd[<< Wrap(Abs(numerator)), denominator >>]
        divisor == IF g > 1 THEN g ELSE 1
    IN  << Quotient(numerator, divisor), Quotient(denominator, divisor) >>

\* reduce: the sign goes to the numerator, then both are divided by the
\* greatest common divisor.  I64Min has no absolute value: it stays negative.
reduce(numerator, denominator) ==
    LET sign == IF denominator < 0 THEN -1 ELSE 1
        n == Wrap(numerator * sign)
        d == Wrap(denominator * sign)
        g == gcd[<< Wrap(Abs(n)), d >>]
        divisor == IF g > 1 THEN g ELSE 1
    IN  << Quotient(n, divisor), Quotient(d, divisor) >>

\* Where a build with overflow checks panics instead.
Overflows(numerator, denominator) ==
    \/ denominator = I64Min
    \/ numerator = I64Min
=============================================================================
