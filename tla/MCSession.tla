------------------------------ MODULE MCSession ------------------------------
(***************************************************************************)
(* Session for TLC: a small registry, intact and damaged by one token, and *)
(* the host's inputs.                                                      *)
(***************************************************************************)
EXTENDS Session, TLC

Surface(lang, word, rest) == << "(", lang, word >> \o rest \o << ")" >>
EntryOf(id, surfaces) == << "(", id >> \o FlattenSeq(surfaces) \o << ")", "eol" >>

\* Surfaces with and without a status, missing ones, one that is no word, an
\* entry of another form and a second entry of the same.
Good == << ";", "(", "registry", "eol", "(", "sr/1" >>
     \o EntryOf("00000001", << Surface("en", "quote", << "ok" >>), Surface("sa", "-", << "missing" >>) >>)
     \o EntryOf("00000010", << Surface("en", "atom", << "ok" >>) >>)
     \o EntryOf("00000101", << Surface("en", "car", << >>) >>)
     \o EntryOf("00000110", << Surface("en", "cdr", << "ok", "extra" >>) >>)
     \o EntryOf("00000111", << << "(", "en", "(", ")", ")" >>, Surface("en", "cond", << "ok" >>) >>)
     \o EntryOf("00000111", << Surface("uk", "umova", << "ok" >>) >>)
     \o << ")" >>

Words1 == [quote |-> {"quote"}, car |-> {"car"}, cdr |-> {"cdr"}, cond |-> {"cond"}]

\* The comment's start, or the id, the word, its status or `missing' lost in the
\* first entry, or a parenthesis lost or added anywhere.
Damaged ==
    {RemoveAt(Good, i) : i \in {j \in 1..Len(Good) : j \in {1, 8, 11, 12, 17} \/ Good[j] \in {"(", ")"}}}
    \cup {InsertAt(Good, i, p) : i \in 1..Len(Good), p \in {"(", ")"}}

MCRegistry ==
    {[lisp |-> Good, wsm |-> Absent, words |-> Words1, intact |-> TRUE],
     [lisp |-> Absent, wsm |-> Good, words |-> Words1, intact |-> TRUE],
     [lisp |-> Absent, wsm |-> Absent, words |-> Words1, intact |-> FALSE]}
    \cup {[lisp |-> s, wsm |-> Good, words |-> Words1, intact |-> FALSE] : s \in Damaged}

MCDigits(n) == ToString(n)

Int1(n) == [kind |-> "int", n |-> n]
Sym(name) == [kind |-> "sym", name |-> name]
CallOf(name, arg) == [kind |-> "call", name |-> name, arg |-> << arg >>]

Numbers == {-32, -5, -4, -1, 3, 4, 31, 32}

MCText ==
    {Int1(n) : n \in Numbers} \cup {Sym("t"), Sym("f"), [kind |-> "nil"], [kind |-> "str"]}
    \cup {CallOf("quote", a) : a \in {Sym("f"), Sym("t"), Int1(-5), Int1(32)}}
    \cup {CallOf("f", a) : a \in {Sym("f"), Int1(-1), Int1(32)}}
    \cup {CallOf("car", a) : a \in {Sym("f"), Int1(3)}}

MCBoundWord == {BoxedWord(1)}
MCFraction == {<< 6, -4 >>, << -32, -3 >>, << 1, 0 >>}
=============================================================================
