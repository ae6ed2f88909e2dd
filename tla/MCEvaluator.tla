----------------------------- MODULE MCEvaluator -----------------------------
(***************************************************************************)
(* Evaluator for TLC: source texts as trees, and what read_one makes of    *)
(* them.                                                                   *)
(***************************************************************************)
EXTENDS Evaluator, SequencesExt

Tree(tag, name, at, items) == [tag |-> tag, name |-> name, at |-> at, items |-> items]
Leaf(w) == Tree(w.tag, w.name, w.at, << >>)
List(items) == Tree("list", "", 0, items)
Sym(name) == Leaf(Symbol(name))
Fix(n) == Leaf(Word("fix", "", n))
Literal(k) == Leaf(Boxed(k))          \* the k-th string of the text
Empty == List(<< >>)

-----------------------------------------------------------------------------
(* read_one: the cells of a list follow those of its elements, last first. *)

RECURSIVE Read(_, _)
RECURSIVE ReadAll(_, _)

Read(t, cells) ==
    IF t.tag # "list" THEN [cells |-> cells, word |-> Word(t.tag, t.name, t.at)]
    ELSE LET r == ReadAll(t.items, cells)
             k == Len(t.items)
             b == Len(r.cells)
             new == [m \in 1..k |->
                        [car |-> r.words[k - m + 1],
                         cdr |-> IF m = 1 THEN Nil ELSE Word("cons", "", b + m - 1)]]
         IN  [cells |-> r.cells \o new, word |-> IF k = 0 THEN Nil ELSE Word("cons", "", b + k)]

ReadAll(ts, cells) ==
    IF ts = << >> THEN [cells |-> cells, words |-> << >>]
    ELSE LET first == Read(Head(ts), cells)
             rest == ReadAll(Tail(ts), first.cells)
         IN  [cells |-> rest.cells, words |-> << first.word >> \o rest.words]

RECURSIVE Literals(_)
Literals(t) ==
    IF t.tag = "list" THEN FoldLeft(LAMBDA n, x : n + Literals(x), 0, t.items)
    ELSE IF t.tag = "boxed" THEN 1 ELSE 0

FormOf(t) ==
    LET r == Read(t, << >>)
    IN  [cells |-> r.cells, root |-> r.word, strings |-> Literals(t)]

\* The tree of a word of these cells.
RECURSIVE Items(_, _)
RECURSIVE Shown(_, _)
Items(w, cells) ==
    IF w = Nil THEN << >> ELSE << Shown(cells[w.at].car, cells) >> \o Items(cells[w.at].cdr, cells)
Shown(w, cells) == IF w.tag \in {"cons", "nil"} THEN List(Items(w, cells)) ELSE Leaf(w)

-----------------------------------------------------------------------------
(* The texts: heads and arguments that meet every branch, combined. *)

Heads == {Sym("quote"), Sym("cond"), Sym("car"), Sym("cdr"), Sym("f"), Sym("g"), Fix(1)}
Quoted == List(<< Sym("quote"), List(<< Fix(1), Sym("player") >>) >>)
CallF == List(<< Sym("f") >>)
Clause == List(<< CallF, Sym("player") >>)
Args == {Empty, Sym("player"), Quoted, CallF, Clause}

Texts ==
    {Fix(0), Sym("t"), Sym("player"), Sym("x"), Empty, Literal(1),
     List(<< Sym("f"), Literal(1), List(<< Sym("quote"), List(<< Literal(2) >>) >>) >>),
     List(<< Sym("cond"), List(<< Empty, Fix(1) >>), List(<< Sym("t"), Literal(1) >>) >>),
     List(<< Sym("quote"), Fix(1), Fix(2) >>)}
    \cup {List(<< h >>) : h \in Heads}
    \cup {List(<< h, a >>) : h \in Heads \ {Sym("g"), Fix(1)}, a \in Args}
    \cup {List(<< h, CallF >>) : h \in {Sym("g"), Fix(1)}}
    \cup {List(<< Sym("f"), a, b >>) : a, b \in {Sym("player"), CallF}}
    \cup {List(<< Sym("cond"), Clause, b >>) : b \in {Sym("player"), Clause, List(<< Empty, CallF >>)}}

MCForm == {FormOf(t) : t \in Texts}

\* The cells of a text are that text: what a form means is what its text means.
ASSUME TextAssumption ==
    \A t \in Texts : Shown(FormOf(t).root, FormOf(t).cells) = t
=============================================================================
