--------------------------- MODULE CanonSpellings ---------------------------
(***************************************************************************)
(* The build script of host-runtime (build.rs): which names the evaluator  *)
(* takes for quote, car, cdr and cond is read out of the language's        *)
(* registry when the library is built.  A registry file is a sequence of   *)
(* lexemes: parentheses, atoms, blanks, ";" and ends of line.              *)
(***************************************************************************)
EXTENDS Naturals, Sequences, SequencesExt, FiniteSetsExt

\* The registry file is not there.
Absent == << "absent" >>

\* Blanks go, and everything from a ";" to the end of its line.
tokenize(source) ==
    LET step(s, c) ==
            CASE s.comment -> [s EXCEPT !.comment = c # "eol"]
              [] ~s.comment /\ c = ";" -> [s EXCEPT !.comment = TRUE]
              [] ~s.comment /\ c \in {" ", "eol"} -> s
              [] OTHER -> [s EXCEPT !.tokens = Append(@, c)]
    IN  FoldLeft(step, [tokens |-> << >>, comment |-> FALSE], source).tokens

-----------------------------------------------------------------------------
(* Sexpr *)

Atom(a) == [list |-> FALSE, atom |-> a, items |-> << >>]
List(items) == [list |-> TRUE, atom |-> "", items |-> items]

\* An expression is complete: an element of the innermost open list, or all.
Put(e, open) ==
    IF open = << >> THEN [open |-> << >>, root |-> << e >>, failed |-> FALSE]
    ELSE [open |-> [open EXCEPT ![Len(open)] = Append(@, e)], root |-> << >>, failed |-> FALSE]

\* parse, called once: the first expression; what follows it is not looked at.
\* No expression (<< >>) is a panic: a ")" too many, or the end too soon.
parse(tokens) ==
    LET step(s, t) ==
            CASE s.failed \/ s.root # << >> -> s
              [] ~s.failed /\ s.root = << >> /\ t = "(" -> [s EXCEPT !.open = Append(@, << >>)]
              [] ~s.failed /\ s.root = << >> /\ t = ")" ->
                    IF s.open = << >> THEN [s EXCEPT !.failed = TRUE]
                    ELSE Put(List(Last(s.open)), Front(s.open))
              [] OTHER -> Put(Atom(t), s.open)
    IN  FoldLeft(step, [open |-> << >>, root |-> << >>, failed |-> FALSE], tokens).root

-----------------------------------------------------------------------------
\* The entries of the registry with this id.
EntriesFor(root, id) ==
    {i \in 2..Len(root.items) :
        LET e == root.items[i]
        IN  e.list /\ e.items # << >> /\ ~e.items[1].list /\ e.items[1].atom = id}

\* A surface of which the status is not looked at, for the mutants.
SpelledAny(surface) ==
    surface.list /\ Len(surface.items) >= 2 /\ ~surface.items[2].list

\* (lang word) or (lang word status ...), unless the status is `missing'.
Spelled(surface) ==
    /\ surface.list /\ Len(surface.items) >= 2
    /\ ~surface.items[2].list
    /\ Len(surface.items) >= 3 => surface.items[3].list \/ surface.items[3].atom # "missing"

\* The words of the first entry; no entry, or none of its words, is a panic ({}).
spellings_for_id(root, id) ==
    IF EntriesFor(root, id) = {} THEN {}
    ELSE LET fields == root.items[Min(EntriesFor(root, id))].items
         IN  {fields[j].items[2].atom : j \in {k \in 2..Len(fields) : Spelled(fields[k])}}

CanonId == [quote |-> "00000001", car |-> "00000101", cdr |-> "00000110", cond |-> "00000111"]
CanonForm == DOMAIN CanonId

Failed == [f \in CanonForm |-> {}]

\* main: the .lisp file before the .wsm file; one table that cannot be made
\* fails the build, and no table is written.
Generated(lisp, wsm) ==
    LET source == IF lisp # Absent THEN lisp ELSE wsm
        root == IF source = Absent THEN << >> ELSE parse(tokenize(source))
        table(form) == spellings_for_id(root[1], CanonId[form])
    IN  IF root = << >> \/ ~root[1].list \/ \E f \in CanonForm : table(f) = {}
        THEN Failed
        ELSE [f \in CanonForm |-> table(f)]
=============================================================================
