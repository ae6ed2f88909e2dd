------------------------------- MODULE Session -------------------------------
(***************************************************************************)
(* A host's session (host-runtime/src/ffi.rs): the library is built from   *)
(* the registry (CanonSpellings), then a host opens a session, registers   *)
(* primitives, binds names, wraps and unwraps values and evaluates texts,  *)
(* in any order, on 64-bit words (Words).                                  *)
(*                                                                         *)
(* Texts here are single atoms and calls with one atom: what nested forms  *)
(* do is the Evaluator's subject.  Calls that only read the session        *)
(* (unwrapping, and what a text answers) are operators of its state.       *)
(***************************************************************************)
EXTENDS Words, CanonSpellings, FiniteSets

CONSTANTS
    Registry,     \* what the library may be built from: [lisp, wsm, words, intact]
    Name,         \* the symbols of the texts, but for `t'
    Digits(_),    \* the name of an integer that i64 cannot hold
    Registrable,  \* names a host registers primitives for
    Bindable,     \* names a host binds
    BoundWord,    \* words a host binds; no cons, see eval_str
    Token,        \* opaque handles
    Fraction,     \* numerators and denominators
    Text,         \* texts given to wsm_eval_string
    MaxSlots      \* bound: boxed values

ASSUME SessionAssumption ==
    /\ IsFiniteSet(Name) /\ "t" \notin Name /\ Cardinality(Name) < SYM_T_ID
    /\ Registrable \subseteq Name /\ Bindable \subseteq Name
    /\ BoundWord \subseteq {w \in AnyWord : tag_of(w) # TAG_CONS}
    /\ Fraction \subseteq I64 \X I64
    /\ MaxSlots \in Nat /\ MaxSlots < Payloads

NoWord == WordSize   \* a name that is not bound

VARIABLES
    source,    \* the registry, until the library is built
    tables,    \* QUOTE_SPELLINGS and the others
    checks,    \* the build checks for overflow (cargo's dev profile)
    live,      \* the session exists
    symbols,   \* SymbolTable: [ids, next]; id 0 is none
    boxed,     \* BoxedTable.values: [kind, value, lifetime]
    given,     \* history: what the host asked to wrap, by slot
    prims,     \* Env.primitives
    bindings   \* Env.bindings

buildVars == << source, tables, checks >>
session == << symbols, boxed, given, prims, bindings >>
vars == << buildVars, live, session >>

NewSymbols == [ids |-> [n \in Name |-> 0], next |-> 1]

Init ==
    /\ source \in {<< r >> : r \in Registry} /\ tables = Failed /\ checks \in BOOLEAN
    /\ live = FALSE
    /\ symbols = NewSymbols
    /\ boxed = << >> /\ given = << >> /\ prims = {}
    /\ bindings = [n \in Bindable |-> NoWord]

\* build.rs: without its tables the library does not compile.
Build ==
    /\ source # << >>
    /\ tables' = Generated(source[1].lisp, source[1].wsm)
    /\ source' = << >>
    /\ UNCHANGED << checks, live, session >>

-----------------------------------------------------------------------------
(* SymbolTable *)

\* An intern that forgets to count, for the mutants.
internReuses(s, name) ==
    IF name = "t" \/ s.ids[name] # 0 THEN s
    ELSE [ids |-> [s.ids EXCEPT ![name] = s.next], next |-> s.next]

\* The table after intern; `t' never takes an id.
intern(s, name) ==
    IF name = "t" \/ s.ids[name] # 0 THEN s
    ELSE [ids |-> [s.ids EXCEPT ![name] = s.next], next |-> s.next + 1]

WordOf(s, name) == IF name = "t" THEN SYM_T_WORD ELSE SymbolWord(s.ids[name])

\* The names a word may be given; none is None.
name_of(s, w) ==
    IF w = SYM_T_WORD THEN {"t"} ELSE {n \in Name : s.ids[n] # 0 /\ s.ids[n] = IdOf(w)}

-----------------------------------------------------------------------------
(* BoxedTable *)

Value(kind, value, lifetime) == [kind |-> kind, value |-> value, lifetime |-> lifetime]
Gone == Value("none", << >>, "none")

\* entry; a word of another tag, of no slot or of an emptied one has none.
entry(table, w) == IF Handle(w) \in 1..Len(table) THEN table[Handle(w)] ELSE Gone

kind_of(table, w) == entry(table, w).kind

\* get_string, get_game_handle, get_rational: {} is None.
Get(kind, w) == IF kind_of(boxed, w) = kind THEN {entry(boxed, w).value} ELSE {}

Cleared(table) ==
    [i \in 1..Len(table) |-> IF table[i].lifetime = "transient" THEN Gone ELSE table[i]]

-----------------------------------------------------------------------------
(* The host's calls.  Each is refused, before it changes anything, for a    *)
(* null pointer or for text that is not UTF-8: that is no step.             *)

wsm_session_init ==
    /\ ~live /\ tables # Failed
    /\ live' = TRUE
    /\ UNCHANGED << buildVars, session >>

wsm_session_free ==
    /\ live
    /\ live' = FALSE
    /\ symbols' = NewSymbols
    /\ boxed' = << >> /\ given' = << >> /\ prims' = {}
    /\ bindings' = [n \in Bindable |-> NoWord]
    /\ UNCHANGED buildVars

wsm_register_primitive(name) ==
    /\ live
    /\ prims' = prims \cup {name}
    /\ UNCHANGED << buildVars, live, symbols, boxed, given, bindings >>

wsm_bind(name, word) ==
    /\ live
    /\ bindings' = [bindings EXCEPT ![name] = word]
    /\ UNCHANGED << buildVars, live, symbols, boxed, given, prims >>

\* BoxedTable::add of a value; `asked' is what the host passed in.
Add(kind, value, lifetime, asked) ==
    /\ live /\ Len(boxed) < MaxSlots
    /\ boxed' = Append(boxed, Value(kind, value, lifetime))
    /\ given' = Append(given, Value(kind, asked, lifetime))
    /\ UNCHANGED << buildVars, live, symbols, prims, bindings >>

wsm_wrap_game_handle(token) == Add("handle", << token >>, "persistent", << token >>)

wsm_wrap_transient_string == Add("str", << "text" >>, "transient", << "text" >>)

\* add_rational, add_transient_rational; a panic in reduce leaves the table alone.
AddFraction(f, lifetime) ==
    /\ ~(checks /\ Overflows(f[1], f[2]))
    /\ Add("rational", reduce(f[1], f[2]), lifetime, f)

\* Refused with -1 for a zero denominator, and with -2 after a panic.
wsm_wrap_rational(f) == f[2] # 0 /\ AddFraction(f, "persistent")

wsm_wrap_transient_rational(f) == f[2] # 0 /\ AddFraction(f, "transient")

\* wsm_unwrap_game_handle, wsm_unwrap_rational: what 0 is answered with; {}
\* is 1, the wrong kind.
wsm_unwrap_game_handle(w) == Get("handle", w)
wsm_unwrap_rational(w) == Get("rational", w)

-----------------------------------------------------------------------------
(* wsm_eval_string *)

\* The atoms of a text, in the order they are read.
Atoms(text) == IF text.kind = "call" THEN << [kind |-> "sym", name |-> text.name], text.arg[1] >>
               ELSE << text >>

\* The name atom_to_word interns, if it interns one: an integer that i64
\* cannot hold is a symbol.
NamesOf(atom) ==
    IF atom.kind = "sym" THEN {atom.name}
    ELSE IF atom.kind = "int" /\ atom.n \notin I64 THEN {Digits(atom.n)} ELSE {}

IsAtom(a) ==
    \/ a.kind \in {"nil", "str"}
    \/ a.kind = "sym" /\ a.name \in Name \cup {"t"}
    \/ a.kind = "int" /\ a.n \in Int /\ (a.n \notin I64 => Digits(a.n) \in Name)

ASSUME TextAssumption ==
    \A text \in Text :
        \/ IsAtom(text)
        \/ text.kind = "call" /\ text.name \in Name \cup {"t"} /\ IsAtom(text.arg[1])

InternAtom(s, atom) ==
    IF NamesOf(atom) = {} THEN s ELSE intern(s, CHOOSE n \in NamesOf(atom) : TRUE)

\* read_one: the symbols the text leaves in the table.
ReadSymbols(text) ==
    LET first == InternAtom(symbols, Atoms(text)[1])
    IN  IF Len(Atoms(text)) = 1 THEN first ELSE InternAtom(first, Atoms(text)[2])

Literal == Value("str", << "text" >>, "transient")

\* How many literals the text has, and the table when they are read.
Literals(text) == Cardinality({i \in 1..Len(Atoms(text)) : Atoms(text)[i].kind = "str"})
Table(text) == Cleared(boxed) \o [i \in 1..Literals(text) |-> Literal]

atom_to_word(s, atom, table) ==
    CASE atom.kind = "nil" -> WORD_NIL
      [] atom.kind = "str" -> BoxedWord(Len(table))
      [] atom.kind = "int" /\ atom.n \in I64 -> encode_fixnum(atom.n)
      [] OTHER -> WordOf(s, CHOOSE n \in NamesOf(atom) : TRUE)

Answer(kind, shown) == [kind |-> kind, shown |-> shown]
Error(kind) == Answer(kind, << >>)

\* value_to_string
Shown(s, table, w) ==
    CASE tag_of(w) = TAG_NIL -> << "nil" >>
      [] tag_of(w) = TAG_FIXNUM -> << "int", decode_fixnum(w) >>
      [] tag_of(w) = TAG_SYMBOL -> << "sym", name_of(s, w) >>
      [] tag_of(w) = TAG_BOXED /\ kind_of(table, w) = "rational" ->
            << "rational", entry(table, w).value >>
      [] tag_of(w) = TAG_BOXED /\ kind_of(table, w) # "rational" -> << kind_of(table, w) >>
      [] OTHER -> << "unprintable" >>

\* eval of an atom: the word, or none for an unknown symbol.
EvalAtom(s, w) ==
    IF tag_of(w) # TAG_SYMBOL THEN {w}
    ELSE IF "t" \in name_of(s, w) THEN {w}
    ELSE {bindings[n] : n \in {m \in name_of(s, w) \cap Bindable : bindings[m] # NoWord}}

\* eval_list: what the head of a list stands for; the special forms come first.
HeadMeans(name) ==
    LET special == UNION {tables[f] : f \in CanonForm}
    IN  CASE name \in tables.cond -> "cond"
          [] name \in tables.quote \ tables.cond -> "quote"
          [] name \in (tables.car \cup tables.cdr) \ (tables.cond \cup tables.quote) -> "access"
          [] name \in prims \ special -> "call"
          [] OTHER -> "unknown"

\* What wsm_eval_string answers.  A primitive answers its argument, or fails;
\* a clause of cond that is an atom, and an accessor's argument that is no
\* pair, are refused.
Answers(text) ==
    LET s == ReadSymbols(text)
        table == Table(text)
        value(w) == Answer("value", Shown(s, table, w))
        atoms == Atoms(text)
        word == atom_to_word(s, atoms[Len(atoms)], table)
        values == EvalAtom(s, word)
        head == IF text.kind = "call" THEN HeadMeans(text.name) ELSE "none"
    IN  CASE head = "cond" -> {Error("invalid form")}
          [] head = "quote" -> {value(word)}
          [] head = "unknown" \/ (head \in {"none", "access", "call"} /\ values = {}) ->
                {Error("unknown symbol")}
          [] head = "none" /\ values # {} -> {value(w) : w \in values}
          [] head = "access" /\ values # {} -> {Error("type error")}
          [] head = "call" /\ values # {} -> {value(w) : w \in values} \cup {Error("host failed")}

\* eval_str: clear_transient, read, evaluate, print, clear_transient.
wsm_eval_string(text) ==
    /\ live
    /\ Len(Table(text)) <= MaxSlots
    /\ symbols' = ReadSymbols(text)
    /\ boxed' = Cleared(Table(text))
    /\ given' = given \o [i \in 1..Literals(text) |-> Literal]
    /\ UNCHANGED << buildVars, live, prims, bindings >>

-----------------------------------------------------------------------------
Call ==
    \/ wsm_session_init \/ wsm_session_free \/ wsm_wrap_transient_string
    \/ \E n \in Registrable : wsm_register_primitive(n)
    \/ \E n \in Bindable, w \in BoundWord : wsm_bind(n, w)
    \/ \E t \in Token : wsm_wrap_game_handle(t)
    \/ \E f \in Fraction : wsm_wrap_rational(f) \/ wsm_wrap_transient_rational(f)
    \/ \E t \in Text : wsm_eval_string(t)

Next == Build \/ Call

Spec == Init /\ [][Next]_vars

-----------------------------------------------------------------------------
\* A registry that is intact gives every form exactly its words; one that lost
\* or gained a token fails the build, or at least gives no form a word of
\* another form.
BuildExact ==
    [][tables' # tables =>
          LET r == source[1]
          IN  /\ r.intact => tables' = r.words
              /\ \A f, g \in CanonForm : f # g => tables'[f] \cap r.words[g] = {}]_vars

\* The names that have an id; the ids in use are those below `next', one each.
Interned(s) == {n \in Name : s.ids[n] # 0}

TableOneToOne(s) ==
    /\ s = [ids |-> s.ids, next |-> s.next]
    /\ s.ids \in [Name -> Nat]
    /\ s.next = Cardinality(Interned(s)) + 1
    /\ \A n \in Name : s.ids[n] < s.next
    /\ \A m, n \in Interned(s) : s.ids[m] = s.ids[n] => m = n

\* The symbol table is one to one, and apart from `t': the word of a name,
\* whenever it was interned, is shown and evaluated as that name.
SymbolsKeepNames ==
    /\ \A n \in Name : symbols.ids[n] # 0 =>
          /\ WordOf(symbols, n) \in AnyWord \ {SYM_T_WORD}
          /\ name_of(symbols, WordOf(symbols, n)) = {n}
    /\ name_of(symbols, SYM_T_WORD) = {"t"}

\* Neither number is the one without an absolute value.
Ordinary(f) == f[1] # I64Min /\ f[2] # I64Min

Divides(k, n) == Remainder(n, k) = 0

Lowest(f) == f[2] > 0 /\ \A k \in 2..I64Max : ~(Divides(k, f[1]) /\ Divides(k, f[2]))

\* Whatever word a host unwraps, it gets what it wrapped in that slot or is
\* refused: a handle verbatim, a fraction only for a fraction.  What was wrapped
\* to stay is there for the whole session, whatever texts are evaluated.
SlotsKept ==
    \A w \in AnyWord :
        LET i == Handle(w)
        IN  /\ \A h \in wsm_unwrap_game_handle(w) :
                  i \in 1..Len(given) /\ given[i].kind = "handle" /\ given[i].value = h
            /\ wsm_unwrap_rational(w) # {} => i \in 1..Len(given) /\ given[i].kind = "rational"
            /\ i \in 1..Len(given) /\ given[i].lifetime = "persistent" =>
                  wsm_unwrap_game_handle(w) \cup wsm_unwrap_rational(w) # {}

\* A fraction comes back with equal value, in lowest terms and with a positive
\* denominator - if neither number was the least i64, for which reduce has no
\* absolute value.
FractionsExact ==
    \A w \in AnyWord : \A f \in wsm_unwrap_rational(w) :
        LET asked == given[Handle(w)].value
        IN  Ordinary(asked) => Lowest(f) /\ f[1] * asked[2] = asked[1] * f[2]

\* Both: no sequence of wraps, evaluations and sessions makes a host unwrap
\* anything but what it wrapped.
UnwrapSound == SlotsKept /\ FractionsExact

\* The integer a literal denotes: itself if it has 61 bits, else the one with
\* the same low 61 bits.
Kept(n) ==
    CHOOSE m \in -(Payloads \div 2)..(Payloads \div 2 - 1) : (m - n) % Payloads = 0

\* The text of an atom that is a value, without words: an integer, or `t'.
Plain(atom) ==
    CASE atom.kind = "int" /\ atom.n \in I64 -> {<< "int", Kept(atom.n) >>}
      [] atom.kind = "nil" -> {<< "nil" >>}
      [] atom.kind = "str" -> {<< "str" >>}
      [] atom.kind = "sym" /\ atom.name = "t" -> {<< "sym", {"t"} >>}
      [] OTHER -> {}

\* A text's answers follow from the registry, the host's calls and the text.
MeansText(text) ==
    LET is(f) == text.kind = "call" /\ text.name \in tables[f]
        special == \E f \in CanonForm : is(f)
        atom == Atoms(text)[Len(Atoms(text))]
        known == Plain(atom) # {} \/ NamesOf(atom) \subseteq {n \in Bindable : bindings[n] # NoWord}
        kinds == {a.kind : a \in Answers(text)}
        shown == {a.shown : a \in {b \in Answers(text) : b.kind = "value"}}
    IN  /\ is("quote") /\ Plain(atom) # {} => shown = Plain(atom)
        /\ is("quote") /\ atom.kind = "sym" => shown = {<< "sym", {atom.name} >>}
        /\ text.kind # "call" /\ Plain(atom) # {} => shown = Plain(atom)
        /\ text.kind = "call" /\ ~special /\ known /\ text.name \in prims =>
              kinds = {"value", "host failed"} /\ (Plain(atom) # {} => shown = Plain(atom))
        /\ text.kind # "call" /\ known /\ Plain(atom) = {} =>
              \A n \in NamesOf(atom) :
                  LET i == Handle(bindings[n])
                  IN  i \in 1..Len(given) /\ given[i].lifetime = "persistent" =>
                          \A x \in shown : x[1] = given[i].kind
        /\ is("cond") => kinds = {"invalid form"}
        /\ (is("car") \/ is("cdr")) => kinds = {IF known THEN "type error" ELSE "unknown symbol"}
        /\ ~special /\ ~(known /\ (text.kind = "call" => text.name \in prims)) =>
              kinds = {"unknown symbol"}

\* The registry gives no word to two forms.
Unambiguous == \A f, g \in CanonForm : f # g => tables[f] \cap tables[g] = {}

\* What a text is answered follows from the registry, the host's calls and the
\* text alone: a literal of 61 bits comes back as it was written, a wider one
\* as the number with its low 61 bits, one beyond i64 is a symbol, a word of the
\* registry is that form whatever is registered or bound under it, another
\* name is the primitive registered for it, a bound name shows the value that
\* was wrapped for it, and anything else is unknown.
AnswersMeanText == live /\ Unambiguous => \A text \in Text : MeansText(text)
=============================================================================
