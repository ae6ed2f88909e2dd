------------------------------- MODULE Reader -------------------------------
(***************************************************************************)
(* Reading a form in the host session (host-runtime): eval_str of ffi.rs   *)
(* around read_one of reader.rs, the cons arena of asm/nucleus-win64.s,    *)
(* the transient strings of word.rs and the printer.  Evaluation allocates *)
(* nothing in the arena and is left out: a form that is read is printed    *)
(* as it stands.                                                           *)
(*                                                                         *)
(* The lexer's characters are abstracted to its four kinds of token.  The  *)
(* mutual recursion of parse_form and parse_list is a stack: one entry per *)
(* list that is open, holding the words read in it so far.                 *)
(***************************************************************************)
EXTENDS Naturals, Sequences, FiniteSets

CONSTANTS
    MaxTokens,   \* bound: tokens of one source text
    MaxForms,    \* bound: calls of wsm_eval_string
    ArenaCells   \* ARENA_CELLS

ASSUME ReaderAssumption == MaxTokens \in Nat /\ MaxForms \in Nat /\ ArenaCells \in Nat

TokenKind == {"(", ")", "atom", "str"}

VARIABLES
    pc,         \* "idle", "preflight", "parse", "print" or "dead" (exit 97)
    forms,      \* calls of wsm_eval_string so far
    tokens,     \* what tokenize made of the source
    pos,        \* tokens consumed
    stack,      \* the lists that are open, outermost first: their words
    word,       \* what parse_form returned
    arena,      \* the cells wsm_cons has given out since the last reset
    slots,      \* BoxedTable: entries ever added
    transient,  \* BoxedTable: the entries that hold a string of this form
    outcome     \* how the last form ended

inputVars == << forms, tokens >>
parseVars == << pos, stack, word >>
boxedVars == << slots, transient >>
vars == << pc, inputVars, parseVars, arena, boxedVars, outcome >>

Nil == [tag |-> "nil", at |-> 0]
Atom == [tag |-> "atom", at |-> 0]
Str(n) == [tag |-> "str", at |-> n]
Cons(n) == [tag |-> "cons", at |-> n]

Init ==
    /\ pc = "idle" /\ forms = 0
    /\ tokens = << >> /\ pos = 0 /\ stack = << >> /\ word = Nil
    /\ arena = << >> /\ slots = 0 /\ transient = {}
    /\ outcome = "none"

-----------------------------------------------------------------------------
(* required_cons_cells *)

Among(kinds, from, to) == Cardinality({k \in from..to : tokens[k] \in kinds})

\* The form that starts with the first token ends at token i.
Closes(i) ==
    /\ Among({"("}, 1, i) = Among({")"}, 1, i)
    /\ \A j \in 1..(i - 1) : Among({"("}, 1, j) > Among({")"}, 1, j)

\* The count without the lists inside, for the mutants.
RequiredFlat ==
    IF tokens = << >> \/ tokens[1] # "(" THEN {0}
    ELSE {Among({"atom", "str"}, 2, i) : i \in {j \in 1..Len(tokens) : Closes(j)}}

\* One cell for each element of the first form, inner lists included; {} is
\* None: the form does not end.
Required ==
    IF tokens = << >> \/ tokens[1] # "(" THEN {0}
    ELSE {Among({"(", "atom", "str"}, 2, i) : i \in {j \in 1..Len(tokens) : Closes(j)}}

-----------------------------------------------------------------------------
\* An eval_str that does not rewind the arena, for the mutants.
EvalStringKeepsArena ==
    /\ pc = "idle" /\ forms < MaxForms
    /\ forms' = forms + 1
    /\ \E n \in 0..MaxTokens : tokens' \in [1..n -> TokenKind]
    /\ pos' = 0 /\ stack' = << >> /\ word' = Nil
    /\ transient' = {}
    /\ pc' = "preflight"
    /\ UNCHANGED << arena, slots, outcome >>

\* wsm_eval_string: clear_transient, wsm_arena_reset, tokenize.
EvalString ==
    /\ pc = "idle" /\ forms < MaxForms
    /\ forms' = forms + 1
    /\ \E n \in 0..MaxTokens : tokens' \in [1..n -> TokenKind]
    /\ pos' = 0 /\ stack' = << >> /\ word' = Nil
    /\ arena' = << >> /\ transient' = {}
    /\ pc' = "preflight"
    /\ UNCHANGED << slots, outcome >>

\* An eval_str that leaves the strings to the next form, for the mutants.
FinishKeeps(result) ==
    /\ pc' = "idle"
    /\ outcome' = result
    /\ UNCHANGED transient

\* The end of eval_str: the text of the result is made, the strings go.
Finish(result) ==
    /\ pc' = "idle"
    /\ outcome' = result
    /\ transient' = {}

\* A text whose quotes do not match is refused by tokenize.
Unterminated ==
    /\ pc = "preflight"
    /\ Finish("unterminated string")
    /\ UNCHANGED << inputVars, parseVars, arena, slots >>

Preflight ==
    /\ pc = "preflight"
    /\ IF \E n \in Required : n > ArenaCells
       THEN Finish("too large")
       ELSE pc' = "parse" /\ UNCHANGED << outcome, transient >>
    /\ UNCHANGED << inputVars, parseVars, arena, slots >>

\* A word has been read: it is an element of the innermost open list, or the
\* whole form.
Deliver(w, open) ==
    IF open = << >>
    THEN /\ word' = w /\ stack' = << >>
         /\ pc' = "print"
    ELSE /\ stack' = [open EXCEPT ![Len(open)] = Append(@, w)]
         /\ UNCHANGED << word, pc >>

Next1 == tokens[pos + 1]
More == pos < Len(tokens)
Advance == pos' = pos + 1

ReadAtom ==
    /\ pc = "parse" /\ More /\ Next1 = "atom"
    /\ Advance
    /\ Deliver(Atom, stack)
    /\ UNCHANGED << inputVars, arena, boxedVars, outcome >>

ReadString ==
    /\ pc = "parse" /\ More /\ Next1 = "str"
    /\ Advance
    /\ slots' = slots + 1
    /\ transient' = transient \cup {slots + 1}
    /\ Deliver(Str(slots + 1), stack)
    /\ UNCHANGED << inputVars, arena, outcome >>

ReadOpen ==
    /\ pc = "parse" /\ More /\ Next1 = "("
    /\ Advance
    /\ stack' = Append(stack, << >>)
    /\ UNCHANGED << pc, inputVars, word, arena, boxedVars, outcome >>

\* Cells linked from the first element on, for the mutants.
CellsOfForward(words) ==
    [m \in 1..Len(words) |-> [car |-> words[m],
                              cdr |-> IF m = 1 THEN Nil ELSE Cons(Len(arena) + m - 1)]]

\* The cells of a list of these words, last element first, as the calls of
\* parse_list return; and the word of the list.
CellsOf(words) ==
    LET k == Len(words)
    IN  [m \in 1..k |-> [car |-> words[k - m + 1],
                         cdr |-> IF m = 1 THEN Nil ELSE Cons(Len(arena) + m - 1)]]

ListOf(words) == IF words = << >> THEN Nil ELSE Cons(Len(arena) + Len(words))

\* ")" of an open list: wsm_cons for each word, or the end of the process.
ReadClose ==
    /\ pc = "parse" /\ More /\ Next1 = ")" /\ stack # << >>
    /\ LET words == stack[Len(stack)]
       IN  IF Len(arena) + Len(words) > ArenaCells
           THEN pc' = "dead" /\ UNCHANGED << parseVars, arena >>
           ELSE /\ Advance
                /\ arena' = arena \o CellsOf(words)
                /\ Deliver(ListOf(words), SubSeq(stack, 1, Len(stack) - 1))
    /\ UNCHANGED << inputVars, boxedVars, outcome >>

ParseFails ==
    /\ pc = "parse"
    /\ \/ ~More /\ Finish("unexpected eof")
       \/ More /\ Next1 = ")" /\ stack = << >> /\ Finish("unexpected close")
    /\ UNCHANGED << inputVars, parseVars, arena, slots >>

\* A read_one that ignores what follows the form, for the mutants.
PrintAnyway ==
    /\ pc = "print"
    /\ Finish("value")
    /\ UNCHANGED << inputVars, parseVars, arena, slots >>

\* The whole form is read: nothing may follow it.
PrintForm ==
    /\ pc = "print"
    /\ Finish(IF pos = Len(tokens) THEN "value" ELSE "trailing input")
    /\ UNCHANGED << inputVars, parseVars, arena, slots >>

Next ==
    \/ EvalString \/ Unterminated \/ Preflight
    \/ ReadAtom \/ ReadString \/ ReadOpen \/ ReadClose \/ ParseFails \/ PrintForm

Spec == Init /\ [][Next]_vars

-----------------------------------------------------------------------------
(* The printer, and what the text denotes. *)

\* write_list from a cell on, and write_value: cells refer to earlier cells.
WriteFrom ==
    LET write[n \in 0..Len(arena)] ==
            IF n = 0 THEN << >>
            ELSE LET c == arena[n]
                     head == CASE c.car.tag = "nil" -> <<"(", ")">>
                               [] c.car.tag = "cons" -> <<"(">> \o write[c.car.at] \o <<")">>
                               [] OTHER -> << c.car.tag >>
                 IN  head \o write[c.cdr.at]
    IN  write

Written ==
    CASE word.tag = "nil" -> <<"(", ")">>
      [] word.tag = "cons" -> <<"(">> \o WriteFrom[word.at] \o <<")">>
      [] OTHER -> << word.tag >>

\* The token at which the first form of the text ends: one, or none.
FirstForm ==
    IF tokens = << >> THEN {}
    ELSE IF tokens[1] \in {"atom", "str"} THEN {1}
    ELSE {i \in 1..Len(tokens) : Closes(i)}

\* The reader takes exactly one complete form: a value only when the text is
\* one form, "trailing input" only when a form ends before the text does, "too
\* large" only when the form needs more cells than there are; and every other
\* text is an error of its own - whatever forms were read before.
OutcomeMatches ==
    pc = "idle" =>
        CASE outcome = "value" -> FirstForm = {Len(tokens)}
          [] outcome = "trailing input" -> FirstForm # {} /\ FirstForm # {Len(tokens)}
          [] outcome = "unexpected eof" -> FirstForm = {}
          [] outcome = "unexpected close" -> FirstForm = {} /\ tokens[1] = ")"
          [] outcome = "too large" -> FirstForm # {} /\ \A n \in Required : n > ArenaCells
          [] OTHER -> TRUE

\* What was read prints back as the text it was read from: the cells built
\* from the last element backwards are the list in its own order.
RoundTrip == pc = "idle" /\ outcome = "value" => Written = tokens

\* The preflight counts the cells of a form exactly, neither refusing a form
\* that fits nor passing one that does not.
PreflightExact == pc = "print" => Required = {Len(arena)}

\* A text whose first form ends never takes the process down, and no text
\* writes past the cells nucleus-win64.s reserves.
PreflightSuffices ==
    /\ Len(arena) <= ArenaCells
    /\ pc = "dead" => Required = {}

\* Strings live for one form: none is left when the next form is read, and
\* while a form is read its string words are live.
StringsScoped ==
    /\ pc \in {"idle", "preflight"} => transient = {}
    /\ pc \in {"parse", "print"} =>
          \A n \in 1..Len(arena) : arena[n].car.tag = "str" => arena[n].car.at \in transient

\* No source text ends the process ("A malformed user form must therefore
\* become a Lisp failure; it must never become a process failure").
NeverProcessFailure == pc # "dead"
=============================================================================
