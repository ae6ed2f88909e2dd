------------------------------ MODULE Evaluator ------------------------------
(***************************************************************************)
(* Evaluating a form in the host session (host-runtime): eval of eval.rs   *)
(* between read_one and the printer, the boxed values of word.rs and the   *)
(* calls of ffi.rs that a host makes, also from inside a primitive.        *)
(*                                                                         *)
(* The mutual recursion of eval, eval_args and eval_cond is a stack of     *)
(* frames: what is still to be done with the value of the word in focus.   *)
(* A form arrives as read_one leaves it (see Reader): cons cells, the word *)
(* of the form, and the number of string literals it added to the table.   *)
(***************************************************************************)
EXTENDS Integers, Sequences, Functions

CONSTANTS
    Form,        \* what read_one can leave: [cells, root, strings]
    Name,        \* the symbols of the texts
    Primitive,   \* the names given to wsm_register_primitive
    Bindable,    \* the names a host binds
    Transient,   \* kinds of value made for one form: "str", "rational"
    Persistent,  \* kinds of value made to stay: "handle", "rational"
    MaxEvals,    \* bound: calls of wsm_eval_string
    MaxSlots     \* bound: boxed values the host may add up to

VARIABLES
    mode,      \* "idle", "eval" (focus is to be evaluated), "value" (focus is a
               \* value), "call" (inside a primitive), "dead" (exit 97)
    focus,     \* the word eval works on
    stack,     \* the calls that wait for it, outermost first
    arena,     \* the cons cells of the form
    values,    \* BoxedTable.values
    bindings,  \* Env.bindings
    evals,     \* calls of wsm_eval_string so far
    outcome,   \* what the last one returned
    issued,    \* history: the entries BoxedTable.add made, in order
    calls,     \* history: the primitive calls of this form
    source     \* history: the word of this form, and the bindings it found

controlVars == << mode, focus, stack >>
historyVars == << issued, calls, source >>
vars == << controlVars, arena, values, bindings, evals, outcome, historyVars >>

-----------------------------------------------------------------------------
(* Words (word.rs) and cells (asm/nucleus-win64.s). *)

Word(tag, name, at) == [tag |-> tag, name |-> name, at |-> at]
Nil == Word("nil", "", 0)
Symbol(name) == Word("sym", name, 0)
True == Symbol("t")
Boxed(n) == Word("boxed", "", n)

AnyName == Name \cup {"", "t"}
AnyWord == [tag : {"cons", "nil", "sym", "fix", "boxed", "unbound"}, name : AnyName, at : Nat]

\* A word that refers to these cells and strings only; a proper list of them.
Within(w, cells, strings) ==
    /\ w.tag = "cons" => w.at \in 1..cells
    /\ w.tag = "boxed" => w.at \in 1..strings
Proper(w, cells) == w = Nil \/ (w.tag = "cons" /\ w.at \in 1..cells)

\* read_one leaves proper lists of cells it made, each of earlier cells, and
\* words of its own strings.
ASSUME FormAssumption ==
    \A f \in Form :
        /\ f.strings \in Nat
        /\ f.cells \in Seq([car : AnyWord, cdr : AnyWord])
        /\ f.root \in AnyWord /\ Within(f.root, Len(f.cells), f.strings)
        /\ \A i \in 1..Len(f.cells) :
              /\ Within(f.cells[i].car, i - 1, f.strings)
              /\ Proper(f.cells[i].cdr, i - 1)

Car(w) == arena[w.at].car
Cdr(w) == arena[w.at].cdr

Unbound == Word("unbound", "", 0)
Failed == Word("failed", "", 0)       \* what a primitive that fails answers
Gone == [kind |-> "none", lifetime |-> "none", of |-> 0]

Entry(kind, lifetime, n) == [kind |-> kind, lifetime |-> lifetime, of |-> n]

\* BoxedTable::add, n times; a value is told apart by when it was added.
Add(kind, lifetime, n) ==
    LET new == [i \in 1..n |-> Entry(kind, lifetime, Len(issued) + i)]
    IN  /\ values' = values \o new
        /\ issued' = issued \o new

\* A clear_transient that closes the gaps, for the mutants.
ClearedCompacts(table) == SelectSeq(table, LAMBDA e : e.lifetime # "transient")

\* clear_transient: the slots stay, so that no later value takes an old word.
Cleared(table) ==
    [i \in 1..Len(table) |-> IF table[i].lifetime = "transient" THEN Gone ELSE table[i]]

-----------------------------------------------------------------------------
(* value_to_string, with this boxed table *)

WriteAtom(w, table) ==
    IF w.tag = "boxed"
    THEN LET e == table[w.at] IN Word(e.kind, "", IF e.kind = "handle" THEN 0 ELSE e.of)
    ELSE w

Open == Word("(", "", 0)
Close == Word(")", "", 0)

\* write_list from a cell on: the lists of a form are proper, and a cell
\* refers to earlier cells only.
WriteFrom(table) ==
    LET write[n \in 0..Len(arena)] ==
            IF n = 0 THEN << >>
            ELSE LET car == arena[n].car
                     head == IF car.tag \in {"cons", "nil"}
                             THEN << Open >> \o write[car.at] \o << Close >>
                             ELSE << WriteAtom(car, table) >>
                 IN  head \o write[arena[n].cdr.at]
    IN  write

Written(w, table) ==
    IF w.tag \in {"cons", "nil"} THEN << Open >> \o WriteFrom(table)[w.at] \o << Close >>
    ELSE << WriteAtom(w, table) >>

-----------------------------------------------------------------------------
Init ==
    /\ mode = "idle" /\ focus = Nil /\ stack = << >> /\ arena = << >>
    /\ values = << >> /\ bindings = [n \in Bindable |-> Unbound]
    /\ evals = 0 /\ outcome = [kind |-> "none", text |-> << >>]
    /\ issued = << >> /\ calls = << >>
    /\ source = [root |-> Nil, bindings |-> bindings]

\* eval_str up to eval: clear_transient, wsm_arena_reset, read_one.
EvalString(f) ==
    /\ mode = "idle" /\ evals < MaxEvals
    /\ evals' = evals + 1
    /\ LET base == Len(Cleared(values))
           place(w) == IF w.tag = "boxed" THEN Boxed(w.at + base) ELSE w
           literals == [i \in 1..f.strings |-> Entry("str", "transient", Len(issued) + i)]
       IN  /\ arena' = [i \in 1..Len(f.cells) |-> [car |-> place(f.cells[i].car),
                                                   cdr |-> f.cells[i].cdr]]
           /\ focus' = place(f.root)
           /\ values' = Cleared(values) \o literals
           /\ issued' = issued \o literals
           /\ source' = [root |-> place(f.root), bindings |-> bindings]
    /\ mode' = "eval" /\ stack' = << >> /\ calls' = << >>
    /\ UNCHANGED << bindings, outcome >>

\* The end of eval_str: the text of the result is made, then clear_transient.
Finish(kind, text) ==
    /\ mode' = "idle"
    /\ outcome' = [kind |-> kind, text |-> text]
    /\ focus' = Nil /\ stack' = << >>
    /\ values' = Cleared(values)

\* An EvalError goes through every waiting call with `?'.
Raise(error) ==
    /\ Finish(error, << >>)
    /\ UNCHANGED << arena, bindings, evals, historyVars >>

PrintValue ==
    /\ mode = "value" /\ stack = << >>
    /\ Finish("value", Written(focus, values))
    /\ UNCHANGED << arena, bindings, evals, historyVars >>

-----------------------------------------------------------------------------
(* eval *)

Unchanged == UNCHANGED << arena, values, bindings, evals, outcome, historyVars >>

Evaluate(w, frames) == mode' = "eval" /\ focus' = w /\ stack' = frames /\ Unchanged
Return(w, frames) == mode' = "value" /\ focus' = w /\ stack' = frames /\ Unchanged

\* A raw wsm_car or wsm_cdr of a word that is no pair: wsm_fail_win64.
Die == mode' = "dead" /\ UNCHANGED << focus, stack >> /\ Unchanged

Frame(kind, name, list, args, body) ==
    [kind |-> kind, name |-> name, list |-> list, args |-> args, body |-> body]

Top == stack[Len(stack)]
Below == SubSeq(stack, 1, Len(stack) - 1)

SelfEvaluating ==
    /\ mode = "eval" /\ focus.tag \in {"fix", "nil", "boxed"}
    /\ Return(focus, stack)

EvalSymbol ==
    /\ mode = "eval" /\ focus.tag = "sym"
    /\ LET name == focus.name
       IN  CASE name = "t" -> Return(focus, stack)
             [] name # "t" /\ name \in Bindable /\ bindings[name] # Unbound ->
                    Return(bindings[name], stack)
             [] OTHER -> Raise("unknown symbol")

\* eval_list has a symbol at the head of the list in focus.
Calling(names) ==
    /\ mode = "eval" /\ focus.tag = "cons"
    /\ Car(focus).tag = "sym" /\ Car(focus).name \in names

NotCallable ==
    /\ mode = "eval" /\ focus.tag = "cons" /\ Car(focus).tag # "sym"
    /\ Raise("not callable")

\* single_argument
OneArgument(list) == list.tag = "cons" /\ Cdr(list) = Nil

\* A quote that evaluates its argument, for the mutants.
EvalQuoteEvaluates ==
    /\ Calling({"quote"})
    /\ IF OneArgument(Cdr(focus)) THEN Evaluate(Car(Cdr(focus)), stack)
       ELSE Raise("invalid form")

EvalQuote ==
    /\ Calling({"quote"})
    /\ IF OneArgument(Cdr(focus)) THEN Return(Car(Cdr(focus)), stack)
       ELSE Raise("invalid form")

EvalAccessor ==
    /\ Calling({"car", "cdr"})
    /\ IF OneArgument(Cdr(focus))
       THEN Evaluate(Car(Cdr(focus)), Append(stack, Frame("access", Car(focus).name, Nil, << >>, Nil)))
       ELSE Raise("invalid form")

Awaiting(kind) == mode = "value" /\ stack # << >> /\ Top.kind = kind

\* An eval_checked_accessor that does not check, for the mutants.
ApplyAccessorUnchecked ==
    /\ Awaiting("access")
    /\ IF focus.tag # "cons" THEN Die
       ELSE Return(IF Top.name = "car" THEN Car(focus) ELSE Cdr(focus), Below)

\* eval_checked_accessor, once its argument has a value.
ApplyAccessor ==
    /\ Awaiting("access")
    /\ IF focus.tag # "cons" THEN Raise("type error")
       ELSE Return(IF Top.name = "car" THEN Car(focus) ELSE Cdr(focus), Below)

\* cond_clause
TwoForms(clause) == clause.tag = "cons" /\ OneArgument(Cdr(clause))

\* The loop of eval_cond from these clauses on.
CondFrom(clauses, frames) ==
    IF clauses = Nil THEN Return(Nil, frames)
    ELSE IF ~(clauses.tag = "cons" /\ TwoForms(Car(clauses))) THEN Raise("invalid form")
    ELSE Evaluate(Car(Car(clauses)),
                  Append(frames, Frame("cond", "", clauses, << >>, Car(Cdr(Car(clauses))))))

EvalCond ==
    /\ Calling({"cond"})
    /\ CondFrom(Cdr(focus), stack)

\* is_truthy: everything but Nil.
CondTested ==
    /\ Awaiting("cond")
    /\ IF focus # Nil THEN Evaluate(Top.body, Below) ELSE CondFrom(Cdr(Top.list), Below)

\* The loop of eval_args from this list on, and the dispatch after it: the
\* primitive is looked up when its arguments have been evaluated.
ArgsFrom(name, list, args, frames) ==
    IF list = Nil
    THEN IF name \in Primitive
         THEN /\ mode' = "call"
              /\ stack' = Append(frames, Frame("call", name, Nil, args, Nil))
              /\ focus' = Nil
              /\ Unchanged
         ELSE Raise("unknown symbol")
    ELSE IF list.tag # "cons" THEN Die
    ELSE Evaluate(Car(list), Append(frames, Frame("args", name, Cdr(list), args, Nil)))

Special == {"quote", "cond", "car", "cdr"}

EvalCall ==
    /\ mode = "eval" /\ focus.tag = "cons"
    /\ Car(focus).tag = "sym" /\ Car(focus).name \notin Special
    /\ ArgsFrom(Car(focus).name, Cdr(focus), << >>, stack)

ArgEvaluated ==
    /\ Awaiting("args")
    /\ ArgsFrom(Top.name, Top.list, Append(Top.args, focus), Below)

Evaluation ==
    \/ SelfEvaluating \/ EvalSymbol \/ NotCallable
    \/ EvalQuote \/ EvalAccessor \/ ApplyAccessor
    \/ EvalCond \/ CondTested \/ EvalCall \/ ArgEvaluated \/ PrintValue

-----------------------------------------------------------------------------
(* The host: primitives, and the calls they or the tick make. *)

Returned(result) ==
    calls' = Append(calls, [name |-> Top.name, args |-> Top.args, result |-> result,
                            bindings |-> bindings])

\* A primitive answers with a constant of wsm_word_nil and wsm_word_true, or
\* with a word it was given.
PrimitiveReturns ==
    /\ mode = "call"
    /\ \E w \in {Nil, True} \cup Range(Top.args) :
          /\ Returned(w)
          /\ mode' = "value" /\ focus' = w /\ stack' = Below
    /\ UNCHANGED << arena, values, bindings, evals, outcome, issued, source >>

\* A primitive answers with a value valid for this form only:
\* wsm_wrap_transient_string, wsm_wrap_transient_rational.
PrimitiveWraps(kind) ==
    /\ mode = "call" /\ Len(values) < MaxSlots
    /\ Add(kind, "transient", 1)
    /\ Returned(Boxed(Len(values) + 1))
    /\ mode' = "value" /\ focus' = Boxed(Len(values) + 1) /\ stack' = Below
    /\ UNCHANGED << arena, bindings, evals, outcome, source >>

\* A primitive unwraps its argument (wsm_unwrap_game_handle as ClassPrimitive
\* does, wsm_unwrap_rational): a word of another kind, or of nothing, is refused.
PrimitiveUnwraps(kind) ==
    /\ mode = "call" /\ Top.args # << >>
    /\ LET w == Head(Top.args)
           ok == w.tag = "boxed" /\ w.at \in 1..Len(values) /\ values[w.at].kind = kind
       IN  IF ok
           THEN /\ Returned(True)
                /\ mode' = "value" /\ focus' = True /\ stack' = Below
                /\ UNCHANGED << values, outcome >>
           ELSE Returned(Failed) /\ Finish("host failed", << >>)
    /\ UNCHANGED << arena, bindings, evals, issued, source >>

\* A primitive answers a nonzero code: HostPrimitiveFailed.
PrimitiveFails ==
    /\ mode = "call"
    /\ Returned(Failed)
    /\ Finish("host failed", << >>)
    /\ UNCHANGED << arena, bindings, evals, issued, source >>

\* wsm_wrap_game_handle or wsm_wrap_rational, and wsm_bind of the word, from a
\* primitive or between two forms.
BindNew(name, kind) ==
    /\ mode \in {"idle", "call"} /\ Len(values) < MaxSlots
    /\ Add(kind, "persistent", 1)
    /\ bindings' = [bindings EXCEPT ![name] = Boxed(Len(values) + 1)]
    /\ UNCHANGED << controlVars, arena, evals, outcome, calls, source >>

\* wsm_bind of Nil (the player is gone).
BindNil(name) ==
    /\ mode \in {"idle", "call"}
    /\ bindings[name] # Nil
    /\ bindings' = [bindings EXCEPT ![name] = Nil]
    /\ UNCHANGED << controlVars, arena, values, evals, outcome, historyVars >>

Answer ==
    \/ PrimitiveReturns \/ PrimitiveFails
    \/ \E kind \in Persistent : PrimitiveUnwraps(kind)
    \/ \E kind \in Transient : PrimitiveWraps(kind)

Binding == \E n \in Bindable : BindNil(n) \/ \E kind \in Persistent : BindNew(n, kind)

Next == (\E f \in Form : EvalString(f)) \/ Evaluation \/ Answer \/ Binding

Spec == Init /\ [][Next]_vars

\* eval runs on, and a primitive that was called returns.
FairSpec == Spec /\ WF_vars(Evaluation) /\ WF_vars(Answer)

-----------------------------------------------------------------------------
(* The reference: what the language says a form means, by recursion on its  *)
(* cells and given what the host answered to each call.                     *)

\* A value or an error, and how many calls have been made by then.
Meaning(kind, value, k) == [kind |-> kind, value |-> value, made |-> k]
Wrong(kind, k) == Meaning(kind, Nil, k)

\* The bindings once the host has answered k calls.
BindingsAfter(answers, k) == IF k = 0 THEN source.bindings ELSE answers[k].bindings

MeanSymbol(answers, w, k) ==
    LET bound == BindingsAfter(answers, k)
    IN  CASE w.name = "t" -> Meaning("value", w, k)
          [] w.name # "t" /\ w.name \in Bindable /\ bound[w.name] # Unbound ->
                Meaning("value", bound[w.name], k)
          [] OTHER -> Wrong("unknown symbol", k)

\* Call k + 1 is the one the host was asked, or the meaning is another call.
MeanCall(answers, name, args, k) ==
    LET call == answers[k + 1]
    IN  CASE name \notin Primitive -> Wrong("unknown symbol", k)
          [] name \in Primitive /\ (k >= Len(answers) \/ call.name # name \/ call.args # args) ->
                Wrong("another call", k + 1)
          [] OTHER -> IF call.result = Failed THEN Wrong("host failed", k + 1)
                      ELSE Meaning("value", call.result, k + 1)

\* A word's, when M has those of the lists.
MeanWord(M, answers, w, k) ==
    CASE w.tag = "sym" -> MeanSymbol(answers, w, k)
      [] w.tag = "cons" -> M[w.at].form[k]
      [] OTHER -> Meaning("value", w, k)

\* What follows from the meaning of a car's or cdr's argument, of a clause's
\* test, of an argument: an error stays that error.
AfterAccess(name, m) ==
    IF m.kind # "value" THEN m
    ELSE IF m.value.tag # "cons" THEN Wrong("type error", m.made)
    ELSE Meaning("value", IF name = "car" THEN Car(m.value) ELSE Cdr(m.value), m.made)

AfterTest(M, answers, body, rest, m) ==
    IF m.kind # "value" THEN m
    ELSE IF m.value # Nil THEN MeanWord(M, answers, body, m.made)
    ELSE M[rest.at].clauses[m.made]

AfterArg(M, name, rest, done, m) ==
    IF m.kind # "value" THEN m
    ELSE M[rest.at].args[<< name, Append(done, m.value), m.made >>]

\* The list from cell n on, as a form, as clauses, as the rest of arguments.
MeanForm(M, answers, n, k) ==
    LET head == arena[n].car
        list == arena[n].cdr
    IN  CASE n = 0 -> Meaning("value", Nil, k)
          [] n # 0 /\ head.tag # "sym" -> Wrong("not callable", k)
          [] n # 0 /\ head.tag = "sym" /\ head.name = "quote" ->
                IF OneArgument(list) THEN Meaning("value", Car(list), k) ELSE Wrong("invalid form", k)
          [] n # 0 /\ head.tag = "sym" /\ head.name \in {"car", "cdr"} ->
                IF OneArgument(list) THEN AfterAccess(head.name, MeanWord(M, answers, Car(list), k))
                ELSE Wrong("invalid form", k)
          [] n # 0 /\ head.tag = "sym" /\ head.name = "cond" -> M[list.at].clauses[k]
          [] OTHER -> M[list.at].args[<< head.name, << >>, k >>]

MeanClauses(M, answers, n, k) ==
    LET clause == arena[n].car
    IN  IF n = 0 THEN Meaning("value", Nil, k)
        ELSE IF ~TwoForms(clause) THEN Wrong("invalid form", k)
        ELSE AfterTest(M, answers, Car(Cdr(clause)), arena[n].cdr, MeanWord(M, answers, Car(clause), k))

MeanArgs(M, answers, n, name, done, k) ==
    IF n = 0 THEN MeanCall(answers, name, done, k)
    ELSE AfterArg(M, name, arena[n].cdr, done, MeanWord(M, answers, arena[n].car, k))

MeanAt(M, answers, n) ==
    [form |-> [k \in Nat |-> MeanForm(M, answers, n, k)],
     clauses |-> [k \in Nat |-> MeanClauses(M, answers, n, k)],
     args |-> [p \in AnyName \X Seq(AnyWord) \X Nat |-> MeanArgs(M, answers, n, p[1], p[2], p[3])]]

MeanFrom(answers) ==
    LET mean[n \in 0..Len(arena)] == MeanAt(mean, answers, n) IN mean

\* What wsm_eval_string returns is what the form means: the same value or the
\* same error, after the same primitive calls with the same arguments in the
\* same order - whatever a primitive rebinds or wraps in between, and whatever
\* an earlier form left behind.
EvalMatchesMeaning ==
    mode = "idle" /\ evals > 0 =>
        LET m == MeanWord(MeanFrom(calls), calls, source.root, 0)
        IN  /\ outcome.kind = m.kind
            /\ m.made = Len(calls)
            /\ m.kind = "value" => outcome.text = Written(m.value, issued)

-----------------------------------------------------------------------------
\* The words the session can still use: in bindings always, and during a form
\* in its cells, in the focus and in the arguments collected so far.
Held ==
    LET bound == {bindings[n] : n \in Bindable}
        cells == {arena[i].car : i \in 1..Len(arena)}
        args == UNION {Range(stack[i].args) : i \in 1..Len(stack)}
    IN  IF mode = "idle" THEN bound ELSE bound \cup cells \cup args \cup {focus}

\* A boxed word that can be used denotes the value it was made for, and a word
\* that was kept too long denotes nothing: however forms, primitives, bindings
\* and clear_transient interleave, no word ever denotes another value, and a
\* pair that can be used is in the arena.
WordsKeepMeaning ==
    /\ \A w \in Held : w.tag = "cons" => w.at \in 1..Len(arena)
    /\ \A w \in Held : w.tag = "boxed" => w.at \in 1..Len(values) /\ values[w.at] = issued[w.at]
    /\ Len(values) = Len(issued)
    /\ \A i \in 1..Len(values) : values[i] \in {issued[i], Gone}

\* Every wsm_eval_string returns: no form loops, and none ends the process.
EvalReturns == (mode # "idle") ~> (mode = "idle")
=============================================================================
