--------------------------- MODULE EvaluatorProofs ---------------------------
(***************************************************************************)
(* The words of the evaluator and the meaning of its forms, for any forms, *)
(* primitives and bindings and any number of boxed values.                 *)
(***************************************************************************)
EXTENDS Evaluator, SequenceTheorems, WellFoundedInduction, TLAPS

AnyEntry ==
    [kind : {"none", "str"} \cup Transient \cup Persistent,
     lifetime : {"none", "transient", "persistent"}, of : Nat]
AnyFrame ==
    [kind : {"access", "cond", "args", "call"}, name : AnyName, list : AnyWord,
     args : Seq(AnyWord), body : AnyWord]

\* The types of the session's state; an evaluation never reaches wsm_fail_win64.
TypeOK ==
    /\ mode \in {"idle", "eval", "value", "call"}
    /\ focus \in AnyWord
    /\ stack \in Seq(AnyFrame)
    /\ arena \in Seq([car : AnyWord, cdr : AnyWord])
    /\ values \in Seq(AnyEntry) /\ issued \in Seq(AnyEntry)
    /\ bindings \in [Bindable -> AnyWord]

\* A word that can be used: its cell is there, its value is the one it was
\* made for.
Sound(w, cells, table, made) ==
    /\ w.tag = "cons" => w.at \in 1..cells
    /\ w.tag = "boxed" => w.at \in 1..Len(table) /\ table[w.at] = made[w.at]
Usable(w) == Sound(w, Len(arena), values, issued)

\* What a waiting call holds is usable, and what it will take the car or cdr
\* of is a proper list.
SoundFrame(f, cells, table, made) ==
    /\ Proper(f.list, cells)
    /\ f.kind = "cond" => f.list # Nil
    /\ Sound(f.body, cells, table, made)
    /\ \A i \in 1..Len(f.args) : Sound(f.args[i], cells, table, made)
UsableFrame(f) == SoundFrame(f, Len(arena), values, issued)

\* The table only forgets: a slot holds what was put there, or nothing.
TableForgets ==
    /\ Len(values) = Len(issued)
    /\ \A i \in 1..Len(values) : values[i] \in {issued[i], Gone}

\* A host binds words without cells, and boxed ones that clear_transient keeps.
BindingsStay ==
    \A n \in Bindable :
        /\ bindings[n].tag # "cons"
        /\ bindings[n].tag = "boxed" =>
              Usable(bindings[n]) /\ values[bindings[n].at].lifetime = "persistent"

\* During a form its cells are proper lists of usable words, and so is all
\* that the evaluation holds.
FormUsable ==
    mode # "idle" =>
        /\ \A i \in 1..Len(arena) : Usable(arena[i].car) /\ Proper(arena[i].cdr, Len(arena))
        /\ Usable(focus)
        /\ \A i \in 1..Len(stack) : UsableFrame(stack[i])

\* The inductive invariant.
EInv ==
    /\ TypeOK /\ TableForgets /\ BindingsStay /\ FormUsable
    /\ mode = "call" => stack # << >>

-----------------------------------------------------------------------------
(* Words, cells and frames. *)

LEMMA Constants ==
    /\ Nil \in AnyWord /\ True \in AnyWord /\ Unbound \in AnyWord
    /\ Nil.tag = "nil" /\ True.tag = "sym" /\ Unbound.tag = "unbound"
  BY DEF Nil, True, Symbol, Unbound, Word, AnyWord, AnyName

LEMMA BoxedWord ==
    ASSUME NEW n \in Nat
    PROVE  Boxed(n) \in AnyWord /\ Boxed(n).tag = "boxed" /\ Boxed(n).at = n
  BY DEF Boxed, Word, AnyWord, AnyName

LEMMA PlainUsable == ASSUME NEW w, w.tag \notin {"cons", "boxed"} PROVE Usable(w)
  BY DEF Usable, Sound

LEMMA ProperUsable == ASSUME NEW w, Proper(w, Len(arena)) PROVE Usable(w)
  BY Constants DEF Proper, Usable, Sound

\* A raw car or cdr of a usable pair gives a usable word and a proper list.
LEMMA Cell ==
    ASSUME EInv, mode # "idle", NEW w \in AnyWord, w.tag = "cons", w.at \in 1..Len(arena)
    PROVE  /\ Car(w) \in AnyWord /\ Usable(Car(w))
           /\ Cdr(w) \in AnyWord /\ Proper(Cdr(w), Len(arena)) /\ Usable(Cdr(w))
<1>1. arena[w.at] \in [car : AnyWord, cdr : AnyWord]
  <2>1. arena \in Seq([car : AnyWord, cdr : AnyWord])
    BY DEF EInv, TypeOK
  <2> QED
    BY <2>1, ElementOfSeq
<1>2. Usable(arena[w.at].car) /\ Proper(arena[w.at].cdr, Len(arena))
  BY DEF EInv, FormUsable
<1> QED
  BY <1>1, <1>2, ProperUsable DEF Car, Cdr

\* The length of a sequence without its last element, as SubSeqProperties has it.
LEMMA Less ==
    ASSUME NEW n \in Nat, n > 0
    PROVE  n - 1 = IF 1 <= n - 1 THEN n - 1 - 1 + 1 ELSE 0
  OBVIOUS

\* The frame on top, and the ones below it.
LEMMA Frames ==
    ASSUME EInv, mode # "idle", stack # << >>
    PROVE  /\ Top \in AnyFrame /\ UsableFrame(Top)
           /\ Below \in Seq(AnyFrame)
           /\ \A i \in 1..Len(Below) : UsableFrame(Below[i])
<1>1. stack \in Seq(AnyFrame) /\ Len(stack) \in Nat /\ Len(stack) > 0
  BY DEF EInv, TypeOK
<1>2. Top \in AnyFrame /\ UsableFrame(Top)
  BY <1>1 DEF Top, EInv, FormUsable
<1>3. /\ Below \in Seq(AnyFrame) /\ Len(Below) = Len(stack) - 1
      /\ \A i \in 1..Len(Below) : Below[i] = stack[i]
  <2>1. \A i \in 1..(Len(stack) - 1) : stack[i] \in AnyFrame
    BY <1>1
  <2>2. 1 \in Int /\ Len(stack) - 1 \in Int
    BY <1>1
  <2>3. /\ Below \in Seq(AnyFrame)
        /\ Len(Below) = IF 1 <= Len(stack) - 1 THEN Len(stack) - 1 - 1 + 1 ELSE 0
        /\ \A i \in 1..(Len(stack) - 1 - 1 + 1) : Below[i] = stack[1 + i - 1]
    BY <2>1, <2>2, SubSeqProperties DEF Below
  <2>4. Len(Below) = Len(stack) - 1
    BY <1>1, <2>3, Less
  <2>5. ASSUME NEW i \in 1..Len(Below) PROVE Below[i] = stack[i]
    <3>1. 1 + i - 1 = i /\ i \in 1..(Len(stack) - 1 - 1 + 1)
      BY <1>1, <2>4
    <3> QED
      BY <2>3, <3>1
  <2> QED
    BY <2>3, <2>4, <2>5
<1> QED
  BY <1>1, <1>2, <1>3 DEF EInv, FormUsable

\* A stack with one more frame.
LEMMA Pushed ==
    ASSUME NEW frames \in Seq(AnyFrame), \A i \in 1..Len(frames) : UsableFrame(frames[i]),
           NEW f \in AnyFrame, UsableFrame(f)
    PROVE  /\ Append(frames, f) \in Seq(AnyFrame) /\ Append(frames, f) # << >>
           /\ \A i \in 1..Len(Append(frames, f)) : UsableFrame(Append(frames, f)[i])
<1>1. /\ Append(frames, f) \in Seq(AnyFrame) /\ Len(Append(frames, f)) = Len(frames) + 1
      /\ Append(frames, f)[Len(frames) + 1] = f
      /\ \A i \in 1..Len(frames) : Append(frames, f)[i] = frames[i]
  OBVIOUS
<1>2. Len(frames) \in Nat
  OBVIOUS
<1>3. Append(frames, f) # << >>
  BY <1>1, <1>2
<1> QED
  BY <1>1, <1>2, <1>3

\* A new frame for a waiting call.
LEMMA NewFrame ==
    ASSUME NEW kind \in {"access", "cond", "args", "call"}, NEW name \in AnyName, NEW list \in AnyWord,
           NEW args \in Seq(AnyWord), NEW body \in AnyWord,
           Proper(list, Len(arena)), kind = "cond" => list # Nil, Usable(body),
           \A i \in 1..Len(args) : Usable(args[i])
    PROVE  /\ Frame(kind, name, list, args, body) \in AnyFrame
           /\ UsableFrame(Frame(kind, name, list, args, body))
  BY DEF Frame, AnyFrame, UsableFrame, SoundFrame, Usable

-----------------------------------------------------------------------------
(* The steps that leave the tables alone: eval itself. *)

LEMMA ControlStep ==
    ASSUME EInv, mode # "idle", mode' \in {"eval", "value", "call"},
           focus' \in AnyWord, Usable(focus'),
           stack' \in Seq(AnyFrame), \A i \in 1..Len(stack') : UsableFrame(stack'[i]),
           mode' = "call" => stack' # << >>,
           UNCHANGED << arena, values, bindings, issued >>
    PROVE  EInv'
<1>1. TypeOK'
  BY DEF EInv, TypeOK
<1>2. \A w : Usable(w) <=> Usable(w)'
  BY DEF Usable, Sound
<1>3. TableForgets' /\ BindingsStay'
  BY DEF EInv, TableForgets, BindingsStay, Usable, Sound
<1>4. FormUsable'
  BY DEF EInv, FormUsable, Usable, Sound, UsableFrame, SoundFrame, Proper
<1> QED
  BY <1>1, <1>3, <1>4 DEF EInv

\* The end of a form keeps what is bound.
LEMMA FinishStep ==
    ASSUME EInv, NEW kind, NEW text, Finish(kind, text), UNCHANGED << arena, bindings, issued >>
    PROVE  EInv'
<1>1. mode' = "idle" /\ focus' = Nil /\ stack' = << >> /\ values' = Cleared(values)
  BY DEF Finish
<1>2. values \in Seq(AnyEntry) /\ Len(values) \in Nat /\ Gone \in AnyEntry
  BY DEF EInv, TypeOK, Gone, AnyEntry
<1>3. /\ values' \in Seq(AnyEntry) /\ Len(values') = Len(values)
      /\ \A i \in 1..Len(values) :
            values'[i] = IF values[i].lifetime = "transient" THEN Gone ELSE values[i]
  BY <1>1, <1>2 DEF Cleared
<1>4. TypeOK'
  BY <1>1, <1>3, Constants DEF EInv, TypeOK
<1>5. TableForgets'
  BY <1>3 DEF EInv, TableForgets
<1>6. BindingsStay'
  BY <1>3 DEF EInv, BindingsStay, Usable, Sound
<1> QED
  BY <1>1, <1>4, <1>5, <1>6 DEF EInv, FormUsable

LEMMA RaiseStep == ASSUME EInv, NEW error, Raise(error) PROVE EInv'
  BY FinishStep DEF Raise, historyVars

\* eval goes on with a usable word and a usable stack.
LEMMA GoOn ==
    ASSUME EInv, mode # "idle", NEW w \in AnyWord, Usable(w),
           NEW frames \in Seq(AnyFrame), \A i \in 1..Len(frames) : UsableFrame(frames[i]),
           Evaluate(w, frames) \/ Return(w, frames)
    PROVE  EInv'
<1>1. /\ mode' \in {"eval", "value"} /\ focus' = w /\ stack' = frames
      /\ UNCHANGED << arena, values, bindings, issued >>
  BY DEF Evaluate, Return, Unchanged, historyVars
<1> QED
  BY <1>1, ControlStep

\* What eval has in hand.
LEMMA InHand ==
    ASSUME EInv, mode # "idle"
    PROVE  /\ focus \in AnyWord /\ Usable(focus)
           /\ stack \in Seq(AnyFrame) /\ \A i \in 1..Len(stack) : UsableFrame(stack[i])
  BY DEF EInv, TypeOK, FormUsable

\* A list in focus: its head, and its arguments.
LEMMA FocusList ==
    ASSUME EInv, mode # "idle", focus.tag = "cons"
    PROVE  /\ Car(focus) \in AnyWord /\ Usable(Car(focus)) /\ Car(focus).name \in AnyName
           /\ Cdr(focus) \in AnyWord /\ Proper(Cdr(focus), Len(arena)) /\ Usable(Cdr(focus))
<1>1. focus \in AnyWord /\ focus.at \in 1..Len(arena)
  BY InHand DEF Usable, Sound
<1>2. /\ Car(focus) \in AnyWord /\ Usable(Car(focus))
      /\ Cdr(focus) \in AnyWord /\ Proper(Cdr(focus), Len(arena)) /\ Usable(Cdr(focus))
  BY <1>1, Cell
<1> QED
  BY <1>2 DEF AnyWord

\* The first element of a proper list that is not empty, and the rest.
LEMMA FirstAndRest ==
    ASSUME EInv, mode # "idle", NEW list \in AnyWord, Usable(list), list.tag = "cons"
    PROVE  /\ Car(list) \in AnyWord /\ Usable(Car(list))
           /\ Cdr(list) \in AnyWord /\ Proper(Cdr(list), Len(arena)) /\ Usable(Cdr(list))
  BY Cell DEF Usable, Sound

\* No arguments yet.
LEMMA NoArgs ==
    /\ << >> \in Seq(AnyWord) /\ \A i \in 1..Len(<< >>) : Usable(<< >>[i])
    /\ Nil \in AnyWord /\ Proper(Nil, Len(arena)) /\ Usable(Nil)
<1>1. << >> \in Seq(AnyWord) /\ Len(<< >>) = 0
  OBVIOUS
<1> QED
  BY <1>1, Constants, PlainUsable DEF Proper

LEMMA SimpleStep ==
    ASSUME EInv, SelfEvaluating \/ EvalSymbol \/ NotCallable \/ EvalQuote \/ PrintValue
    PROVE  EInv'
<1>1. CASE SelfEvaluating
  BY <1>1, InHand, GoOn DEF SelfEvaluating
<1>2. CASE EvalSymbol
  <2>1. mode # "idle"
    BY <1>2 DEF EvalSymbol
  <2>2. CASE Return(focus, stack)
    BY <2>1, <2>2, InHand, GoOn
  <2>3. CASE Raise("unknown symbol")
    BY <2>3, RaiseStep
  <2>4. ASSUME focus.name \in Bindable, Return(bindings[focus.name], stack) PROVE EInv'
    <3>1. bindings[focus.name] \in AnyWord /\ Usable(bindings[focus.name])
      BY <2>4 DEF EInv, TypeOK, BindingsStay, Usable, Sound
    <3> QED
      BY <2>1, <2>4, <3>1, InHand, GoOn
  <2> QED
    BY <1>2, <2>2, <2>3, <2>4 DEF EvalSymbol
<1>3. CASE NotCallable
  BY <1>3, RaiseStep DEF NotCallable
<1>4. CASE EvalQuote
  <2>1. mode # "idle" /\ focus.tag = "cons"
    BY <1>4 DEF EvalQuote, Calling
  <2>2. CASE OneArgument(Cdr(focus))
    <3>1. Car(Cdr(focus)) \in AnyWord /\ Usable(Car(Cdr(focus)))
      BY <2>1, <2>2, FocusList, FirstAndRest DEF OneArgument
    <3> QED
      BY <1>4, <2>1, <2>2, <3>1, InHand, GoOn DEF EvalQuote
  <2>3. CASE ~OneArgument(Cdr(focus))
    BY <1>4, <2>3, RaiseStep DEF EvalQuote
  <2> QED
    BY <2>2, <2>3
<1>5. CASE PrintValue
  BY <1>5, FinishStep DEF PrintValue, historyVars
<1> QED
  BY <1>1, <1>2, <1>3, <1>4, <1>5

LEMMA AccessorStep == ASSUME EInv, EvalAccessor \/ ApplyAccessor PROVE EInv'
<1>1. CASE EvalAccessor
  <2>1. mode # "idle" /\ focus.tag = "cons"
    BY <1>1 DEF EvalAccessor, Calling
  <2>2. CASE OneArgument(Cdr(focus))
    <3> DEFINE f == Frame("access", Car(focus).name, Nil, << >>, Nil)
    <3>1. Car(Cdr(focus)) \in AnyWord /\ Usable(Car(Cdr(focus)))
      BY <2>1, <2>2, FocusList, FirstAndRest DEF OneArgument
    <3>2. f \in AnyFrame /\ UsableFrame(f)
      <4>1. Car(focus).name \in AnyName
        BY <2>1, FocusList
      <4> QED
        BY <4>1, NoArgs, NewFrame
    <3>3. Evaluate(Car(Cdr(focus)), Append(stack, f))
      BY <1>1, <2>2 DEF EvalAccessor
    <3> QED
      BY <2>1, <3>1, <3>2, <3>3, InHand, Pushed, GoOn
  <2>3. CASE ~OneArgument(Cdr(focus))
    BY <1>1, <2>3, RaiseStep DEF EvalAccessor
  <2> QED
    BY <2>2, <2>3
<1>2. CASE ApplyAccessor
  <2>1. mode # "idle" /\ stack # << >>
    BY <1>2 DEF ApplyAccessor, Awaiting
  <2>2. CASE focus.tag # "cons"
    BY <1>2, <2>2, RaiseStep DEF ApplyAccessor
  <2>3. CASE focus.tag = "cons"
    <3>1. Return(Car(focus), Below) \/ Return(Cdr(focus), Below)
      BY <1>2, <2>3 DEF ApplyAccessor
    <3> QED
      BY <2>1, <2>3, <3>1, FocusList, Frames, GoOn
  <2> QED
    BY <2>2, <2>3
<1> QED
  BY <1>1, <1>2

LEMMA CondFromStep ==
    ASSUME EInv, mode # "idle", NEW clauses \in AnyWord, Proper(clauses, Len(arena)),
           NEW frames \in Seq(AnyFrame), \A i \in 1..Len(frames) : UsableFrame(frames[i]),
           CondFrom(clauses, frames)
    PROVE  EInv'
<1>1. CASE clauses = Nil
  BY <1>1, NoArgs, GoOn DEF CondFrom
<1>2. CASE clauses # Nil /\ ~(clauses.tag = "cons" /\ TwoForms(Car(clauses)))
  BY <1>2, RaiseStep DEF CondFrom
<1>3. CASE clauses # Nil /\ clauses.tag = "cons" /\ TwoForms(Car(clauses))
  <2> DEFINE clause == Car(clauses)
             f == Frame("cond", "", clauses, << >>, Car(Cdr(clause)))
  <2>1. Usable(clauses)
    BY ProperUsable
  <2>2. clause \in AnyWord /\ Usable(clause) /\ clause.tag = "cons" /\ Cdr(clause).tag = "cons"
    BY <1>3, <2>1, FirstAndRest DEF TwoForms, OneArgument
  <2>3. Car(clause) \in AnyWord /\ Usable(Car(clause)) /\ Cdr(clause) \in AnyWord /\ Usable(Cdr(clause))
    BY <2>2, FirstAndRest
  <2>4. Car(Cdr(clause)) \in AnyWord /\ Usable(Car(Cdr(clause)))
    BY <2>2, <2>3, FirstAndRest
  <2>5. f \in AnyFrame /\ UsableFrame(f)
    BY <1>3, <2>4, NoArgs, NewFrame DEF AnyName
  <2>6. Evaluate(Car(clause), Append(frames, f))
    BY <1>3 DEF CondFrom
  <2> QED
    BY <2>3, <2>5, <2>6, Pushed, GoOn
<1> QED
  BY <1>1, <1>2, <1>3

LEMMA CondStep == ASSUME EInv, EvalCond \/ CondTested PROVE EInv'
<1>1. CASE EvalCond
  <2>1. mode # "idle" /\ focus.tag = "cons" /\ CondFrom(Cdr(focus), stack)
    BY <1>1 DEF EvalCond, Calling
  <2> QED
    BY <2>1, FocusList, InHand, CondFromStep
<1>2. CASE CondTested
  <2>1. mode # "idle" /\ stack # << >> /\ Top.kind = "cond"
    BY <1>2 DEF CondTested, Awaiting
  <2>2. /\ Top.body \in AnyWord /\ Usable(Top.body)
        /\ Top.list \in AnyWord /\ Usable(Top.list) /\ Top.list.tag = "cons"
    BY <2>1, Frames, ProperUsable DEF AnyFrame, UsableFrame, SoundFrame, Proper, Usable
  <2>3. CASE focus # Nil
    BY <1>2, <2>1, <2>2, <2>3, Frames, GoOn DEF CondTested
  <2>4. CASE focus = Nil
    <3>1. CondFrom(Cdr(Top.list), Below)
      BY <1>2, <2>4 DEF CondTested
    <3>2. Cdr(Top.list) \in AnyWord /\ Proper(Cdr(Top.list), Len(arena))
      BY <2>1, <2>2, FirstAndRest
    <3> QED
      BY <2>1, <3>1, <3>2, Frames, CondFromStep
  <2> QED
    BY <2>3, <2>4
<1> QED
  BY <1>1, <1>2

\* eval_args meets proper lists only: it never takes a raw car of no pair.
LEMMA ArgsFromStep ==
    ASSUME EInv, mode # "idle", NEW name \in AnyName,
           NEW list \in AnyWord, Proper(list, Len(arena)),
           NEW args \in Seq(AnyWord), \A i \in 1..Len(args) : Usable(args[i]),
           NEW frames \in Seq(AnyFrame), \A i \in 1..Len(frames) : UsableFrame(frames[i]),
           ArgsFrom(name, list, args, frames)
    PROVE  EInv'
<1>1. CASE list = Nil /\ name \in Primitive
  <2> DEFINE f == Frame("call", name, Nil, args, Nil)
  <2>1. f \in AnyFrame /\ UsableFrame(f)
    BY NoArgs, NewFrame
  <2>2. /\ mode' = "call" /\ stack' = Append(frames, f) /\ focus' = Nil
        /\ UNCHANGED << arena, values, bindings, issued >>
    BY <1>1 DEF ArgsFrom, Unchanged, historyVars
  <2> QED
    BY <2>1, <2>2, NoArgs, Pushed, ControlStep
<1>2. CASE list = Nil /\ name \notin Primitive
  BY <1>2, RaiseStep DEF ArgsFrom
<1>3. CASE list # Nil
  <2> DEFINE f == Frame("args", name, Cdr(list), args, Nil)
  <2>1. list.tag = "cons" /\ Usable(list)
    BY <1>3, ProperUsable DEF Proper
  <2>2. /\ Car(list) \in AnyWord /\ Usable(Car(list))
        /\ Cdr(list) \in AnyWord /\ Proper(Cdr(list), Len(arena))
    BY <2>1, FirstAndRest
  <2>3. f \in AnyFrame /\ UsableFrame(f)
    BY <2>2, NoArgs, NewFrame
  <2>4. Evaluate(Car(list), Append(frames, f))
    BY <1>3, <2>1 DEF ArgsFrom
  <2> QED
    BY <2>2, <2>3, <2>4, Pushed, GoOn
<1> QED
  BY <1>1, <1>2, <1>3

LEMMA CallStep == ASSUME EInv, EvalCall \/ ArgEvaluated PROVE EInv'
<1>1. CASE EvalCall
  <2>1. mode # "idle" /\ focus.tag = "cons" /\ ArgsFrom(Car(focus).name, Cdr(focus), << >>, stack)
    BY <1>1 DEF EvalCall
  <2> QED
    BY <2>1, FocusList, InHand, NoArgs, ArgsFromStep
<1>2. CASE ArgEvaluated
  <2> DEFINE args == Append(Top.args, focus)
  <2>1. /\ mode # "idle" /\ stack # << >> /\ Top.kind = "args"
        /\ ArgsFrom(Top.name, Top.list, args, Below)
    BY <1>2 DEF ArgEvaluated, Awaiting
  <2>2. /\ Top.name \in AnyName /\ Top.list \in AnyWord /\ Proper(Top.list, Len(arena))
        /\ Top.args \in Seq(AnyWord) /\ \A i \in 1..Len(Top.args) : Usable(Top.args[i])
    BY <2>1, Frames DEF AnyFrame, UsableFrame, SoundFrame, Usable
  <2>3. focus \in AnyWord /\ Usable(focus)
    BY <2>1, InHand
  <2>4. args \in Seq(AnyWord) /\ \A i \in 1..Len(args) : Usable(args[i])
    <3>1. /\ args \in Seq(AnyWord) /\ Len(args) = Len(Top.args) + 1
          /\ \A i \in 1..Len(Top.args) : args[i] = Top.args[i]
          /\ args[Len(Top.args) + 1] = focus
      BY <2>2, <2>3, AppendProperties
    <3> QED
      BY <2>2, <2>3, <3>1
  <2> HIDE DEF args
  <2> QED
    BY <2>1, <2>2, <2>4, Frames, ArgsFromStep
<1> QED
  BY <1>1, <1>2

-----------------------------------------------------------------------------
(* The steps that change the tables: the host, and the start of a form. *)

\* Values are added behind the ones that are there.
LEMMA Added ==
    ASSUME NEW old \in Seq(AnyEntry), Len(old) = Len(issued), issued \in Seq(AnyEntry),
           \A i \in 1..Len(old) : old[i] \in {issued[i], Gone},
           NEW new \in Seq(AnyEntry), values' = old \o new, issued' = issued \o new
    PROVE  /\ values' \in Seq(AnyEntry) /\ issued' \in Seq(AnyEntry) /\ TableForgets'
           /\ Len(values') = Len(old) + Len(new)
           /\ \A i \in 1..Len(old) : values'[i] = old[i] /\ issued'[i] = issued[i]
           /\ \A i \in 1..Len(new) :
                 values'[Len(old) + i] = new[i] /\ issued'[Len(old) + i] = new[i]
<1>1. Len(old) \in Nat /\ Len(new) \in Nat
  OBVIOUS
<1>2. /\ values' \in Seq(AnyEntry) /\ Len(values') = Len(old) + Len(new)
      /\ \A i \in 1..(Len(old) + Len(new)) :
            values'[i] = IF i <= Len(old) THEN old[i] ELSE new[i - Len(old)]
  <2>1. old \in Seq(AnyEntry) /\ new \in Seq(AnyEntry) /\ values' = old \o new
    OBVIOUS
  <2> QED
    BY ONLY <2>1, ConcatProperties
<1>3. /\ issued' \in Seq(AnyEntry) /\ Len(issued') = Len(old) + Len(new)
      /\ \A i \in 1..(Len(old) + Len(new)) :
            issued'[i] = IF i <= Len(old) THEN issued[i] ELSE new[i - Len(old)]
  <2>1. /\ issued \in Seq(AnyEntry) /\ new \in Seq(AnyEntry) /\ issued' = issued \o new
        /\ Len(issued) = Len(old)
    OBVIOUS
  <2> QED
    BY ONLY <2>1, ConcatProperties
<1>4. \A i \in 1..Len(old) : values'[i] = old[i] /\ issued'[i] = issued[i]
  BY <1>1, <1>2, <1>3
<1>5. ASSUME NEW i \in 1..Len(new)
      PROVE  values'[Len(old) + i] = new[i] /\ issued'[Len(old) + i] = new[i]
  <2>1. /\ Len(old) + i \in 1..(Len(old) + Len(new)) /\ ~(Len(old) + i <= Len(old))
        /\ Len(old) + i - Len(old) = i
    BY <1>1
  <2>2. values'[Len(old) + i] = new[Len(old) + i - Len(old)]
    BY <1>2, <2>1
  <2>3. issued'[Len(old) + i] = new[Len(old) + i - Len(old)]
    BY <1>3, <2>1
  <2> QED
    BY ONLY <2>1, <2>2, <2>3
<1>6. TableForgets'
  BY <1>1, <1>2, <1>3 DEF TableForgets
<1> QED
  BY <1>2, <1>3, <1>4, <1>5, <1>6

\* One value is added: its word is usable, and so are the words there were.
LEMMA AddOne ==
    ASSUME EInv, NEW kind \in Transient \cup Persistent, NEW lifetime \in {"transient", "persistent"},
           Add(kind, lifetime, 1), arena' = arena
    PROVE  /\ values' \in Seq(AnyEntry) /\ issued' \in Seq(AnyEntry) /\ TableForgets'
           /\ \A w : Usable(w) => Sound(w, Len(arena), values', issued')
           /\ \A i \in 1..Len(values) : values'[i] = values[i]
           /\ Len(values) + 1 \in Nat
           /\ \A w : w.tag = "boxed" /\ w.at = Len(values) + 1 => Sound(w, Len(arena), values', issued')
           /\ values'[Len(values) + 1].lifetime = lifetime
<1> DEFINE new == [i \in 1..1 |-> Entry(kind, lifetime, Len(issued) + i)]
<1>1. values \in Seq(AnyEntry) /\ issued \in Seq(AnyEntry) /\ Len(values) = Len(issued)
      /\ Len(values) \in Nat /\ \A i \in 1..Len(values) : values[i] \in {issued[i], Gone}
  BY DEF EInv, TypeOK, TableForgets
<1>2. new \in Seq(AnyEntry) /\ Len(new) = 1 /\ new[1].lifetime = lifetime
  <2>1. \A i \in 1..1 : Entry(kind, lifetime, Len(issued) + i) \in AnyEntry
    BY <1>1 DEF Entry, AnyEntry
  <2>2. new[1] = Entry(kind, lifetime, Len(issued) + 1)
    OBVIOUS
  <2> QED
    BY <2>1, <2>2 DEF Entry
<1>3. values' = values \o new /\ issued' = issued \o new
  BY DEF Add
<1> HIDE DEF new
<1>4. /\ values' \in Seq(AnyEntry) /\ issued' \in Seq(AnyEntry) /\ TableForgets'
      /\ Len(values') = Len(values) + Len(new)
      /\ \A i \in 1..Len(values) : values'[i] = values[i] /\ issued'[i] = issued[i]
      /\ \A i \in 1..Len(new) :
            values'[Len(values) + i] = new[i] /\ issued'[Len(values) + i] = new[i]
  BY <1>1, <1>2, <1>3, Added, Zenon
<1>5. /\ values'[Len(values) + 1] = new[1] /\ issued'[Len(values) + 1] = new[1]
      /\ Len(values') = Len(values) + 1
  BY <1>2, <1>4
<1>6. ASSUME NEW w, Usable(w) PROVE Sound(w, Len(arena), values', issued')
  <2>1. w.tag = "boxed" => w.at \in 1..Len(values') /\ values'[w.at] = issued'[w.at]
    BY <1>1, <1>4, <1>5, <1>6 DEF Usable, Sound
  <2> QED
    BY <1>6, <2>1 DEF Usable, Sound
<1>7. ASSUME NEW w, w.tag = "boxed", w.at = Len(values) + 1
      PROVE  Sound(w, Len(arena), values', issued')
  BY <1>1, <1>4, <1>5, <1>7 DEF Usable, Sound
<1> QED
  BY <1>1, <1>2, <1>4, <1>5, <1>6, <1>7

\* What a primitive answers with becomes the focus of the waiting call.
LEMMA AnswerStep ==
    ASSUME EInv, PrimitiveReturns \/ PrimitiveFails \/ (\E k \in Persistent : PrimitiveUnwraps(k))
    PROVE  EInv'
<1>1. CASE PrimitiveReturns
  <2>1. mode # "idle" /\ stack # << >>
    BY <1>1 DEF PrimitiveReturns, EInv
  <2>2. PICK w \in {Nil, True} \cup Range(Top.args) : focus' = w
    BY <1>1 DEF PrimitiveReturns
  <2>3. w \in AnyWord /\ Usable(w)
    <3>1. Top.args \in Seq(AnyWord) /\ \A i \in 1..Len(Top.args) : Usable(Top.args[i])
      BY <2>1, Frames DEF AnyFrame, UsableFrame, SoundFrame, Usable
    <3>2. \A v \in Range(Top.args) : v \in AnyWord /\ Usable(v)
      BY <3>1 DEF Range
    <3> QED
      BY <2>2, <3>2, Constants, PlainUsable
  <2>4. /\ mode' = "value" /\ stack' = Below
        /\ UNCHANGED << arena, values, bindings, issued >>
    BY <1>1 DEF PrimitiveReturns
  <2> QED
    BY <2>1, <2>2, <2>3, <2>4, Frames, ControlStep
<1>2. CASE PrimitiveFails
  BY <1>2, FinishStep DEF PrimitiveFails
<1>3. ASSUME NEW k \in Persistent, PrimitiveUnwraps(k) PROVE EInv'
  <2>1. mode # "idle" /\ stack # << >> /\ UNCHANGED << arena, bindings, issued >>
    BY <1>3 DEF PrimitiveUnwraps, EInv
  <2>2. \/ mode' = "value" /\ focus' = True /\ stack' = Below /\ values' = values
        \/ Finish("host failed", << >>)
    BY <1>3 DEF PrimitiveUnwraps
  <2>3. CASE Finish("host failed", << >>)
    BY <2>1, <2>3, FinishStep
  <2>4. CASE mode' = "value" /\ focus' = True /\ stack' = Below /\ values' = values
    BY <2>1, <2>4, Frames, Constants, PlainUsable, ControlStep
  <2> QED
    BY <2>2, <2>3, <2>4
<1> QED
  BY <1>1, <1>2, <1>3

LEMMA WrapStep == ASSUME EInv, NEW kind \in Transient, PrimitiveWraps(kind) PROVE EInv'
<1>1. /\ mode = "call" /\ mode' = "value" /\ focus' = Boxed(Len(values) + 1) /\ stack' = Below
      /\ Add(kind, "transient", 1) /\ UNCHANGED << arena, bindings >>
  BY DEF PrimitiveWraps
<1>2. /\ values' \in Seq(AnyEntry) /\ issued' \in Seq(AnyEntry) /\ TableForgets'
      /\ \A w : Usable(w) => Sound(w, Len(arena), values', issued')
      /\ \A i \in 1..Len(values) : values'[i] = values[i]
      /\ Len(values) + 1 \in Nat
      /\ \A w : w.tag = "boxed" /\ w.at = Len(values) + 1 => Sound(w, Len(arena), values', issued')
  BY <1>1, AddOne
<1>3. stack # << >> /\ Below \in Seq(AnyFrame) /\ \A i \in 1..Len(Below) : UsableFrame(Below[i])
  BY <1>1, Frames DEF EInv
<1>4. TypeOK'
  BY <1>1, <1>2, <1>3, BoxedWord DEF EInv, TypeOK
<1>5. BindingsStay'
  BY <1>1, <1>2 DEF EInv, BindingsStay, Usable, Sound
<1>6. FormUsable'
  <2>1. Sound(focus', Len(arena'), values', issued')
    BY <1>1, <1>2, BoxedWord
  <2>2. \A f : UsableFrame(f) => SoundFrame(f, Len(arena'), values', issued')
    BY <1>1, <1>2 DEF UsableFrame, SoundFrame, Usable
  <2>3. \A i \in 1..Len(stack') : SoundFrame(stack'[i], Len(arena'), values', issued')
    BY <1>1, <1>3, <2>2
  <2>4. \A i \in 1..Len(arena') :
           Sound(arena'[i].car, Len(arena'), values', issued') /\ Proper(arena'[i].cdr, Len(arena'))
    BY <1>1, <1>2 DEF EInv, FormUsable
  <2> QED
    BY <2>1, <2>3, <2>4 DEF FormUsable, Usable, UsableFrame
<1> QED
  BY <1>1, <1>2, <1>4, <1>5, <1>6 DEF EInv

LEMMA BindStep ==
    ASSUME EInv, NEW name \in Bindable,
           BindNil(name) \/ (\E kind \in Persistent : BindNew(name, kind))
    PROVE  EInv'
<1>1. CASE BindNil(name)
  <2>1. /\ bindings' = [bindings EXCEPT ![name] = Nil]
        /\ UNCHANGED << mode, focus, stack, arena, values, issued >>
    BY <1>1 DEF BindNil, controlVars, historyVars
  <2>2. TypeOK'
    BY <2>1, Constants DEF EInv, TypeOK
  <2>3. TableForgets' /\ FormUsable'
    BY <2>1 DEF EInv, TableForgets, FormUsable, Usable, Sound, UsableFrame, SoundFrame
  <2>4. BindingsStay'
    BY <2>1, Constants DEF EInv, TypeOK, BindingsStay, Usable, Sound
  <2> QED
    BY <2>1, <2>2, <2>3, <2>4 DEF EInv
<1>2. ASSUME NEW kind \in Persistent, BindNew(name, kind) PROVE EInv'
  <2> DEFINE w == Boxed(Len(values) + 1)
  <2>1. /\ Add(kind, "persistent", 1) /\ bindings' = [bindings EXCEPT ![name] = w]
        /\ UNCHANGED << mode, focus, stack, arena >>
    BY <1>2 DEF BindNew, controlVars
  <2>2. /\ values' \in Seq(AnyEntry) /\ issued' \in Seq(AnyEntry) /\ TableForgets'
        /\ \A v : Usable(v) => Sound(v, Len(arena), values', issued')
        /\ \A i \in 1..Len(values) : values'[i] = values[i]
        /\ Len(values) + 1 \in Nat
        /\ \A v : v.tag = "boxed" /\ v.at = Len(values) + 1 => Sound(v, Len(arena), values', issued')
        /\ values'[Len(values) + 1].lifetime = "persistent"
    BY <2>1, AddOne
  <2>3. w \in AnyWord /\ w.tag = "boxed" /\ w.at = Len(values) + 1
    BY <2>2, BoxedWord
  <2> HIDE DEF w
  <2>4. TypeOK'
    BY <2>1, <2>2, <2>3 DEF EInv, TypeOK
  <2>5. ASSUME NEW n \in Bindable
        PROVE  /\ bindings'[n].tag # "cons"
               /\ bindings'[n].tag = "boxed" =>
                     /\ Sound(bindings'[n], Len(arena'), values', issued')
                     /\ values'[bindings'[n].at].lifetime = "persistent"
    <3>1. CASE n = name
      BY <2>1, <2>2, <2>3, <3>1 DEF EInv, TypeOK
    <3>2. CASE n # name
      <4>1. bindings'[n] = bindings[n]
        BY <2>1, <3>2 DEF EInv, TypeOK
      <4>2. bindings[n].tag = "boxed" => bindings[n].at \in 1..Len(values)
        BY DEF EInv, BindingsStay, Usable, Sound
      <4> QED
        BY <2>1, <2>2, <4>1, <4>2 DEF EInv, BindingsStay
    <3> QED
      BY <3>1, <3>2
  <2>6. BindingsStay'
    BY <2>5 DEF BindingsStay, Usable
  <2>7. FormUsable'
    <3>1. \A f : UsableFrame(f) => SoundFrame(f, Len(arena'), values', issued')
      BY <2>1, <2>2 DEF UsableFrame, SoundFrame, Usable
    <3> QED
      BY <2>1, <2>2, <3>1 DEF EInv, FormUsable, Usable, UsableFrame
  <2> QED
    BY <2>1, <2>2, <2>4, <2>6, <2>7 DEF EInv
<1> QED
  BY <1>1, <1>2

\* A form is read: the table is cleared, and the literals are added behind.
LEMMA EvalStringStep == ASSUME EInv, NEW f \in Form, EvalString(f) PROVE EInv'
<1> DEFINE old == Cleared(values)
           literals == [i \in 1..f.strings |-> Entry("str", "transient", Len(issued) + i)]
           place(w) == IF w.tag = "boxed" THEN Boxed(w.at + Len(old)) ELSE w
<1>1. /\ arena' = [i \in 1..Len(f.cells) |-> [car |-> place(f.cells[i].car), cdr |-> f.cells[i].cdr]]
      /\ focus' = place(f.root)
      /\ values' = old \o literals /\ issued' = issued \o literals
      /\ mode' = "eval" /\ stack' = << >> /\ bindings' = bindings
  BY DEF EvalString
<1>2. /\ f.strings \in Nat /\ f.cells \in Seq([car : AnyWord, cdr : AnyWord])
      /\ f.root \in AnyWord /\ Within(f.root, Len(f.cells), f.strings)
      /\ \A i \in 1..Len(f.cells) :
            Within(f.cells[i].car, Len(f.cells), f.strings) /\ Proper(f.cells[i].cdr, Len(f.cells))
  <2>1. /\ f.strings \in Nat /\ f.cells \in Seq([car : AnyWord, cdr : AnyWord])
        /\ f.root \in AnyWord /\ Within(f.root, Len(f.cells), f.strings)
        /\ \A i \in 1..Len(f.cells) :
              Within(f.cells[i].car, i - 1, f.strings) /\ Proper(f.cells[i].cdr, i - 1)
    BY FormAssumption
  <2>2. \A i \in 1..Len(f.cells) : \A k \in 1..(i - 1) : k \in 1..Len(f.cells)
    BY <2>1
  <2> QED
    BY <2>1, <2>2 DEF Within, Proper
<1>3. /\ values \in Seq(AnyEntry) /\ Len(values) \in Nat /\ Gone \in AnyEntry
      /\ issued \in Seq(AnyEntry) /\ Len(values) = Len(issued)
  BY DEF EInv, TypeOK, TableForgets, Gone, AnyEntry
<1>4. /\ old \in Seq(AnyEntry) /\ Len(old) = Len(values)
      /\ \A i \in 1..Len(values) :
            old[i] = IF values[i].lifetime = "transient" THEN Gone ELSE values[i]
  BY <1>3 DEF Cleared
<1>5. \A i \in 1..Len(old) : old[i] \in {issued[i], Gone}
  BY <1>3, <1>4 DEF EInv, TableForgets
<1>6. literals \in Seq(AnyEntry) /\ Len(literals) = f.strings
  <2>1. \A i \in 1..f.strings : Entry("str", "transient", Len(issued) + i) \in AnyEntry
    BY <1>2, <1>3 DEF Entry, AnyEntry
  <2> QED
    BY <1>2, <2>1
<1> HIDE DEF old, literals
<1>7. /\ values' \in Seq(AnyEntry) /\ issued' \in Seq(AnyEntry) /\ TableForgets'
      /\ Len(values') = Len(old) + Len(literals)
      /\ \A i \in 1..Len(old) : values'[i] = old[i] /\ issued'[i] = issued[i]
      /\ \A i \in 1..Len(literals) :
            values'[Len(old) + i] = literals[i] /\ issued'[Len(old) + i] = literals[i]
  <2>1. values' = old \o literals /\ issued' = issued \o literals
    BY ONLY <1>1
  <2>2. old \in Seq(AnyEntry) /\ issued \in Seq(AnyEntry) /\ Len(old) = Len(issued)
    BY ONLY <1>3, <1>4
  <2> QED
    BY ONLY <1>5, <1>6, <2>1, <2>2, Added, Zenon
<1>8. ASSUME NEW w \in AnyWord, Within(w, Len(f.cells), f.strings)
      PROVE  place(w) \in AnyWord /\ Sound(place(w), Len(f.cells), values', issued')
  <2>1. CASE w.tag = "boxed"
    <3> DEFINE k == w.at
    <3>1. k \in 1..f.strings /\ k + Len(old) \in Nat /\ Len(old) + k = k + Len(old)
      BY <1>2, <1>3, <1>4, <1>8, <2>1 DEF Within
    <3>2. place(w) = Boxed(k + Len(old))
      BY <2>1
    <3>3. place(w) \in AnyWord /\ place(w).tag = "boxed" /\ place(w).at = k + Len(old)
      BY <3>1, <3>2, BoxedWord
    <3>4. k + Len(old) \in 1..Len(values') /\ values'[k + Len(old)] = issued'[k + Len(old)]
      <4>1. k \in 1..Len(literals)
        BY <1>6, <3>1
      <4>2. Len(old) \in Nat /\ Len(literals) \in Nat
        BY <1>2, <1>3, <1>4, <1>6
      <4>3. values'[Len(old) + k] = issued'[Len(old) + k]
        BY <1>7, <4>1, Zenon
      <4>4. Len(old) + k \in 1..(Len(old) + Len(literals))
        BY ONLY <4>1, <4>2
      <4>5. Len(values') = Len(old) + Len(literals)
        BY <1>7
      <4> QED
        BY ONLY <3>1, <4>3, <4>4, <4>5
    <3> QED
      BY <3>3, <3>4 DEF Sound
  <2>2. CASE w.tag # "boxed"
    BY <1>8, <2>2 DEF Sound, Within
  <2> QED
    BY <2>1, <2>2
<1> HIDE DEF place
<1>9. /\ arena' \in Seq([car : AnyWord, cdr : AnyWord]) /\ Len(arena') = Len(f.cells)
      /\ \A i \in 1..Len(f.cells) :
            /\ Sound(arena'[i].car, Len(f.cells), values', issued')
            /\ Proper(arena'[i].cdr, Len(f.cells))
  <2>1. \A i \in 1..Len(f.cells) :
           /\ f.cells[i].car \in AnyWord /\ f.cells[i].cdr \in AnyWord
           /\ place(f.cells[i].car) \in AnyWord
           /\ Sound(place(f.cells[i].car), Len(f.cells), values', issued')
    <3>1. \A i \in 1..Len(f.cells) : f.cells[i] \in [car : AnyWord, cdr : AnyWord]
      BY <1>2, ElementOfSeq
    <3>2. \A i \in 1..Len(f.cells) : f.cells[i].car \in AnyWord /\ f.cells[i].cdr \in AnyWord
      BY <3>1
    <3> QED
      BY <1>2, <1>8, <3>2, Zenon
  <2>2. Len(f.cells) \in Nat
    BY <1>2
  <2>3. \A i \in 1..Len(f.cells) :
           [car |-> place(f.cells[i].car), cdr |-> f.cells[i].cdr] \in [car : AnyWord, cdr : AnyWord]
    BY <2>1
  <2>4. arena' \in Seq([car : AnyWord, cdr : AnyWord]) /\ Len(arena') = Len(f.cells)
    BY <1>1, <2>2, <2>3
  <2>5. \A i \in 1..Len(f.cells) :
           arena'[i].car = place(f.cells[i].car) /\ arena'[i].cdr = f.cells[i].cdr
    BY <1>1
  <2> QED
    BY <1>2, <2>1, <2>4, <2>5
<1>10. focus' \in AnyWord /\ Sound(focus', Len(arena'), values', issued')
  BY <1>1, <1>2, <1>8, <1>9
<1>11. TypeOK'
  BY <1>1, <1>7, <1>9, <1>10 DEF EInv, TypeOK
<1>12. FormUsable'
  <2>1. Len(stack') = 0
    BY <1>1
  <2>2. \A i \in 1..Len(arena') :
           Sound(arena'[i].car, Len(arena'), values', issued') /\ Proper(arena'[i].cdr, Len(arena'))
    BY <1>9
  <2> QED
    BY <1>10, <2>1, <2>2 DEF FormUsable, Usable
<1>13. BindingsStay'
  <2>1. ASSUME NEW n \in Bindable
        PROVE  /\ bindings'[n].tag # "cons"
               /\ bindings'[n].tag = "boxed" =>
                     /\ Sound(bindings'[n], Len(arena'), values', issued')
                     /\ values'[bindings'[n].at].lifetime = "persistent"
    <3>1. /\ bindings[n].tag # "cons"
          /\ bindings[n].tag = "boxed" =>
                /\ bindings[n].at \in 1..Len(values) /\ values[bindings[n].at] = issued[bindings[n].at]
                /\ values[bindings[n].at].lifetime = "persistent"
      BY DEF EInv, BindingsStay, Usable, Sound
    <3> QED
      <4>1. ASSUME NEW k \in 1..Len(values), values[k] = issued[k], values[k].lifetime = "persistent"
            PROVE  k \in 1..Len(values') /\ values'[k] = issued'[k] /\ values'[k].lifetime = "persistent"
        <5>1. Len(literals) \in Nat /\ k \in 1..Len(old)
          BY <1>2, <1>4, <1>6
        <5>2. old[k] = values[k] /\ values'[k] = old[k] /\ issued'[k] = issued[k]
          BY <1>4, <1>7, <4>1, <5>1
        <5> QED
          BY <1>3, <1>4, <1>7, <4>1, <5>1, <5>2
      <4> QED
        BY <1>1, <3>1, <4>1 DEF Sound
  <2> QED
    BY <2>1 DEF BindingsStay, Usable
<1> QED
  BY <1>1, <1>7, <1>11, <1>12, <1>13 DEF EInv

-----------------------------------------------------------------------------
(* The results. *)

LEMMA InitEInv == Init => EInv
<1> SUFFICES ASSUME Init PROVE EInv
  OBVIOUS
<1>1. TypeOK
  <2>1. /\ stack \in Seq(AnyFrame) /\ arena \in Seq([car : AnyWord, cdr : AnyWord])
        /\ values \in Seq(AnyEntry) /\ issued \in Seq(AnyEntry)
    BY DEF Init
  <2> QED
    BY <2>1, Constants DEF Init, TypeOK
<1>2. TableForgets /\ FormUsable
  BY DEF Init, TableForgets, FormUsable
<1>3. BindingsStay
  BY Constants DEF Init, BindingsStay
<1> QED
  BY <1>1, <1>2, <1>3 DEF Init, EInv

LEMMA StepEInv == EInv /\ [Next]_vars => EInv'
<1> SUFFICES ASSUME EInv, [Next]_vars PROVE EInv'
  OBVIOUS
<1>1. ASSUME NEW f \in Form, EvalString(f) PROVE EInv'
  BY <1>1, EvalStringStep
<1>2. CASE Evaluation
  BY <1>2, SimpleStep, AccessorStep, CondStep, CallStep DEF Evaluation
<1>3. CASE Answer
  BY <1>3, AnswerStep, WrapStep DEF Answer
<1>4. CASE Binding
  BY <1>4, BindStep DEF Binding
<1>5. CASE UNCHANGED vars
  BY <1>5 DEF EInv, TypeOK, TableForgets, BindingsStay, FormUsable, Usable, UsableFrame, vars,
     controlVars, historyVars
<1> QED
  BY <1>1, <1>2, <1>3, <1>4, <1>5 DEF Next

LEMMA EvaluatorInvariant == Spec => []EInv
<1>1. Init => EInv
  BY InitEInv
<1>2. EInv /\ [Next]_vars => EInv'
  BY StepEInv
<1> QED
  BY <1>1, <1>2, PTL DEF Spec

\* Whatever forms, primitives and bindings come in whatever order, a word that
\* the session can still use denotes the value BoxedTable::add made it for: it
\* is never emptied under a form or a binding, and its slot never reused.
THEOREM WordsMeaningKept == Spec => []WordsKeepMeaning
<1>1. EInv => WordsKeepMeaning
  <2> SUFFICES ASSUME EInv PROVE WordsKeepMeaning
    OBVIOUS
  <2>1. \A n \in Bindable : Usable(bindings[n])
    BY DEF EInv, BindingsStay, Usable, Sound
  <2>2. ASSUME mode # "idle", NEW i \in 1..Len(stack), NEW w \in Range(stack[i].args)
        PROVE  Usable(w)
    <3>1. stack[i] \in AnyFrame /\ UsableFrame(stack[i])
      BY <2>2 DEF EInv, TypeOK, FormUsable
    <3>2. stack[i].args \in Seq(AnyWord) /\ \A j \in 1..Len(stack[i].args) : Usable(stack[i].args[j])
      BY <3>1 DEF AnyFrame, UsableFrame, SoundFrame, Usable
    <3>3. PICK j \in DOMAIN stack[i].args : w = stack[i].args[j]
      BY <2>2 DEF Range
    <3> QED
      BY <3>2, <3>3
  <2>3. mode # "idle" => Usable(focus) /\ \A i \in 1..Len(arena) : Usable(arena[i].car)
    BY DEF EInv, FormUsable
  <2>4. \A w \in Held : Usable(w)
    BY <2>1, <2>2, <2>3 DEF Held
  <2> QED
    BY <2>4 DEF WordsKeepMeaning, Usable, Sound, EInv, TableForgets
<1> QED
  BY <1>1, EvaluatorInvariant, PTL

\* eval takes no raw wsm_car or wsm_cdr of a word that is no pair, so no form
\* that was read, and nothing a host binds or answers, ends the process there.
THEOREM EvaluationNeverDies == Spec => [](mode # "dead")
<1>1. EInv => mode # "dead"
  BY DEF EInv, TypeOK
<1> QED
  BY <1>1, EvaluatorInvariant, PTL

-----------------------------------------------------------------------------
(* The meaning of a form exists: cells refer to earlier cells only.         *)

\* The least of a set of natural numbers, from the library's well-founded
\* minimum, and induction from it.
Before == {p \in Nat \X Nat : p[1] < p[2]}

LEMMA Least ==
    ASSUME NEW T, T \subseteq Nat, T # {}
    PROVE  \E x \in T : \A y \in T : x <= y
<1>1. OpToRel(<, Nat) = Before
  BY DEF OpToRel, Before
<1>2. IsWellFoundedOn(Before, Nat)
  BY <1>1, NatLessThanWellFounded
<1>3. PICK x \in T : \A y \in T : ~ (<< y, x >> \in Before)
  BY <1>2, WFMin
<1>4. \A y \in T : y \in Nat /\ x \in Nat /\ ~(y < x)
  BY <1>3 DEF Before
<1> QED
  BY <1>4

LEMMA Induction ==
    ASSUME NEW T, 0 \in T, \A n \in Nat : n \in T => n + 1 \in T
    PROVE  Nat \subseteq T
<1> SUFFICES ASSUME ~ (Nat \subseteq T) PROVE FALSE
  OBVIOUS
<1> DEFINE S == Nat \ T
<1>1. S \subseteq Nat /\ S # {}
  OBVIOUS
<1>2. PICK x \in S : \A y \in S : x <= y
  BY <1>1, Least
<1>3. x # 0 /\ x \in Nat
  BY <1>2
<1>4. x - 1 \in Nat /\ x - 1 + 1 = x
  BY <1>3
<1>5. x - 1 \in T
  BY <1>2, <1>4
<1> QED
  BY <1>2, <1>4, <1>5

\* Cells are proper lists, and refer to earlier cells only.
Earlier(w, n) == w.tag = "cons" => w.at \in 1..(n - 1)
Ordered ==
    \A n \in 1..Len(arena) : Earlier(arena[n].car, n) /\ Proper(arena[n].cdr, n - 1)

\* M is what every list of the form means, given these answers.
Means(M, answers) == \A n \in 0..Len(arena) : M[n] = MeanAt(M, answers, n)

\* A word's meaning needs that of its list only.
LEMMA WordLocal ==
    ASSUME NEW f, NEW g, NEW C, NEW w, NEW k, w.tag = "cons" => f[w.at] = g[w.at]
    PROVE  MeanWord(f, C, w, k) = MeanWord(g, C, w, k)
  BY DEF MeanWord

\* What a cell refers to comes before it.
LEMMA CellsBefore ==
    ASSUME Ordered, arena \in Seq([car : AnyWord, cdr : AnyWord]), NEW n \in 1..Len(arena)
    PROVE  /\ n \in Nat
           /\ arena[n].car.tag = "cons" => arena[n].car.at \in 1..(n - 1)
           /\ arena[n].cdr.at \in 0..(n - 1)
           /\ arena[n].cdr.tag = "cons" => arena[n].cdr.at \in 1..(n - 1)
           /\ \A m \in 1..(n - 1) : m \in 1..Len(arena)
<1>1. Len(arena) \in Nat /\ n \in Nat /\ n >= 1
  OBVIOUS
<1>2. Earlier(arena[n].car, n) /\ Proper(arena[n].cdr, n - 1)
  BY DEF Ordered
<1>3. arena[n].cdr.at \in 0..(n - 1) /\ (arena[n].cdr.tag = "cons" => arena[n].cdr.at \in 1..(n - 1))
  <2>1. CASE arena[n].cdr = Nil
    <3>1. Nil.at = 0 /\ Nil.tag # "cons"
      BY DEF Nil, Word
    <3> QED
      BY <1>1, <2>1, <3>1
  <2>2. CASE arena[n].cdr # Nil
    <3>1. arena[n].cdr.at \in 1..(n - 1)
      BY <1>2, <2>2 DEF Proper
    <3> QED
      BY <1>1, <3>1
  <2> QED
    BY <2>1, <2>2
<1>4. \A m \in 1..(n - 1) : m \in 1..Len(arena)
  BY <1>1
<1> QED
  BY <1>1, <1>2, <1>3, <1>4 DEF Earlier

\* What is said of a list depends on the lists before it only.
LEMMA MeanLocal ==
    ASSUME Ordered, arena \in Seq([car : AnyWord, cdr : AnyWord]), NEW n \in 0..Len(arena),
           NEW f, NEW g, NEW C, \A i \in 0..(n - 1) : f[i] = g[i]
    PROVE  MeanAt(f, C, n) = MeanAt(g, C, n)
<1>1. Len(arena) \in Nat /\ n \in Nat
  OBVIOUS
<1>2. n # 0 => n \in 1..Len(arena)
  BY <1>1
<1>3. ASSUME NEW m \in 1..n, m \in 1..Len(arena)
      PROVE  /\ f[arena[m].cdr.at] = g[arena[m].cdr.at]
             /\ arena[m].car.tag = "cons" =>
                  /\ f[arena[m].car.at] = g[arena[m].car.at]
                  /\ arena[m].car.at \in 1..n /\ arena[m].car.at \in 1..Len(arena)
             /\ arena[m].cdr.tag = "cons" => arena[m].cdr.at \in 1..n /\ arena[m].cdr.at \in 1..Len(arena)
  <2>1. /\ arena[m].car.tag = "cons" => arena[m].car.at \in 1..(m - 1)
        /\ arena[m].cdr.at \in 0..(m - 1)
        /\ arena[m].cdr.tag = "cons" => arena[m].cdr.at \in 1..(m - 1)
    BY <1>3, CellsBefore
  <2>2. \A i \in 0..(m - 1) : i \in 0..(n - 1)
    BY <1>1
  <2>3. \A i \in 1..(m - 1) : i \in 0..(n - 1) /\ i \in 1..n /\ i \in 1..Len(arena)
    BY <1>1
  <2> QED
    BY <2>1, <2>2, <2>3
<1>4. ASSUME NEW k PROVE MeanForm(f, C, n, k) = MeanForm(g, C, n, k)
  <2>1. CASE n = 0
    BY <2>1 DEF MeanForm
  <2>2. CASE n # 0
    <3> DEFINE list == arena[n].cdr
    <3>1. f[list.at] = g[list.at] /\ (list.tag = "cons" => list.at \in 1..n /\ list.at \in 1..Len(arena))
      BY <1>1, <1>2, <1>3, <2>2
    <3>2. list.tag = "cons" => MeanWord(f, C, Car(list), k) = MeanWord(g, C, Car(list), k)
      BY <1>3, <3>1, WordLocal DEF Car
    <3> HIDE DEF list
    <3>3. OneArgument(list) => MeanWord(f, C, Car(list), k) = MeanWord(g, C, Car(list), k)
      BY <3>2 DEF OneArgument
    <3> QED
      BY <2>2, <3>1, <3>3 DEF MeanForm, list
  <2> QED
    BY <2>1, <2>2
<1>5. ASSUME NEW k PROVE MeanClauses(f, C, n, k) = MeanClauses(g, C, n, k)
  <2>1. CASE n = 0
    BY <2>1 DEF MeanClauses
  <2>2. CASE n # 0 /\ ~TwoForms(arena[n].car)
    BY <2>2 DEF MeanClauses
  <2>3. CASE n # 0 /\ TwoForms(arena[n].car)
    <3> DEFINE clause == arena[n].car
               rest == arena[n].cdr
               body == Car(Cdr(clause))
    <3>1. /\ f[rest.at] = g[rest.at]
          /\ clause.tag = "cons" /\ clause.at \in 1..n /\ clause.at \in 1..Len(arena)
      BY <1>1, <1>2, <1>3, <2>3 DEF TwoForms
    <3>2. /\ Car(clause).tag = "cons" => f[Car(clause).at] = g[Car(clause).at]
          /\ Cdr(clause).at \in 1..n /\ Cdr(clause).at \in 1..Len(arena)
      BY <1>3, <2>3, <3>1 DEF Car, Cdr, TwoForms, OneArgument
    <3>3. body.tag = "cons" => f[body.at] = g[body.at]
      BY <1>3, <3>2 DEF Car
    <3>4. /\ MeanWord(f, C, Car(clause), k) = MeanWord(g, C, Car(clause), k)
          /\ \A j : MeanWord(f, C, body, j) = MeanWord(g, C, body, j)
      BY <3>2, <3>3, WordLocal
    <3> HIDE DEF clause, rest, body
    <3>5. \A m : AfterTest(f, C, body, rest, m) = AfterTest(g, C, body, rest, m)
      BY <3>1, <3>4 DEF AfterTest
    <3>6. /\ MeanClauses(f, C, n, k) = AfterTest(f, C, body, rest, MeanWord(f, C, Car(clause), k))
          /\ MeanClauses(g, C, n, k) = AfterTest(g, C, body, rest, MeanWord(g, C, Car(clause), k))
      BY <2>3 DEF MeanClauses, clause, rest, body
    <3> QED
      BY <3>4, <3>5, <3>6
  <2> QED
    BY <2>1, <2>2, <2>3
<1>6. ASSUME NEW name, NEW done, NEW k
      PROVE  MeanArgs(f, C, n, name, done, k) = MeanArgs(g, C, n, name, done, k)
  <2>1. CASE n = 0
    BY <2>1 DEF MeanArgs
  <2>2. CASE n # 0
    <3>1. /\ f[arena[n].cdr.at] = g[arena[n].cdr.at]
          /\ MeanWord(f, C, arena[n].car, k) = MeanWord(g, C, arena[n].car, k)
      BY <1>1, <1>2, <1>3, <2>2, WordLocal
    <3> QED
      BY <2>2, <3>1 DEF MeanArgs, AfterArg
  <2> QED
    BY <2>1, <2>2
<1> DEFINE forms(h) == [k \in Nat |-> MeanForm(h, C, n, k)]
           clauses(h) == [k \in Nat |-> MeanClauses(h, C, n, k)]
           args(h) == [p \in AnyName \X Seq(AnyWord) \X Nat |-> MeanArgs(h, C, n, p[1], p[2], p[3])]
<1>7. forms(f) = forms(g) /\ clauses(f) = clauses(g)
  BY <1>4, <1>5
<1>8. args(f) = args(g)
  <2>1. \A p : MeanArgs(f, C, n, p[1], p[2], p[3]) = MeanArgs(g, C, n, p[1], p[2], p[3])
    BY <1>6
  <2> DEFINE P == AnyName \X Seq(AnyWord) \X Nat
  <2>2. \A h : args(h) = [p \in P |-> MeanArgs(h, C, n, p[1], p[2], p[3])]
    BY Zenon
  <2> HIDE DEF P, args
  <2> QED
    BY <2>1, <2>2
<1>9. \A h : MeanAt(h, C, n) = [form |-> forms(h), clauses |-> clauses(h), args |-> args(h)]
  BY Zenon DEF MeanAt
<1> HIDE DEF forms, clauses, args
<1> QED
  BY ONLY <1>7, <1>8, <1>9

\* Every form means something: the recursion on cells is well founded.
LEMMA MeaningExists ==
    ASSUME Ordered, arena \in Seq([car : AnyWord, cdr : AnyWord]), NEW C
    PROVE  Means(MeanFrom(C), C)
<1> DEFINE L == Len(arena)
           D == 0..L
           upto(f, m) == /\ f = [n \in D |-> f[n]]
                         /\ \A n \in D : n < m => f[n] = MeanAt(f, C, n)
           T == {m \in Nat : \E f : upto(f, m)}
<1>1. L \in Nat
  OBVIOUS
<1>2. 0 \in T
  <2>1. upto([n \in D |-> 0], 0)
    <3>1. \A n \in D : ~(n < 0)
      BY <1>1
    <3> QED
      BY <3>1
  <2> QED
    BY <2>1
<1>3. ASSUME NEW m \in Nat, m \in T PROVE m + 1 \in T
  <2>1. PICK f : upto(f, m)
    BY <1>3
  <2> DEFINE g == [n \in D |-> IF n = m THEN MeanAt(f, C, n) ELSE f[n]]
  <2>2. g = [n \in D |-> g[n]]
    OBVIOUS
  <2>3. ASSUME NEW n \in D, n < m + 1 PROVE g[n] = MeanAt(g, C, n)
    <3>1. n \in 0..L /\ n \in Nat
      BY <1>1
    <3>2. ASSUME NEW i \in 0..(n - 1) PROVE f[i] = g[i]
      <4>1. i \in D /\ i # m
        BY <1>1, <2>3, <3>1
      <4> QED
        BY <4>1
    <3> HIDE DEF g
    <3>3. MeanAt(f, C, n) = MeanAt(g, C, n)
      BY <3>1, <3>2, MeanLocal
    <3>4. g[n] = MeanAt(f, C, n)
      <4>1. CASE n = m
        BY <4>1 DEF g
      <4>2. CASE n # m
        <5>1. n < m
          BY <2>3, <3>1, <4>2
        <5> QED
          BY <2>1, <4>2, <5>1 DEF g
      <4> QED
        BY <4>1, <4>2
    <3> QED
      BY <3>3, <3>4
  <2>4. upto(g, m + 1)
    BY <2>2, <2>3
  <2> HIDE DEF upto, g
  <2> QED
    BY <2>4
<1>4. Nat \subseteq T
  <2> HIDE DEF T
  <2> QED
    BY <1>2, <1>3, Induction
<1>5. PICK f : upto(f, L + 1)
  <2>1. L + 1 \in T
    BY <1>1, <1>4
  <2> QED
    BY <2>1
<1>6. f = [n \in D |-> MeanAt(f, C, n)]
  <2>1. \A n \in D : f[n] = MeanAt(f, C, n)
    <3>1. \A n \in D : n < L + 1
      BY <1>1
    <3> QED
      BY <1>5, <3>1
  <2>2. f = [n \in D |-> f[n]]
    BY <1>5
  <2> HIDE DEF D, upto
  <2> QED
    BY ONLY <2>1, <2>2
<1> DEFINE F == MeanFrom(C)
<1>7. F = CHOOSE h : h = [n \in D |-> MeanAt(h, C, n)]
  BY DEF MeanFrom
<1>8. F = [n \in D |-> MeanAt(F, C, n)]
  BY ONLY <1>6, <1>7
<1> HIDE DEF F
<1>9. \A n \in D : F[n] = MeanAt(F, C, n)
  BY ONLY <1>8
<1> QED
  BY <1>9 DEF Means, F

-----------------------------------------------------------------------------
(* The waiting calls: what they make of the meaning of the word in focus.   *)

\* What a waiting call makes of the meaning of what it waits for.
Through(M, answers, f, m) ==
    IF m.kind # "value" THEN m
    ELSE CASE f.kind = "access" -> AfterAccess(f.name, m)
           [] f.kind = "cond" -> AfterTest(M, answers, f.body, Cdr(f.list), m)
           [] f.kind = "args" -> AfterArg(M, f.name, f.list, f.args, m)
           [] OTHER -> MeanCall(answers, f.name, f.args, m.made)

\* The whole form means what these waiting calls, the innermost first, make of m.
Chain(M, answers, whole, frames, m) ==
    \E ms : /\ ms[0] = whole /\ ms[Len(frames)] = m
            /\ \A i \in 1..Len(frames) : ms[i - 1] = Through(M, answers, frames[i], ms[i])

\* Meanings depend on the cells of the form and the bindings it found.
LEMMA WordSame ==
    ASSUME arena' = arena, source' = source
    PROVE  \A M, C, w, k : MeanWord(M, C, w, k)' = MeanWord(M, C, w, k)
  BY DEF MeanWord, MeanSymbol, BindingsAfter, Wrong

LEMMA ThroughSame ==
    ASSUME arena' = arena, source' = source
    PROVE  \A M, C, f, m : Through(M, C, f, m)' = Through(M, C, f, m)
<1>1. SUFFICES ASSUME NEW M, NEW C, NEW f, NEW m PROVE Through(M, C, f, m)' = Through(M, C, f, m)
  OBVIOUS
<1>2. AfterAccess(f.name, m)' = AfterAccess(f.name, m)
  BY DEF AfterAccess, Car, Cdr
<1>3. AfterTest(M, C, f.body, Cdr(f.list), m)' = AfterTest(M, C, f.body, Cdr(f.list), m)
  BY WordSame DEF AfterTest, Cdr
<1> QED
  BY <1>2, <1>3 DEF Through

LEMMA ChainSame ==
    ASSUME arena' = arena, source' = source
    PROVE  \A M, C, w, frames, m : Chain(M, C, w, frames, m)' <=> Chain(M, C, w, frames, m)
  BY ThroughSame DEF Chain

LEMMA MeansSame ==
    ASSUME arena' = arena, source' = source
    PROVE  \A M, C : Means(M, C)' <=> Means(M, C)
<1> SUFFICES ASSUME NEW M, NEW C PROVE \A n : MeanAt(M, C, n)' = MeanAt(M, C, n)
  BY DEF Means
<1> SUFFICES ASSUME NEW n PROVE MeanAt(M, C, n)' = MeanAt(M, C, n)
  OBVIOUS
<1>1. \A w : Car(w)' = Car(w) /\ Cdr(w)' = Cdr(w)
  BY DEF Car, Cdr
<1>2. \A w : OneArgument(w)' = OneArgument(w)
  BY <1>1 DEF OneArgument
<1>3. \A w : TwoForms(w)' = TwoForms(w)
  BY <1>1, <1>2 DEF TwoForms
<1>4. \A name, m : AfterAccess(name, m)' = AfterAccess(name, m)
  BY <1>1 DEF AfterAccess
<1>5. \A body, rest, m : AfterTest(M, C, body, rest, m)' = AfterTest(M, C, body, rest, m)
  BY WordSame DEF AfterTest
<1>6. \A k : MeanForm(M, C, n, k)' = MeanForm(M, C, n, k)
  BY <1>1, <1>2, <1>4, WordSame DEF MeanForm
<1>7. \A k : MeanClauses(M, C, n, k)' = MeanClauses(M, C, n, k)
  BY <1>1, <1>3, <1>5, WordSame DEF MeanClauses
<1>8. \A name, done, k : MeanArgs(M, C, n, name, done, k)' = MeanArgs(M, C, n, name, done, k)
  BY WordSame DEF MeanArgs
<1> DEFINE P == AnyName \X Seq(AnyWord) \X Nat
<1>9. \A p : MeanArgs(M, C, n, p[1], p[2], p[3])' = MeanArgs(M, C, n, p[1], p[2], p[3])
  BY <1>8
<1>10. MeanAt(M, C, n) = [form |-> [k \in Nat |-> MeanForm(M, C, n, k)],
                          clauses |-> [k \in Nat |-> MeanClauses(M, C, n, k)],
                          args |-> [p \in P |-> MeanArgs(M, C, n, p[1], p[2], p[3])]]
  BY Zenon DEF MeanAt
<1>11. MeanAt(M, C, n)' = [form |-> [k \in Nat |-> MeanForm(M, C, n, k)'],
                           clauses |-> [k \in Nat |-> MeanClauses(M, C, n, k)'],
                           args |-> [p \in P |-> MeanArgs(M, C, n, p[1], p[2], p[3])']]
  BY Zenon DEF MeanAt
<1> HIDE DEF P
<1> QED
  BY ONLY <1>6, <1>7, <1>9, <1>10, <1>11

\* No call waits; the innermost one gets what it waits for; one more waits.
LEMMA ChainEmpty ==
    ASSUME NEW M, NEW C, NEW w PROVE Chain(M, C, w, << >>, w)
<1> DEFINE ms == [i \in {0} |-> w]
<1>1. ms[0] = w /\ ms[Len(<< >>)] = w /\ Len(<< >>) = 0
  OBVIOUS
<1> HIDE DEF ms
<1> QED
  BY <1>1 DEF Chain

LEMMA ChainWhole ==
    ASSUME NEW M, NEW C, NEW w, NEW m, Chain(M, C, w, << >>, m) PROVE w = m
  BY DEF Chain

LEMMA ChainPop ==
    ASSUME NEW M, NEW C, NEW w, NEW m, NEW frames \in Seq(AnyFrame), frames # << >>,
           Chain(M, C, w, frames, m)
    PROVE  Chain(M, C, w, SubSeq(frames, 1, Len(frames) - 1), Through(M, C, frames[Len(frames)], m))
<1> DEFINE n == Len(frames)
           below == SubSeq(frames, 1, n - 1)
<1>1. n \in Nat /\ n > 0
  OBVIOUS
<1>2. below \in Seq(AnyFrame) /\ Len(below) = n - 1 /\ \A i \in 1..(n - 1) : below[i] = frames[i]
  <2>1. \A i \in 1..(n - 1) : frames[i] \in AnyFrame
    BY <1>1
  <2>2. 1 \in Int /\ n - 1 \in Int
    BY <1>1
  <2>3. /\ below \in Seq(AnyFrame)
        /\ Len(below) = IF 1 <= n - 1 THEN n - 1 - 1 + 1 ELSE 0
        /\ \A i \in 1..(n - 1 - 1 + 1) : below[i] = frames[1 + i - 1]
    BY <2>1, <2>2, SubSeqProperties
  <2>4. Len(below) = n - 1
    BY <1>1, <2>3, Less
  <2> HIDE DEF n, below
  <2>5. ASSUME NEW i \in 1..(n - 1) PROVE below[i] = frames[i]
    <3>1. 1 + i - 1 = i /\ i \in 1..(n - 1 - 1 + 1)
      BY <1>1
    <3> QED
      BY <2>3, <3>1
  <2> QED
    BY <2>3, <2>4, <2>5
<1>3. PICK ms : /\ ms[0] = w /\ ms[n] = m
                /\ \A i \in 1..n : ms[i - 1] = Through(M, C, frames[i], ms[i])
  BY DEF Chain
<1> HIDE DEF n, below
<1>4. ms[n - 1] = Through(M, C, frames[n], m)
  <2>1. n \in 1..n
    BY <1>1
  <2> QED
    BY <1>3, <2>1
<1>5. \A i \in 1..(n - 1) : ms[i - 1] = Through(M, C, below[i], ms[i])
  <2>1. \A i \in 1..(n - 1) : i \in 1..n
    BY <1>1
  <2> QED
    BY <1>2, <1>3, <2>1
<1>6. Chain(M, C, w, below, Through(M, C, frames[n], m))
  BY <1>2, <1>3, <1>4, <1>5 DEF Chain
<1> QED
  BY <1>6 DEF below, n

LEMMA ChainPush ==
    ASSUME NEW M, NEW C, NEW w, NEW m, NEW frames \in Seq(AnyFrame), NEW f \in AnyFrame,
           Chain(M, C, w, frames, Through(M, C, f, m))
    PROVE  Chain(M, C, w, Append(frames, f), m)
<1> DEFINE n == Len(frames)
           more == Append(frames, f)
<1>1. n \in Nat
  OBVIOUS
<1>2. Len(more) = n + 1 /\ more[n + 1] = f /\ \A i \in 1..n : more[i] = frames[i]
  OBVIOUS
<1>3. PICK ms : /\ ms[0] = w /\ ms[n] = Through(M, C, f, m)
                /\ \A i \in 1..n : ms[i - 1] = Through(M, C, frames[i], ms[i])
  BY DEF Chain
<1> DEFINE on == [i \in 0..(n + 1) |-> IF i = n + 1 THEN m ELSE ms[i]]
<1> HIDE DEF n, more
<1>4. on[0] = w /\ on[n + 1] = m /\ \A i \in 0..n : on[i] = ms[i]
  <2>1. 0 \in 0..(n + 1) /\ 0 # n + 1 /\ n + 1 \in 0..(n + 1)
    BY <1>1
  <2>2. \A i \in 0..n : i \in 0..(n + 1) /\ i # n + 1
    BY <1>1
  <2> QED
    BY <1>3, <2>1, <2>2
<1> HIDE DEF on
<1>5. ASSUME NEW i \in 1..(n + 1) PROVE on[i - 1] = Through(M, C, more[i], on[i])
  <2>1. CASE i = n + 1
    <3>1. n + 1 - 1 = n /\ n \in 0..n
      BY <1>1
    <3> QED
      BY <1>2, <1>3, <1>4, <2>1, <3>1
  <2>2. CASE i # n + 1
    <3>1. i \in 1..n /\ i \in 0..n /\ i - 1 \in 0..n
      BY <1>1, <2>2
    <3> QED
      BY <1>2, <1>3, <1>4, <3>1
  <2> QED
    BY <2>1, <2>2
<1>6. Chain(M, C, w, more, m)
  BY <1>2, <1>4, <1>5 DEF Chain
<1> QED
  BY <1>6 DEF more

\* An error goes through every waiting call.
LEMMA ChainError ==
    ASSUME NEW M, NEW C, NEW w, NEW m, NEW frames \in Seq(AnyFrame),
           Chain(M, C, w, frames, m), m.kind # "value"
    PROVE  w = m
<1> DEFINE n == Len(frames)
<1>1. n \in Nat
  OBVIOUS
<1>2. PICK ms : /\ ms[0] = w /\ ms[n] = m
                /\ \A i \in 1..n : ms[i - 1] = Through(M, C, frames[i], ms[i])
  BY DEF Chain
<1> DEFINE T == {i \in Nat : i <= n => ms[n - i] = m}
<1> HIDE DEF n
<1>3. 0 \in T
  BY <1>1, <1>2
<1>4. ASSUME NEW i \in Nat, i \in T PROVE i + 1 \in T
  <2>1. ASSUME i + 1 <= n PROVE ms[n - (i + 1)] = m
    <3>1. i <= n /\ n - i \in 1..n /\ n - i - 1 = n - (i + 1)
      BY <1>1, <2>1
    <3>2. ms[n - i] = m
      BY <1>4, <3>1
    <3>3. ms[n - i - 1] = Through(M, C, frames[n - i], m)
      BY <1>2, <3>1, <3>2
    <3>4. Through(M, C, frames[n - i], m) = m
      BY DEF Through
    <3> QED
      BY ONLY <3>1, <3>3, <3>4
  <2> QED
    BY <2>1
<1>5. n \in T
  <2> HIDE DEF T
  <2>1. Nat \subseteq T
    BY <1>3, <1>4, Induction
  <2> QED
    BY <1>1, <2>1
<1>6. n - n = 0 /\ n <= n
  BY <1>1
<1> QED
  BY <1>2, <1>5, <1>6

-----------------------------------------------------------------------------
(* The invariant: the form still means what it meant when it was read.      *)

\* A call of the history, as Returned writes it.
AnyCall ==
    [name : AnyName, args : Seq(AnyWord), result : AnyWord \cup {Failed},
     bindings : [Bindable -> AnyWord]]

\* What the host may have answered in the end: what it has, and more.
Continues(answers) ==
    /\ Len(answers) \in Nat /\ Len(calls) <= Len(answers)
    /\ \A i \in 1..Len(calls) : answers[i] = calls[i]

\* The meaning of the form, and of what eval has in hand.
Whole(M, answers) == MeanWord(M, answers, source.root, 0)
Value(w) == Meaning("value", w, Len(calls))
Now(M, answers) == IF mode = "eval" THEN MeanWord(M, answers, focus, Len(calls)) ELSE Value(focus)

\* Whatever the host will answer, the form means what the waiting calls make
\* of the word in focus.
Owed ==
    mode # "idle" =>
        \A M, answers : Means(M, answers) /\ Continues(answers) =>
            Chain(M, answers, Whole(M, answers), stack, Now(M, answers))

\* A word of the table as it is, or of a longer one.
Lasts(w, table) == w.tag = "boxed" => w.at \in 1..Len(table)

\* wsm_eval_string returned what the form means, and the text of the value
\* will not change while values are added.
Matches(m) ==
    /\ outcome.kind = m.kind /\ m.made = Len(calls)
    /\ m.kind = "value" => outcome.text = Written(m.value, issued) /\ Lasts(m.value, issued)

Settled ==
    mode = "idle" /\ evals > 0 => \A M : Means(M, calls) => Matches(Whole(M, calls))

CellsLast == \A i \in 1..Len(arena) : Lasts(arena[i].car, issued)

\* The inductive invariant, beside EInv.
MInv ==
    /\ calls \in Seq(AnyCall) /\ Ordered /\ CellsLast
    /\ mode \in {"eval", "value"} => bindings = BindingsAfter(calls, Len(calls))
    /\ mode = "call" => Top.kind = "call" /\ Top.name \in Primitive
    /\ Owed /\ Settled

-----------------------------------------------------------------------------
LEMMA CallsContinue == ASSUME calls \in Seq(AnyCall) PROVE Continues(calls)
  BY DEF Continues

\* The meaning of a list, as a form, as clauses and as arguments.
LEMMA ListMeans ==
    ASSUME NEW M, NEW C, Means(M, C), NEW n \in 0..Len(arena), NEW k \in Nat
    PROVE  /\ M[n].form[k] = MeanForm(M, C, n, k)
           /\ M[n].clauses[k] = MeanClauses(M, C, n, k)
           /\ \A name \in AnyName, done \in Seq(AnyWord) :
                 M[n].args[<< name, done, k >>] = MeanArgs(M, C, n, name, done, k)
<1> DEFINE F == [j \in Nat |-> MeanForm(M, C, n, j)]
           K == [j \in Nat |-> MeanClauses(M, C, n, j)]
           P == AnyName \X Seq(AnyWord) \X Nat
           A == [p \in P |-> MeanArgs(M, C, n, p[1], p[2], p[3])]
<1>1. M[n] = MeanAt(M, C, n)
  BY DEF Means
<1>2. MeanAt(M, C, n) = [form |-> F, clauses |-> K, args |-> A]
  BY Zenon DEF MeanAt
<1>3. F[k] = MeanForm(M, C, n, k) /\ K[k] = MeanClauses(M, C, n, k)
  OBVIOUS
<1>4. ASSUME NEW name \in AnyName, NEW done \in Seq(AnyWord)
      PROVE  A[<< name, done, k >>] = MeanArgs(M, C, n, name, done, k)
  <2> DEFINE q == << name, done, k >>
  <2>1. q \in P /\ q[1] = name /\ q[2] = done /\ q[3] = k
    BY <1>4
  <2> HIDE DEF P, q
  <2>2. A[q] = MeanArgs(M, C, n, q[1], q[2], q[3])
    BY <2>1
  <2> QED
    BY ONLY <2>1, <2>2 DEF q
<1> HIDE DEF F, K, A
<1> QED
  BY ONLY <1>1, <1>2, <1>3, <1>4

\* eval goes on with a word, or has its value, and the form means the same.
LEMMA OnWithWord ==
    ASSUME EInv, MInv, mode \in {"eval", "value"}, NEW w, NEW frames, Evaluate(w, frames),
           \A M, C : Means(M, C) /\ Continues(C) =>
               Chain(M, C, Whole(M, C), frames, MeanWord(M, C, w, Len(calls)))
    PROVE  MInv'
<1>1. /\ mode' = "eval" /\ focus' = w /\ stack' = frames
      /\ UNCHANGED << arena, bindings, calls, source, issued >>
  BY DEF Evaluate, Unchanged, historyVars
<1>2. /\ calls' \in Seq(AnyCall) /\ Ordered' /\ CellsLast'
      /\ bindings' = BindingsAfter(calls, Len(calls))'
  BY <1>1 DEF MInv, Ordered, CellsLast, BindingsAfter
<1>3. Owed'
  <2> SUFFICES ASSUME NEW M, NEW C, Means(M, C)', Continues(C)'
               PROVE  Chain(M, C, Whole(M, C), stack, Now(M, C))'
    BY DEF Owed
  <2>1. Means(M, C) /\ Continues(C)
    BY <1>1, MeansSame DEF Continues
  <2>2. Chain(M, C, Whole(M, C), frames, MeanWord(M, C, w, Len(calls)))
    BY <2>1
  <2>3. Whole(M, C)' = Whole(M, C) /\ Now(M, C)' = MeanWord(M, C, w, Len(calls))
    BY <1>1, WordSame DEF Whole, Now
  <2> QED
    BY <1>1, <2>2, <2>3, ChainSame
<1> QED
  BY <1>1, <1>2, <1>3 DEF MInv, Settled

LEMMA OnWithValue ==
    ASSUME EInv, MInv, mode \in {"eval", "value"}, NEW w, NEW frames, Return(w, frames),
           \A M, C : Means(M, C) /\ Continues(C) =>
               Chain(M, C, Whole(M, C), frames, Value(w))
    PROVE  MInv'
<1>1. /\ mode' = "value" /\ focus' = w /\ stack' = frames
      /\ UNCHANGED << arena, bindings, calls, source, issued >>
  BY DEF Return, Unchanged, historyVars
<1>2. /\ calls' \in Seq(AnyCall) /\ Ordered' /\ CellsLast'
      /\ bindings' = BindingsAfter(calls, Len(calls))'
  BY <1>1 DEF MInv, Ordered, CellsLast, BindingsAfter
<1>3. Owed'
  <2> SUFFICES ASSUME NEW M, NEW C, Means(M, C)', Continues(C)'
               PROVE  Chain(M, C, Whole(M, C), stack, Now(M, C))'
    BY DEF Owed
  <2>1. Means(M, C) /\ Continues(C)
    BY <1>1, MeansSame DEF Continues
  <2>2. Chain(M, C, Whole(M, C), frames, Value(w))
    BY <2>1
  <2>3. Whole(M, C)' = Whole(M, C) /\ Now(M, C)' = Value(w)
    BY <1>1, WordSame DEF Whole, Now, Value
  <2> QED
    BY <1>1, <2>2, <2>3, ChainSame
<1> QED
  BY <1>1, <1>2, <1>3 DEF MInv, Settled

\* An error is raised where the form means it.
LEMMA OnWithError ==
    ASSUME EInv, MInv, mode \in {"eval", "value"}, NEW error, error # "value", Raise(error),
           NEW frames \in Seq(AnyFrame),
           \A M, C : Means(M, C) /\ Continues(C) =>
               Chain(M, C, Whole(M, C), frames, Wrong(error, Len(calls)))
    PROVE  MInv'
<1>1. /\ mode' = "idle" /\ outcome' = [kind |-> error, text |-> << >>]
      /\ UNCHANGED << arena, bindings, calls, source, issued >>
  BY DEF Raise, Finish, historyVars
<1>2. calls' \in Seq(AnyCall) /\ Ordered' /\ CellsLast'
  BY <1>1 DEF MInv, Ordered, CellsLast
<1>3. Settled'
  <2> SUFFICES ASSUME NEW M, Means(M, calls)' PROVE Matches(Whole(M, calls))'
    BY DEF Settled
  <2>1. Means(M, calls)
    BY <1>1, MeansSame DEF Means
  <2>2. Whole(M, calls) = Wrong(error, Len(calls))
    BY <2>1, CallsContinue, ChainError DEF MInv, Wrong, Meaning
  <2>3. Whole(M, calls)' = Wrong(error, Len(calls))
    BY <1>1, <2>2, WordSame DEF Whole
  <2> QED
    BY <1>1, <2>3 DEF Matches, Wrong, Meaning
<1> QED
  BY <1>1, <1>2, <1>3 DEF MInv, Owed

-----------------------------------------------------------------------------
(* The text of a value. *)

\* The printer's function once, over the lists before.
Writing(f, table) ==
    [n \in 0..Len(arena) |->
        IF n = 0 THEN << >>
        ELSE LET car == arena[n].car
                 head == IF car.tag \in {"cons", "nil"}
                         THEN << Open >> \o f[car.at] \o << Close >>
                         ELSE << WriteAtom(car, table) >>
             IN  head \o f[arena[n].cdr.at]]

LEMMA WriteChosen == ASSUME NEW t PROVE WriteFrom(t) = CHOOSE f : f = Writing(f, t)
  BY DEF WriteFrom, Writing

\* What is written depends on the values of the words that are written only.
LEMMA WrittenSame ==
    ASSUME NEW t, NEW u, NEW w, w.tag = "boxed" => t[w.at] = u[w.at],
           \A i \in 1..Len(arena) : arena[i].car.tag = "boxed" => t[arena[i].car.at] = u[arena[i].car.at],
           Len(arena) \in Nat
    PROVE  Written(w, t) = Written(w, u)
<1>0. ASSUME NEW v, v.tag = "boxed" => t[v.at] = u[v.at] PROVE WriteAtom(v, t) = WriteAtom(v, u)
  <2>1. CASE v.tag = "boxed"
    <3> DEFINE shown(e) == Word(e.kind, "", IF e.kind = "handle" THEN 0 ELSE e.of)
    <3>1. WriteAtom(v, t) = shown(t[v.at]) /\ WriteAtom(v, u) = shown(u[v.at])
      BY <2>1, Zenon DEF WriteAtom
    <3>2. t[v.at] = u[v.at]
      BY <1>0, <2>1
    <3> HIDE DEF shown
    <3> QED
      BY ONLY <3>1, <3>2
  <2>2. CASE v.tag # "boxed"
    BY <2>2 DEF WriteAtom
  <2> QED
    BY <2>1, <2>2
<1>1. ASSUME NEW f PROVE Writing(f, t) = Writing(f, u)
  <2>1. ASSUME NEW n \in 0..Len(arena), n # 0
        PROVE  WriteAtom(arena[n].car, t) = WriteAtom(arena[n].car, u)
    <3>1. n \in 1..Len(arena)
      BY <2>1
    <3> QED
      BY <1>0, <3>1
  <2> QED
    BY <2>1 DEF Writing
<1>2. (CHOOSE f : f = Writing(f, t)) = (CHOOSE f : f = Writing(f, u))
  BY <1>1
<1>3. WriteFrom(t) = WriteFrom(u)
  BY <1>2, WriteChosen
<1>4. WriteAtom(w, t) = WriteAtom(w, u)
  BY <1>0
<1> QED
  BY <1>3, <1>4 DEF Written

\* ... and on the cells.
LEMMA WrittenAgain ==
    ASSUME arena' = arena, NEW t, NEW w
    PROVE  Written(w, t)' = Written(w, t)
<1>1. ASSUME NEW f PROVE Writing(f, t)' = Writing(f, t)
  BY DEF Writing
<1>2. (CHOOSE f : f = Writing(f, t)') = (CHOOSE f : f = Writing(f, t))
  BY <1>1
<1>3. WriteFrom(t)' = (CHOOSE f : f = Writing(f, t)')
  BY DEF WriteFrom, Writing
<1>4. WriteFrom(t)' = WriteFrom(t)
  BY <1>2, <1>3, WriteChosen
<1> QED
  BY <1>4 DEF Written

\* A form that was answered stays answered while the table grows behind.
LEMMA MatchesLater ==
    ASSUME NEW m, Matches(m), CellsLast, Len(arena) \in Nat, Len(issued) \in Nat,
           Len(issued') \in Nat, Len(issued) <= Len(issued'),
           \A i \in 1..Len(issued) : issued'[i] = issued[i],
           UNCHANGED << arena, outcome, calls >>
    PROVE  Matches(m)'
<1>1. ASSUME m.kind = "value"
      PROVE  outcome'.text = Written(m.value, issued)' /\ Lasts(m.value, issued')
  <2>1. outcome.text = Written(m.value, issued) /\ Lasts(m.value, issued)
    BY <1>1 DEF Matches
  <2>2. Written(m.value, issued) = Written(m.value, issued')
    BY <2>1, WrittenSame DEF Lasts, CellsLast
  <2>3. Written(m.value, issued)' = Written(m.value, issued')
    BY WrittenAgain
  <2>4. \A i \in 1..Len(issued) : i \in 1..Len(issued')
    OBVIOUS
  <2> QED
    BY <2>1, <2>2, <2>3, <2>4 DEF Lasts
<1> QED
  BY <1>1 DEF Matches

-----------------------------------------------------------------------------
(* The steps of eval. *)

\* The form in the middle of its evaluation, for any meaning of its lists.
LEMMA InEval ==
    ASSUME EInv, MInv, mode = "eval", NEW M, NEW C, Means(M, C), Continues(C)
    PROVE  /\ Chain(M, C, Whole(M, C), stack, MeanWord(M, C, focus, Len(calls)))
           /\ stack \in Seq(AnyFrame) /\ Len(calls) \in Nat
           /\ bindings = BindingsAfter(C, Len(calls))
<1>1. Chain(M, C, Whole(M, C), stack, MeanWord(M, C, focus, Len(calls)))
  BY DEF MInv, Owed, Now
<1>2. stack \in Seq(AnyFrame) /\ Len(calls) \in Nat
  BY DEF EInv, TypeOK, MInv
<1>3. BindingsAfter(calls, Len(calls)) = BindingsAfter(C, Len(calls))
  BY <1>2 DEF BindingsAfter, Continues
<1> QED
  BY <1>1, <1>2, <1>3 DEF MInv

\* A list in focus means what its head says.
LEMMA ListInEval ==
    ASSUME EInv, MInv, mode = "eval", focus.tag = "cons", NEW M, NEW C, Means(M, C), Continues(C)
    PROVE  /\ Chain(M, C, Whole(M, C), stack, MeanForm(M, C, focus.at, Len(calls)))
           /\ focus.at \in 1..Len(arena) /\ focus.at # 0
           /\ arena[focus.at].car = Car(focus) /\ arena[focus.at].cdr = Cdr(focus)
<1>1. focus.at \in 1..Len(arena) /\ Len(arena) \in Nat
  BY DEF EInv, TypeOK, FormUsable, Usable, Sound
<1>2. focus.at \in 0..Len(arena) /\ focus.at # 0
  BY <1>1
<1>3. MeanWord(M, C, focus, Len(calls)) = MeanForm(M, C, focus.at, Len(calls))
  BY <1>2, InEval, ListMeans DEF MeanWord
<1> QED
  BY <1>1, <1>2, <1>3, InEval DEF Car, Cdr

\* The innermost waiting call has what it waits for.
LEMMA InValue ==
    ASSUME EInv, MInv, mode \in {"value", "call"}, stack # << >>, NEW M, NEW C, Means(M, C), Continues(C)
    PROVE  /\ Chain(M, C, Whole(M, C), Below, Through(M, C, Top, Value(focus)))
           /\ Below \in Seq(AnyFrame) /\ Top \in AnyFrame /\ Len(calls) \in Nat
<1>1. Chain(M, C, Whole(M, C), stack, Value(focus))
  BY DEF MInv, Owed, Now
<1>2. stack \in Seq(AnyFrame) /\ Len(calls) \in Nat
  BY DEF EInv, TypeOK, MInv
<1>3. Below \in Seq(AnyFrame) /\ Top \in AnyFrame
  BY Frames
<1> QED
  BY <1>1, <1>2, <1>3, ChainPop DEF Below, Top

LEMMA ValueIs ==
    ASSUME NEW w PROVE Value(w).kind = "value" /\ Value(w).value = w /\ Value(w).made = Len(calls)
  BY DEF Value, Meaning

LEMMA MeanSelf == ASSUME EInv, MInv, SelfEvaluating PROVE MInv'
<1>1. mode = "eval" /\ focus.tag \in {"fix", "nil", "boxed"} /\ Return(focus, stack)
  BY DEF SelfEvaluating
<1>2. \A M, C : MeanWord(M, C, focus, Len(calls)) = Value(focus)
  BY <1>1 DEF MeanWord, Value
<1>3. \A M, C : Means(M, C) /\ Continues(C) => Chain(M, C, Whole(M, C), stack, Value(focus))
  BY <1>1, <1>2, InEval
<1> QED
  BY <1>1, <1>3, OnWithValue

LEMMA MeanOfSymbol == ASSUME EInv, MInv, EvalSymbol PROVE MInv'
<1> DEFINE name == focus.name
<1>1. mode = "eval" /\ focus.tag = "sym"
  BY DEF EvalSymbol
<1>2. stack \in Seq(AnyFrame)
  BY DEF EInv, TypeOK
<1>3. ASSUME NEW M, NEW C, Means(M, C), Continues(C)
      PROVE  /\ Chain(M, C, Whole(M, C), stack, MeanSymbol(C, focus, Len(calls)))
             /\ bindings = BindingsAfter(C, Len(calls))
  BY <1>1, <1>3, InEval DEF MeanWord
<1>4. CASE name = "t"
  <2>1. Return(focus, stack)
    BY <1>4 DEF EvalSymbol
  <2>2. \A C : MeanSymbol(C, focus, Len(calls)) = Value(focus)
    BY <1>4 DEF MeanSymbol, Value
  <2> QED
    BY <1>1, <1>3, <2>1, <2>2, OnWithValue
<1>5. CASE name # "t" /\ name \in Bindable /\ bindings[name] # Unbound
  <2>1. Return(bindings[name], stack)
    BY <1>5 DEF EvalSymbol
  <2>2. \A C : bindings = BindingsAfter(C, Len(calls)) =>
           MeanSymbol(C, focus, Len(calls)) = Value(bindings[name])
    BY <1>5 DEF MeanSymbol, Value
  <2> QED
    BY <1>1, <1>3, <2>1, <2>2, OnWithValue
<1>6. CASE name # "t" /\ ~(name \in Bindable /\ bindings[name] # Unbound)
  <2>1. Raise("unknown symbol")
    BY <1>6 DEF EvalSymbol
  <2>2. \A C : bindings = BindingsAfter(C, Len(calls)) =>
           MeanSymbol(C, focus, Len(calls)) = Wrong("unknown symbol", Len(calls))
    BY <1>6 DEF MeanSymbol
  <2>3. ASSUME NEW M, NEW C, Means(M, C), Continues(C)
        PROVE  Chain(M, C, Whole(M, C), stack, Wrong("unknown symbol", Len(calls)))
    <3>1. /\ Chain(M, C, Whole(M, C), stack, MeanSymbol(C, focus, Len(calls)))
          /\ bindings = BindingsAfter(C, Len(calls))
      BY <1>3, <2>3
    <3>2. MeanSymbol(C, focus, Len(calls)) = Wrong("unknown symbol", Len(calls))
      BY <2>2, <3>1
    <3> QED
      BY ONLY <3>1, <3>2
  <2> QED
    BY <1>1, <1>2, <2>1, <2>3, OnWithError
<1> QED
  BY <1>4, <1>5, <1>6

LEMMA MeanNotCallable == ASSUME EInv, MInv, NotCallable PROVE MInv'
<1>1. mode = "eval" /\ focus.tag = "cons" /\ Car(focus).tag # "sym" /\ Raise("not callable")
  BY DEF NotCallable
<1>2. ASSUME NEW M, NEW C, Means(M, C), Continues(C)
      PROVE  Chain(M, C, Whole(M, C), stack, Wrong("not callable", Len(calls)))
  BY <1>1, <1>2, ListInEval DEF MeanForm
<1>3. stack \in Seq(AnyFrame)
  BY DEF EInv, TypeOK
<1> QED
  BY <1>1, <1>2, <1>3, OnWithError

LEMMA MeanQuote == ASSUME EInv, MInv, EvalQuote PROVE MInv'
<1>1. mode = "eval" /\ focus.tag = "cons" /\ Car(focus).tag = "sym" /\ Car(focus).name = "quote"
  BY DEF EvalQuote, Calling
<1>2. stack \in Seq(AnyFrame)
  BY DEF EInv, TypeOK
<1>3. CASE OneArgument(Cdr(focus))
  <2>1. Return(Car(Cdr(focus)), stack)
    BY <1>3 DEF EvalQuote
  <2>2. ASSUME NEW M, NEW C, Means(M, C), Continues(C)
        PROVE  Chain(M, C, Whole(M, C), stack, Value(Car(Cdr(focus))))
    BY <1>1, <1>3, <2>2, ListInEval DEF MeanForm, Value
  <2> QED
    BY <1>1, <2>1, <2>2, OnWithValue
<1>4. CASE ~OneArgument(Cdr(focus))
  <2>1. Raise("invalid form")
    BY <1>4 DEF EvalQuote
  <2>2. ASSUME NEW M, NEW C, Means(M, C), Continues(C)
        PROVE  Chain(M, C, Whole(M, C), stack, Wrong("invalid form", Len(calls)))
    BY <1>1, <1>4, <2>2, ListInEval DEF MeanForm
  <2> QED
    BY <1>1, <1>2, <2>1, <2>2, OnWithError
<1> QED
  BY <1>3, <1>4

LEMMA MeanAccessor == ASSUME EInv, MInv, EvalAccessor PROVE MInv'
<1> DEFINE name == Car(focus).name
           f == Frame("access", name, Nil, << >>, Nil)
           w == Car(Cdr(focus))
<1>1. mode = "eval" /\ focus.tag = "cons" /\ Car(focus).tag = "sym" /\ name \in {"car", "cdr"}
  BY DEF EvalAccessor, Calling
<1>2. stack \in Seq(AnyFrame)
  BY DEF EInv, TypeOK
<1>3. CASE OneArgument(Cdr(focus))
  <2>1. Evaluate(w, Append(stack, f))
    BY <1>3 DEF EvalAccessor
  <2>2. f \in AnyFrame /\ f.kind = "access" /\ f.name = name
    <3>1. name \in AnyName /\ Nil \in AnyWord /\ << >> \in Seq(AnyWord)
      BY <1>1, FocusList, NoArgs
    <3> HIDE DEF name
    <3> QED
      BY <3>1 DEF Frame, AnyFrame
  <2>3. ASSUME NEW M, NEW C, Means(M, C), Continues(C)
        PROVE  Chain(M, C, Whole(M, C), Append(stack, f), MeanWord(M, C, w, Len(calls)))
    <3> DEFINE m == MeanWord(M, C, w, Len(calls))
    <3>1. Chain(M, C, Whole(M, C), stack, AfterAccess(name, m))
      BY <1>1, <1>3, <2>3, ListInEval DEF MeanForm
    <3> HIDE DEF m, f
    <3>2. Through(M, C, f, m) = AfterAccess(name, m)
      <4>1. CASE m.kind # "value"
        BY <4>1 DEF Through, AfterAccess
      <4>2. CASE m.kind = "value"
        BY <2>2, <4>2 DEF Through
      <4> QED
        BY <4>1, <4>2
    <3>3. Chain(M, C, Whole(M, C), Append(stack, f), m)
      BY <1>2, <2>2, <3>1, <3>2, ChainPush
    <3> QED
      BY <3>3 DEF m
  <2> HIDE DEF f, w
  <2> QED
    BY <1>1, <2>1, <2>3, OnWithWord
<1>4. CASE ~OneArgument(Cdr(focus))
  <2>1. Raise("invalid form")
    BY <1>4 DEF EvalAccessor
  <2>2. ASSUME NEW M, NEW C, Means(M, C), Continues(C)
        PROVE  Chain(M, C, Whole(M, C), stack, Wrong("invalid form", Len(calls)))
    BY <1>1, <1>4, <2>2, ListInEval DEF MeanForm
  <2> QED
    BY <1>1, <1>2, <2>1, <2>2, OnWithError
<1> QED
  BY <1>3, <1>4

LEMMA MeanApply == ASSUME EInv, MInv, ApplyAccessor PROVE MInv'
<1>1. mode = "value" /\ stack # << >> /\ Top.kind = "access"
  BY DEF ApplyAccessor, Awaiting
<1>2. ASSUME NEW M, NEW C, Means(M, C), Continues(C)
      PROVE  Chain(M, C, Whole(M, C), Below, AfterAccess(Top.name, Value(focus)))
  <2>1. Through(M, C, Top, Value(focus)) = AfterAccess(Top.name, Value(focus))
    BY <1>1, ValueIs DEF Through
  <2> QED
    BY <1>1, <1>2, <2>1, InValue
<1>3. Below \in Seq(AnyFrame)
  BY <1>1, Frames
<1>4. CASE focus.tag # "cons"
  <2>1. AfterAccess(Top.name, Value(focus)) = Wrong("type error", Len(calls))
    BY <1>4, ValueIs DEF AfterAccess
  <2>2. Raise("type error")
    BY <1>4 DEF ApplyAccessor
  <2> QED
    BY <1>1, <1>2, <1>3, <2>1, <2>2, OnWithError
<1>5. CASE focus.tag = "cons"
  <2> DEFINE w == IF Top.name = "car" THEN Car(focus) ELSE Cdr(focus)
  <2>1. AfterAccess(Top.name, Value(focus)) = Value(w)
    BY <1>5, ValueIs DEF AfterAccess, Value
  <2>2. Return(w, Below)
    BY <1>5 DEF ApplyAccessor
  <2> HIDE DEF w
  <2> QED
    BY <1>1, <1>2, <2>1, <2>2, OnWithValue
<1> QED
  BY <1>4, <1>5

\* A proper list is empty, or a cell of the form.
LEMMA ProperIs ==
    ASSUME NEW w, Proper(w, Len(arena)), Len(arena) \in Nat
    PROVE  /\ w.at \in 0..Len(arena)
           /\ w = Nil => w.at = 0
           /\ w # Nil => /\ w.tag = "cons" /\ w.at # 0
                         /\ arena[w.at].car = Car(w) /\ arena[w.at].cdr = Cdr(w)
<1>1. Nil.at = 0
  BY DEF Nil, Word
<1>2. CASE w = Nil
  BY <1>1, <1>2
<1>3. CASE w # Nil
  <2>1. w.tag = "cons" /\ w.at \in 1..Len(arena)
    BY <1>3 DEF Proper
  <2>2. w.at \in 0..Len(arena) /\ w.at # 0
    BY <2>1
  <2> QED
    BY <1>3, <2>1, <2>2 DEF Car, Cdr
<1> QED
  BY <1>2, <1>3

\* The loop of eval_cond goes on with the meaning of the clauses left.
LEMMA MeanCondFrom ==
    ASSUME EInv, MInv, mode \in {"eval", "value"},
           NEW clauses \in AnyWord, Proper(clauses, Len(arena)),
           NEW frames \in Seq(AnyFrame), CondFrom(clauses, frames),
           \A M, C : Means(M, C) /\ Continues(C) =>
               Chain(M, C, Whole(M, C), frames, M[clauses.at].clauses[Len(calls)])
    PROVE  MInv'
<1> DEFINE k == Len(calls)
           n == clauses.at
<1>1. k \in Nat /\ Len(arena) \in Nat
  BY DEF MInv, EInv, TypeOK
<1>2. /\ n \in 0..Len(arena)
      /\ clauses = Nil => n = 0
      /\ clauses # Nil => /\ clauses.tag = "cons" /\ n # 0
                          /\ arena[n].car = Car(clauses) /\ arena[n].cdr = Cdr(clauses)
  BY <1>1, ProperIs
<1>3. ASSUME NEW M, NEW C, Means(M, C), Continues(C)
      PROVE  Chain(M, C, Whole(M, C), frames, MeanClauses(M, C, n, k))
  BY <1>1, <1>2, <1>3, ListMeans
<1>4. CASE clauses = Nil
  <2>1. Return(Nil, frames)
    BY <1>4 DEF CondFrom
  <2>2. \A M, C : MeanClauses(M, C, n, k) = Value(Nil)
    BY <1>2, <1>4 DEF MeanClauses, Value
  <2> QED
    BY <1>3, <2>1, <2>2, OnWithValue
<1>5. CASE clauses # Nil /\ ~TwoForms(Car(clauses))
  <2>1. Raise("invalid form")
    BY <1>5 DEF CondFrom
  <2>2. \A M, C : MeanClauses(M, C, n, k) = Wrong("invalid form", k)
    BY <1>2, <1>5 DEF MeanClauses
  <2> QED
    BY <1>3, <2>1, <2>2, OnWithError
<1>6. CASE clauses # Nil /\ TwoForms(Car(clauses))
  <2> DEFINE clause == Car(clauses)
             body == Car(Cdr(clause))
             f == Frame("cond", "", clauses, << >>, body)
             w == Car(clause)
  <2>1. Evaluate(w, Append(frames, f))
    BY <1>2, <1>6 DEF CondFrom
  <2>2. body \in AnyWord
    <3>1. mode # "idle" /\ Usable(clauses) /\ clauses.tag = "cons"
      BY <1>2, <1>6, ProperUsable
    <3>2. clause \in AnyWord /\ Usable(clause) /\ clause.tag = "cons" /\ Cdr(clause).tag = "cons"
      BY <1>6, <3>1, FirstAndRest DEF TwoForms, OneArgument
    <3>3. Cdr(clause) \in AnyWord /\ Usable(Cdr(clause))
      BY <3>1, <3>2, FirstAndRest
    <3> QED
      BY <3>1, <3>2, <3>3, FirstAndRest
  <2>3. f \in AnyFrame /\ f.kind = "cond" /\ f.list = clauses /\ f.body = body
    <3>1. "" \in AnyName /\ << >> \in Seq(AnyWord)
      BY DEF AnyName
    <3> HIDE DEF body
    <3> QED
      BY <2>2, <3>1 DEF Frame, AnyFrame
  <2>4. ASSUME NEW M, NEW C, Means(M, C), Continues(C)
        PROVE  Chain(M, C, Whole(M, C), Append(frames, f), MeanWord(M, C, w, k))
    <3> DEFINE m == MeanWord(M, C, w, k)
    <3>1. MeanClauses(M, C, n, k) = AfterTest(M, C, body, Cdr(clauses), m)
      BY <1>2, <1>6 DEF MeanClauses
    <3>2. Chain(M, C, Whole(M, C), frames, AfterTest(M, C, body, Cdr(clauses), m))
      BY <1>3, <2>4, <3>1
    <3> HIDE DEF m, f, body
    <3>3. Through(M, C, f, m) = AfterTest(M, C, body, Cdr(clauses), m)
      <4>1. CASE m.kind # "value"
        BY <4>1 DEF Through, AfterTest
      <4>2. CASE m.kind = "value"
        BY <2>3, <4>2 DEF Through
      <4> QED
        BY <4>1, <4>2
    <3>4. Chain(M, C, Whole(M, C), Append(frames, f), m)
      BY <2>3, <3>2, <3>3, ChainPush
    <3> QED
      BY <3>4 DEF m
  <2> HIDE DEF f, w
  <2> QED
    BY <2>1, <2>4, OnWithWord
<1> QED
  BY <1>4, <1>5, <1>6

LEMMA MeanCond == ASSUME EInv, MInv, EvalCond \/ CondTested PROVE MInv'
<1>1. CASE EvalCond
  <2>1. /\ mode = "eval" /\ focus.tag = "cons" /\ CondFrom(Cdr(focus), stack)
        /\ Car(focus).tag = "sym" /\ Car(focus).name = "cond"
    BY <1>1 DEF EvalCond, Calling
  <2>2. ASSUME NEW M, NEW C, Means(M, C), Continues(C)
        PROVE  Chain(M, C, Whole(M, C), stack, M[Cdr(focus).at].clauses[Len(calls)])
    BY <2>1, <2>2, ListInEval DEF MeanForm
  <2>3. Cdr(focus) \in AnyWord /\ Proper(Cdr(focus), Len(arena)) /\ stack \in Seq(AnyFrame)
    BY <2>1, FocusList, InHand
  <2> QED
    BY <2>1, <2>2, <2>3, MeanCondFrom
<1>2. CASE CondTested
  <2>1. mode = "value" /\ stack # << >> /\ Top.kind = "cond"
    BY <1>2 DEF CondTested, Awaiting
  <2>2. ASSUME NEW M, NEW C, Means(M, C), Continues(C)
        PROVE  Chain(M, C, Whole(M, C), Below, AfterTest(M, C, Top.body, Cdr(Top.list), Value(focus)))
    <3>1. Through(M, C, Top, Value(focus)) = AfterTest(M, C, Top.body, Cdr(Top.list), Value(focus))
      BY <2>1, ValueIs DEF Through
    <3> QED
      BY <2>1, <2>2, <3>1, InValue
  <2>3. CASE focus # Nil
    <3>1. Evaluate(Top.body, Below)
      BY <1>2, <2>3 DEF CondTested
    <3>2. \A M, C : AfterTest(M, C, Top.body, Cdr(Top.list), Value(focus))
                      = MeanWord(M, C, Top.body, Len(calls))
      BY <2>3, ValueIs DEF AfterTest
    <3> QED
      BY <2>1, <2>2, <3>1, <3>2, OnWithWord
  <2>4. CASE focus = Nil
    <3>1. CondFrom(Cdr(Top.list), Below)
      BY <1>2, <2>4 DEF CondTested
    <3>2. \A M, C : AfterTest(M, C, Top.body, Cdr(Top.list), Value(focus))
                      = M[Cdr(Top.list).at].clauses[Len(calls)]
      BY <2>4, ValueIs DEF AfterTest
    <3>3. /\ Top.list \in AnyWord /\ Usable(Top.list) /\ Top.list.tag = "cons" /\ Below \in Seq(AnyFrame)
      BY <2>1, Frames, ProperUsable DEF AnyFrame, UsableFrame, SoundFrame, Proper, Usable
    <3>4. Cdr(Top.list) \in AnyWord /\ Proper(Cdr(Top.list), Len(arena))
      BY <2>1, <3>3, FirstAndRest
    <3> QED
      BY <2>1, <2>2, <3>1, <3>2, <3>3, <3>4, MeanCondFrom
  <2> QED
    BY <2>3, <2>4
<1> QED
  BY <1>1, <1>2

\* The loop of eval_args goes on with the meaning of the arguments left.
LEMMA MeanArgsFrom ==
    ASSUME EInv, MInv, mode \in {"eval", "value"}, NEW name \in AnyName,
           NEW list \in AnyWord, Proper(list, Len(arena)),
           NEW args \in Seq(AnyWord),
           NEW frames \in Seq(AnyFrame), ArgsFrom(name, list, args, frames),
           \A M, C : Means(M, C) /\ Continues(C) =>
               Chain(M, C, Whole(M, C), frames, M[list.at].args[<< name, args, Len(calls) >>])
    PROVE  MInv'
<1> DEFINE k == Len(calls)
           n == list.at
<1>1. k \in Nat /\ Len(arena) \in Nat
  BY DEF MInv, EInv, TypeOK
<1>2. /\ n \in 0..Len(arena)
      /\ list = Nil => n = 0
      /\ list # Nil => /\ list.tag = "cons" /\ n # 0
                       /\ arena[n].car = Car(list) /\ arena[n].cdr = Cdr(list)
  BY <1>1, ProperIs
<1>3. ASSUME NEW M, NEW C, Means(M, C), Continues(C)
      PROVE  Chain(M, C, Whole(M, C), frames, MeanArgs(M, C, n, name, args, k))
  BY <1>1, <1>2, <1>3, ListMeans
<1>4. CASE list = Nil /\ name \in Primitive
  <2> DEFINE f == Frame("call", name, Nil, args, Nil)
  <2>1. /\ mode' = "call" /\ stack' = Append(frames, f) /\ focus' = Nil
        /\ UNCHANGED << arena, bindings, calls, source, issued >>
    BY <1>4 DEF ArgsFrom, Unchanged, historyVars
  <2>2. f \in AnyFrame /\ f.kind = "call" /\ f.name = name /\ f.args = args
    BY Constants DEF Frame, AnyFrame
  <2> HIDE DEF f
  <2>3. Top' = f
    <3>1. Len(Append(frames, f)) = Len(frames) + 1 /\ Append(frames, f)[Len(frames) + 1] = f
      BY <2>2
    <3> QED
      BY <2>1, <3>1 DEF Top
  <2>4. calls' \in Seq(AnyCall) /\ Ordered' /\ CellsLast'
    BY <2>1 DEF MInv, Ordered, CellsLast
  <2>5. Owed'
    <3> SUFFICES ASSUME NEW M, NEW C, Means(M, C)', Continues(C)'
                 PROVE  Chain(M, C, Whole(M, C), stack, Now(M, C))'
      BY DEF Owed
    <3>1. Means(M, C) /\ Continues(C)
      BY <2>1, MeansSame DEF Continues
    <3>2. MeanArgs(M, C, n, name, args, k) = MeanCall(C, name, args, k)
      BY <1>2, <1>4 DEF MeanArgs
    <3>3. Through(M, C, f, Value(Nil)) = MeanCall(C, name, args, k)
      BY <2>2, ValueIs DEF Through
    <3>4. Chain(M, C, Whole(M, C), Append(frames, f), Value(Nil))
      BY <1>3, <2>2, <3>1, <3>2, <3>3, ChainPush
    <3>5. Whole(M, C)' = Whole(M, C) /\ Now(M, C)' = Value(Nil)
      BY <2>1, WordSame DEF Whole, Now, Value
    <3> QED
      BY <2>1, <3>4, <3>5, ChainSame
  <2> QED
    BY <1>4, <2>1, <2>2, <2>3, <2>4, <2>5 DEF MInv, Settled
<1>5. CASE list = Nil /\ name \notin Primitive
  <2>1. Raise("unknown symbol")
    BY <1>5 DEF ArgsFrom
  <2>2. \A M, C : MeanArgs(M, C, n, name, args, k) = Wrong("unknown symbol", k)
    BY <1>2, <1>5 DEF MeanArgs, MeanCall
  <2> QED
    BY <1>3, <2>1, <2>2, OnWithError
<1>6. CASE list # Nil
  <2> DEFINE f == Frame("args", name, Cdr(list), args, Nil)
             w == Car(list)
  <2>1. Evaluate(w, Append(frames, f))
    BY <1>2, <1>6 DEF ArgsFrom
  <2>2. Cdr(list) \in AnyWord
    BY <1>2, <1>6, ProperUsable, FirstAndRest
  <2>3. f \in AnyFrame /\ f.kind = "args" /\ f.list = Cdr(list) /\ f.args = args /\ f.name = name
    BY <2>2, Constants DEF Frame, AnyFrame
  <2>4. ASSUME NEW M, NEW C, Means(M, C), Continues(C)
        PROVE  Chain(M, C, Whole(M, C), Append(frames, f), MeanWord(M, C, w, k))
    <3> DEFINE m == MeanWord(M, C, w, k)
    <3>1. MeanArgs(M, C, n, name, args, k) = AfterArg(M, name, Cdr(list), args, m)
      BY <1>2, <1>6 DEF MeanArgs
    <3>2. Chain(M, C, Whole(M, C), frames, AfterArg(M, name, Cdr(list), args, m))
      BY <1>3, <2>4, <3>1
    <3> HIDE DEF m, f
    <3>3. Through(M, C, f, m) = AfterArg(M, name, Cdr(list), args, m)
      <4>1. CASE m.kind # "value"
        BY <4>1 DEF Through, AfterArg
      <4>2. CASE m.kind = "value"
        BY <2>3, <4>2 DEF Through
      <4> QED
        BY <4>1, <4>2
    <3>4. Chain(M, C, Whole(M, C), Append(frames, f), m)
      BY <2>3, <3>2, <3>3, ChainPush
    <3> QED
      BY <3>4 DEF m
  <2> HIDE DEF f, w
  <2> QED
    BY <2>1, <2>4, OnWithWord
<1> QED
  BY <1>4, <1>5, <1>6

LEMMA MeanOfCall == ASSUME EInv, MInv, EvalCall \/ ArgEvaluated PROVE MInv'
<1>1. CASE EvalCall
  <2>1. /\ mode = "eval" /\ focus.tag = "cons" /\ ArgsFrom(Car(focus).name, Cdr(focus), << >>, stack)
        /\ Car(focus).tag = "sym" /\ Car(focus).name \notin {"quote", "cond", "car", "cdr"}
    BY <1>1 DEF EvalCall, Special
  <2>2. ASSUME NEW M, NEW C, Means(M, C), Continues(C)
        PROVE  Chain(M, C, Whole(M, C), stack,
                     M[Cdr(focus).at].args[<< Car(focus).name, << >>, Len(calls) >>])
    BY <2>1, <2>2, ListInEval DEF MeanForm
  <2>3. /\ Cdr(focus) \in AnyWord /\ Proper(Cdr(focus), Len(arena)) /\ stack \in Seq(AnyFrame)
        /\ Car(focus).name \in AnyName /\ << >> \in Seq(AnyWord)
    BY <2>1, FocusList, InHand
  <2> QED
    BY <2>1, <2>2, <2>3, MeanArgsFrom
<1>2. CASE ArgEvaluated
  <2> DEFINE args == Append(Top.args, focus)
  <2>1. /\ mode = "value" /\ stack # << >> /\ Top.kind = "args"
        /\ ArgsFrom(Top.name, Top.list, args, Below)
    BY <1>2 DEF ArgEvaluated, Awaiting
  <2>2. /\ Top.name \in AnyName /\ Top.list \in AnyWord /\ Proper(Top.list, Len(arena))
        /\ Top.args \in Seq(AnyWord) /\ Below \in Seq(AnyFrame)
    BY <2>1, Frames DEF AnyFrame, UsableFrame, SoundFrame
  <2>3. args \in Seq(AnyWord)
    BY <2>1, <2>2, InHand
  <2>4. ASSUME NEW M, NEW C, Means(M, C), Continues(C)
        PROVE  Chain(M, C, Whole(M, C), Below, M[Top.list.at].args[<< Top.name, args, Len(calls) >>])
    <3>1. Through(M, C, Top, Value(focus)) = M[Top.list.at].args[<< Top.name, args, Len(calls) >>]
      BY <2>1, ValueIs DEF Through, AfterArg
    <3> QED
      BY <2>1, <2>4, <3>1, InValue
  <2> HIDE DEF args
  <2> QED
    BY <2>1, <2>2, <2>3, <2>4, MeanArgsFrom
<1> QED
  BY <1>1, <1>2

\* The whole form has a value, and it is printed.
LEMMA MeanPrint == ASSUME EInv, MInv, PrintValue PROVE MInv'
<1>1. /\ mode = "value" /\ stack = << >> /\ mode' = "idle"
      /\ outcome' = [kind |-> "value", text |-> Written(focus, values)]
      /\ UNCHANGED << arena, bindings, calls, source, issued >>
  BY DEF PrintValue, Finish, historyVars
<1>2. calls' \in Seq(AnyCall) /\ Ordered' /\ CellsLast'
  BY <1>1 DEF MInv, Ordered, CellsLast
<1>3. /\ Usable(focus) /\ \A i \in 1..Len(arena) : Usable(arena[i].car)
      /\ Len(arena) \in Nat /\ Len(values) = Len(issued)
  BY <1>1 DEF EInv, TypeOK, FormUsable, TableForgets
<1>4. Written(focus, values) = Written(focus, issued)
  BY <1>3, WrittenSame DEF Usable, Sound
<1>5. Settled'
  <2> SUFFICES ASSUME NEW M, Means(M, calls)' PROVE Matches(Whole(M, calls))'
    BY DEF Settled
  <2>1. Means(M, calls)
    BY <1>1, MeansSame
  <2>2. Chain(M, calls, Whole(M, calls), << >>, Value(focus))
    BY <1>1, <2>1, CallsContinue DEF MInv, Owed, Now
  <2>3. Whole(M, calls) = Value(focus)
    BY <2>2, ChainWhole
  <2>4. Whole(M, calls)' = Value(focus)
    BY <1>1, <2>3, WordSame DEF Whole
  <2>5. Lasts(focus, issued)
    BY <1>3 DEF Usable, Sound, Lasts
  <2>6. \A w, t : Written(w, t)' = Written(w, t)
    BY <1>1, WrittenAgain
  <2> QED
    BY <1>1, <1>4, <2>4, <2>5, <2>6, ValueIs DEF Matches
<1> QED
  BY <1>1, <1>2, <1>5 DEF MInv, Owed

LEMMA WrongIs == ASSUME NEW e, NEW k PROVE Wrong(e, k).kind = e /\ Wrong(e, k).made = k
  BY DEF Wrong, Meaning

\* The history of calls has one more, and the meaning of the call is its answer.
LEMMA Answered ==
    ASSUME EInv, MInv, mode = "call", NEW result \in AnyWord \cup {Failed}, Returned(result),
           arena' = arena, source' = source, NEW M, NEW C, Means(M, C)', Continues(C)'
    PROVE  /\ Means(M, C)
           /\ Len(calls') = Len(calls) + 1
           /\ Chain(M, C, Whole(M, C), Below,
                    IF result = Failed THEN Wrong("host failed", Len(calls'))
                    ELSE Meaning("value", result, Len(calls')))
<1> DEFINE c == [name |-> Top.name, args |-> Top.args, result |-> result, bindings |-> bindings]
           k == Len(calls)
<1>1. stack # << >> /\ Top \in AnyFrame /\ Top.kind = "call" /\ Top.name \in Primitive
  BY Frames DEF EInv, MInv
<1>2. calls \in Seq(AnyCall) /\ k \in Nat /\ calls' = Append(calls, c)
  BY DEF MInv, Returned
<1>3. /\ Len(calls') = k + 1 /\ calls'[k + 1] = c
      /\ \A i \in 1..k : calls'[i] = calls[i]
  BY <1>2
<1> HIDE DEF k
<1>4. /\ Len(C) \in Nat /\ k + 1 <= Len(C) /\ C[k + 1] = c /\ \A i \in 1..k : C[i] = calls[i]
  <2>1. Len(C) \in Nat /\ k + 1 <= Len(C) /\ \A i \in 1..(k + 1) : C[i] = calls'[i]
    BY <1>3 DEF Continues
  <2>2. k + 1 \in 1..(k + 1) /\ \A i \in 1..k : i \in 1..(k + 1)
    BY <1>2
  <2> QED
    BY <1>3, <2>1, <2>2
<1>5. Continues(C)
  <2>1. k <= Len(C)
    BY <1>2, <1>4
  <2> QED
    BY <1>4, <2>1 DEF Continues, k
<1>6. Means(M, C)
  BY MeansSame
<1>7. Chain(M, C, Whole(M, C), Below, Through(M, C, Top, Value(focus)))
  BY <1>1, <1>5, <1>6, InValue
<1>8. Through(M, C, Top, Value(focus)) = MeanCall(C, Top.name, Top.args, k)
  BY <1>1, ValueIs DEF Through, k
<1>9. c.name = Top.name /\ c.args = Top.args /\ c.result = result
  OBVIOUS
<1> HIDE DEF c
<1>10. ~(k >= Len(C))
  BY <1>2, <1>4
<1>11. MeanCall(C, Top.name, Top.args, k)
         = IF result = Failed THEN Wrong("host failed", k + 1) ELSE Meaning("value", result, k + 1)
  BY <1>1, <1>4, <1>9, <1>10 DEF MeanCall
<1> QED
  BY ONLY <1>3, <1>6, <1>7, <1>8, <1>11 DEF k

\* calls stays a history of calls.
LEMMA CallsGrow ==
    ASSUME EInv, MInv, mode = "call", NEW result \in AnyWord \cup {Failed}, Returned(result)
    PROVE  /\ calls' \in Seq(AnyCall) /\ Len(calls') \in Nat /\ Len(calls') # 0
           /\ calls'[Len(calls')].bindings = bindings
<1> DEFINE c == [name |-> Top.name, args |-> Top.args, result |-> result, bindings |-> bindings]
<1>1. Top \in AnyFrame
  BY Frames DEF EInv
<1>2. c \in AnyCall /\ c.bindings = bindings
  BY <1>1 DEF AnyCall, AnyFrame, EInv, TypeOK
<1>3. calls \in Seq(AnyCall) /\ calls' = Append(calls, c)
  BY DEF MInv, Returned
<1> HIDE DEF c
<1>4. calls' \in Seq(AnyCall) /\ Len(calls') = Len(calls) + 1 /\ calls'[Len(calls) + 1] = c
  BY <1>2, <1>3
<1> QED
  BY <1>2, <1>3, <1>4

\* A primitive returned a word: eval goes on with it.
LEMMA OnWithAnswer ==
    ASSUME EInv, MInv, mode = "call", NEW result \in AnyWord, Returned(result),
           mode' = "value", focus' = result, stack' = Below,
           UNCHANGED << arena, bindings, source >>, CellsLast'
    PROVE  MInv'
<1>1. result # Failed
  <2>1. Failed.tag = "failed"
    BY DEF Failed, Word
  <2>2. result.tag # "failed"
    BY DEF AnyWord
  <2> QED
    BY <2>1, <2>2
<1>2. calls' \in Seq(AnyCall) /\ Len(calls') # 0 /\ calls'[Len(calls')].bindings = bindings
  BY CallsGrow
<1>3. bindings' = BindingsAfter(calls, Len(calls))'
  BY <1>2 DEF BindingsAfter
<1>4. Owed'
  <2> SUFFICES ASSUME NEW M, NEW C, Means(M, C)', Continues(C)'
               PROVE  Chain(M, C, Whole(M, C), stack, Now(M, C))'
    BY DEF Owed
  <2>1. Chain(M, C, Whole(M, C), Below, Meaning("value", result, Len(calls')))
    BY <1>1, Answered
  <2>2. Whole(M, C)' = Whole(M, C)
    BY WordSame DEF Whole
  <2>3. Now(M, C)' = Meaning("value", result, Len(calls'))
    BY DEF Now, Value
  <2> QED
    BY <2>1, <2>2, <2>3, ChainSame
<1>5. Ordered'
  BY DEF MInv, Ordered
<1> QED
  BY <1>2, <1>3, <1>4, <1>5 DEF MInv, Settled

\* A primitive failed: so does the form.
LEMMA OnWithFailure ==
    ASSUME EInv, MInv, mode = "call", Returned(Failed), Finish("host failed", << >>),
           UNCHANGED << arena, bindings, issued, source >>
    PROVE  MInv'
<1>1. mode' = "idle" /\ outcome' = [kind |-> "host failed", text |-> << >>]
  BY DEF Finish
<1>2. calls' \in Seq(AnyCall)
  BY CallsGrow
<1>3. Ordered' /\ CellsLast'
  BY DEF MInv, Ordered, CellsLast
<1>4. Settled'
  <2> SUFFICES ASSUME NEW M, Means(M, calls)' PROVE Matches(Whole(M, calls))'
    BY DEF Settled
  <2>1. PICK C : C = calls'
    OBVIOUS
  <2>2. Means(M, C)' /\ Continues(C)'
    <3>1. Means(M, C)'
      BY <2>1
    <3>2. Len(calls') \in Nat
      BY CallsGrow
    <3>3. Len(C) \in Nat /\ Len(calls') <= Len(C) /\ \A i \in 1..Len(calls') : C[i] = calls'[i]
      BY ONLY <2>1, <3>2
    <3> QED
      BY <3>1, <3>3 DEF Continues
  <2>3. Chain(M, C, Whole(M, C), Below, Wrong("host failed", Len(calls')))
    BY <2>2, Answered
  <2>4. Below \in Seq(AnyFrame)
    BY Frames DEF EInv
  <2>5. Whole(M, C) = Wrong("host failed", Len(calls'))
    <3> DEFINE m == Wrong("host failed", Len(calls'))
    <3>1. m.kind # "value"
      BY DEF Wrong, Meaning
    <3> HIDE DEF m
    <3>2. Whole(M, C) = m
      BY <2>3, <2>4, <3>1, ChainError DEF m
    <3> QED
      BY <3>2 DEF m
  <2>6. Whole(M, calls)' = Whole(M, C)
    BY <2>1, WordSame DEF Whole
  <2>7. PICK m : m = Wrong("host failed", Len(calls'))
    OBVIOUS
  <2>8. Whole(M, calls)' = m /\ m.kind = "host failed" /\ m.made = Len(calls')
    <3>1. Whole(M, calls)' = m
      BY ONLY <2>5, <2>6, <2>7
    <3>2. m.kind = "host failed" /\ m.made = Len(calls')
      BY ONLY <2>7, WrongIs
    <3> QED
      BY <3>1, <3>2
  <2>9. outcome'.kind = "host failed"
    BY <1>1
  <2> QED
    BY <2>8, <2>9 DEF Matches
<1> QED
  BY <1>1, <1>2, <1>3, <1>4 DEF MInv, Owed

-----------------------------------------------------------------------------
(* The steps of the host, and the start of a form. *)

\* The table grows behind, by one value.
LEMMA IssuedGrows ==
    ASSUME EInv, NEW kind, NEW lifetime, Add(kind, lifetime, 1)
    PROVE  /\ Len(issued) \in Nat /\ Len(issued') = Len(issued) + 1
           /\ \A i \in 1..Len(issued) : issued'[i] = issued[i]
<1> DEFINE new == [i \in 1..1 |-> Entry(kind, lifetime, Len(issued) + i)]
<1>1. issued \in Seq(AnyEntry) /\ issued' = issued \o new
  BY DEF EInv, TypeOK, Add
<1>2. new \in Seq({new[1]}) /\ Len(new) = 1
  OBVIOUS
<1> HIDE DEF new
<1> DEFINE S == AnyEntry \cup {new[1]}
<1>3. issued \in Seq(S) /\ new \in Seq(S)
  BY <1>1, <1>2
<1> HIDE DEF S
<1>4. /\ Len(issued \o new) = Len(issued) + Len(new)
      /\ \A i \in 1..(Len(issued) + Len(new)) :
           (issued \o new)[i] = IF i <= Len(issued) THEN issued[i] ELSE new[i - Len(issued)]
  BY <1>3, ConcatProperties
<1>5. Len(issued) \in Nat /\ \A i \in 1..Len(issued) : i \in 1..(Len(issued) + 1) /\ i <= Len(issued)
  BY <1>1
<1> QED
  BY <1>1, <1>2, <1>4, <1>5

LEMMA CellsLastLater ==
    ASSUME CellsLast, Len(issued) \in Nat, Len(issued') = Len(issued) + 1, arena' = arena
    PROVE  CellsLast'
<1>1. \A i \in 1..Len(issued) : i \in 1..Len(issued')
  OBVIOUS
<1> QED
  BY <1>1 DEF CellsLast, Lasts

LEMMA MeanAnswer == ASSUME EInv, MInv, Answer PROVE MInv'
<1>1. CASE PrimitiveReturns
  <2>1. /\ mode = "call" /\ mode' = "value" /\ stack' = Below
        /\ UNCHANGED << arena, bindings, source, issued >>
    BY <1>1 DEF PrimitiveReturns
  <2>2. PICK w \in {Nil, True} \cup Range(Top.args) : Returned(w) /\ focus' = w
    BY <1>1 DEF PrimitiveReturns
  <2>3. w \in AnyWord
    <3>1. Top.args \in Seq(AnyWord)
      BY <2>1, Frames DEF AnyFrame, EInv
    <3>2. \A v \in Range(Top.args) : v \in AnyWord
      BY <3>1 DEF Range
    <3> QED
      BY <2>2, <3>2, Constants
  <2>4. CellsLast'
    BY <2>1 DEF MInv, CellsLast
  <2> QED
    BY <2>1, <2>2, <2>3, <2>4, OnWithAnswer
<1>2. CASE PrimitiveFails
  BY <1>2, OnWithFailure DEF PrimitiveFails
<1>3. ASSUME NEW kind \in Persistent, PrimitiveUnwraps(kind) PROVE MInv'
  <2>1. mode = "call" /\ UNCHANGED << arena, bindings, source, issued >>
    BY <1>3 DEF PrimitiveUnwraps
  <2>2. \/ Returned(True) /\ mode' = "value" /\ focus' = True /\ stack' = Below
        \/ Returned(Failed) /\ Finish("host failed", << >>)
    BY <1>3 DEF PrimitiveUnwraps
  <2>3. CellsLast'
    BY <2>1 DEF MInv, CellsLast
  <2>4. CASE Returned(True) /\ mode' = "value" /\ focus' = True /\ stack' = Below
    BY <2>1, <2>3, <2>4, Constants, OnWithAnswer
  <2>5. CASE Returned(Failed) /\ Finish("host failed", << >>)
    BY <2>1, <2>5, OnWithFailure
  <2> QED
    BY <2>2, <2>4, <2>5
<1>4. ASSUME NEW kind \in Transient, PrimitiveWraps(kind) PROVE MInv'
  <2> DEFINE w == Boxed(Len(values) + 1)
  <2>1. /\ mode = "call" /\ Add(kind, "transient", 1) /\ Returned(w)
        /\ mode' = "value" /\ focus' = w /\ stack' = Below
        /\ UNCHANGED << arena, bindings, source >>
    BY <1>4 DEF PrimitiveWraps
  <2>2. w \in AnyWord
    BY BoxedWord DEF EInv, TypeOK
  <2>3. CellsLast'
    BY <2>1, IssuedGrows, CellsLastLater DEF MInv
  <2> HIDE DEF w
  <2> QED
    BY <2>1, <2>2, <2>3, OnWithAnswer
<1> QED
  BY <1>1, <1>2, <1>3, <1>4 DEF Answer

\* A host binds a word, inside a primitive or between two forms.
LEMMA MeanBinding == ASSUME EInv, MInv, Binding PROVE MInv'
<1>1. /\ mode \in {"idle", "call"}
      /\ UNCHANGED << mode, focus, stack, arena, evals, outcome, calls, source >>
      /\ issued' = issued \/ \E kind \in Persistent : Add(kind, "persistent", 1)
  BY DEF Binding, BindNil, BindNew, controlVars, historyVars
<1>2. /\ Len(issued) \in Nat /\ Len(issued') \in Nat /\ Len(issued) <= Len(issued')
      /\ \A i \in 1..Len(issued) : issued'[i] = issued[i]
  <2>1. issued \in Seq(AnyEntry)
    BY DEF EInv, TypeOK
  <2> QED
    BY <1>1, <2>1, IssuedGrows
<1>3. CellsLast'
  <2>1. \A i \in 1..Len(issued) : i \in 1..Len(issued')
    BY <1>2
  <2> QED
    BY <1>1, <2>1 DEF MInv, CellsLast, Lasts
<1>4. Owed'
  <2> SUFFICES ASSUME mode # "idle", NEW M, NEW C, Means(M, C)', Continues(C)'
               PROVE  Chain(M, C, Whole(M, C), stack, Now(M, C))'
    BY <1>1 DEF Owed
  <2>1. Means(M, C) /\ Continues(C)
    BY <1>1, MeansSame DEF Continues
  <2>2. Chain(M, C, Whole(M, C), stack, Value(focus))
    BY <1>1, <2>1 DEF MInv, Owed, Now
  <2>3. Whole(M, C)' = Whole(M, C) /\ Now(M, C)' = Value(focus)
    BY <1>1, WordSame DEF Whole, Now, Value
  <2> QED
    BY <1>1, <2>2, <2>3, ChainSame
<1>5. Settled'
  <2> SUFFICES ASSUME mode = "idle", evals > 0, NEW M, Means(M, calls)'
               PROVE  Matches(Whole(M, calls))'
    BY <1>1 DEF Settled
  <2>1. Means(M, calls)
    BY <1>1, MeansSame
  <2>2. Matches(Whole(M, calls))
    BY <2>1 DEF MInv, Settled
  <2>3. PICK m : m = Whole(M, calls)
    OBVIOUS
  <2>4. Len(arena) \in Nat
    BY DEF EInv, TypeOK
  <2>5. Matches(m)'
    BY <1>1, <1>2, <2>2, <2>3, <2>4, MatchesLater DEF MInv
  <2>6. Whole(M, calls)' = m
    BY <1>1, <2>3, WordSame DEF Whole
  <2> QED
    BY <2>5, <2>6
<1>6. calls' \in Seq(AnyCall) /\ Ordered' /\ (mode' = "call" => Top'.kind = "call" /\ Top'.name \in Primitive)
  BY <1>1 DEF MInv, Ordered, Top
<1> QED
  BY <1>1, <1>3, <1>4, <1>5, <1>6 DEF MInv

\* A form is read: nothing waits, and nothing has been called.
LEMMA MeanString == ASSUME EInv, MInv, NEW f \in Form, EvalString(f) PROVE MInv'
<1> DEFINE place(w) == IF w.tag = "boxed" THEN Boxed(w.at + Len(Cleared(values))) ELSE w
<1>1. /\ arena' = [i \in 1..Len(f.cells) |-> [car |-> place(f.cells[i].car), cdr |-> f.cells[i].cdr]]
      /\ focus' = place(f.root) /\ source' = [root |-> place(f.root), bindings |-> bindings]
      /\ mode' = "eval" /\ stack' = << >> /\ calls' = << >> /\ bindings' = bindings
  BY DEF EvalString
<1>2. EInv'
  BY EvalStringStep
<1>3. CellsLast'
  BY <1>1, <1>2 DEF EInv, FormUsable, Usable, Sound, TableForgets, CellsLast, Lasts
<1>4. \A w : place(w).tag = "cons" => w.tag = "cons" /\ place(w) = w
  <2>1. \A n : Boxed(n).tag = "boxed"
    BY DEF Boxed, Word
  <2> QED
    BY <2>1
<1> HIDE DEF place
<1>5. Ordered'
  <2>1. /\ Len(f.cells) \in Nat
        /\ \A i \in 1..Len(f.cells) :
              Within(f.cells[i].car, i - 1, f.strings) /\ Proper(f.cells[i].cdr, i - 1)
    BY FormAssumption
  <2>2. /\ Len(arena') = Len(f.cells)
        /\ \A i \in 1..Len(f.cells) :
              arena'[i].car = place(f.cells[i].car) /\ arena'[i].cdr = f.cells[i].cdr
    BY <1>1, <2>1
  <2>3. ASSUME NEW i \in 1..Len(f.cells)
        PROVE  Earlier(arena'[i].car, i) /\ Proper(arena'[i].cdr, i - 1)
    BY <1>4, <2>1, <2>2 DEF Earlier, Within
  <2> QED
    BY <2>2, <2>3 DEF Ordered
<1>6. calls' \in Seq(AnyCall) /\ Len(calls') = 0
  BY <1>1
<1>7. bindings' = BindingsAfter(calls, Len(calls))'
  BY <1>1, <1>6 DEF BindingsAfter
<1>8. Owed'
  <2> SUFFICES ASSUME NEW M, NEW C PROVE Chain(M, C, Whole(M, C), stack, Now(M, C))'
    BY DEF Owed
  <2>1. Whole(M, C)' = Now(M, C)'
    BY <1>1, <1>6 DEF Whole, Now
  <2> DEFINE ms == [i \in {0} |-> Whole(M, C)']
  <2>2. ms[0] = Whole(M, C)' /\ Len(stack') = 0
    BY <1>1
  <2> HIDE DEF ms
  <2> QED
    BY <2>1, <2>2 DEF Chain
<1> QED
  BY <1>1, <1>3, <1>5, <1>6, <1>7, <1>8 DEF MInv, Settled

LEMMA InitMInv == Init => MInv
<1> SUFFICES ASSUME Init PROVE MInv
  OBVIOUS
<1>1. Len(arena) = 0 /\ Len(calls) = 0 /\ calls \in Seq(AnyCall)
  BY DEF Init
<1>2. Ordered /\ CellsLast
  BY <1>1 DEF Ordered, CellsLast
<1>3. Owed /\ Settled
  BY DEF Init, Owed, Settled
<1> QED
  BY <1>1, <1>2, <1>3 DEF MInv, Init

LEMMA StepMInv == EInv /\ MInv /\ [Next]_vars => MInv'
<1> SUFFICES ASSUME EInv, MInv, [Next]_vars PROVE MInv'
  OBVIOUS
<1>1. ASSUME NEW f \in Form, EvalString(f) PROVE MInv'
  BY <1>1, MeanString
<1>2. CASE Evaluation
  BY <1>2, MeanSelf, MeanOfSymbol, MeanNotCallable, MeanQuote, MeanAccessor, MeanApply,
     MeanCond, MeanOfCall, MeanPrint DEF Evaluation
<1>3. CASE Answer
  BY <1>3, MeanAnswer
<1>4. CASE Binding
  BY <1>4, MeanBinding
<1>5. CASE UNCHANGED vars
  <2>1. UNCHANGED << mode, focus, stack, arena, values, bindings, evals, outcome, issued, calls, source >>
    BY <1>5 DEF vars, controlVars, historyVars
  <2>2. Owed'
    <3> SUFFICES ASSUME mode # "idle", NEW M, NEW C, Means(M, C)', Continues(C)'
                 PROVE  Chain(M, C, Whole(M, C), stack, Now(M, C))'
      BY <2>1 DEF Owed
    <3>1. Means(M, C) /\ Continues(C)
      BY <2>1, MeansSame DEF Continues
    <3>2. Chain(M, C, Whole(M, C), stack, Now(M, C))
      BY <3>1 DEF MInv, Owed
    <3>3. Whole(M, C)' = Whole(M, C) /\ Now(M, C)' = Now(M, C)
      BY <2>1, WordSame DEF Whole, Now, Value
    <3> QED
      BY <2>1, <3>2, <3>3, ChainSame
  <2>3. Settled'
    <3> SUFFICES ASSUME mode = "idle", evals > 0, NEW M, Means(M, calls)'
                 PROVE  Matches(Whole(M, calls))'
      BY <2>1 DEF Settled
    <3>1. Means(M, calls)
      BY <2>1, MeansSame
    <3>2. PICK m : m = Whole(M, calls)
      OBVIOUS
    <3>3. Matches(m)
      BY <3>1, <3>2 DEF MInv, Settled
    <3>4. Len(arena) \in Nat /\ Len(issued) \in Nat
      BY DEF EInv, TypeOK
    <3>5. Matches(m)'
      BY <2>1, <3>3, <3>4, MatchesLater DEF MInv
    <3>6. Whole(M, calls)' = m
      BY <2>1, <3>2, WordSame DEF Whole
    <3> QED
      BY <3>5, <3>6
  <2> QED
    BY <2>1, <2>2, <2>3 DEF MInv, Ordered, CellsLast, BindingsAfter, Top
<1> QED
  BY <1>1, <1>2, <1>3, <1>4, <1>5 DEF Next

\* What wsm_eval_string returns is what the form means, given what the host
\* answered: the same value or error, after the same primitive calls in the
\* same order. No stack of waiting calls, no name that a primitive rebinds and
\* no value it wraps while eval runs makes a difference.
THEOREM FormsMeanWhatTheySay == Spec => []EvalMatchesMeaning
<1>1. Init => EInv /\ MInv
  BY InitEInv, InitMInv
<1>2. (EInv /\ MInv) /\ [Next]_vars => (EInv /\ MInv)'
  BY StepEInv, StepMInv
<1>3. EInv /\ MInv => EvalMatchesMeaning
  <2> SUFFICES ASSUME EInv, MInv, mode = "idle", evals > 0
               PROVE  Matches(Whole(MeanFrom(calls), calls))
    BY DEF EvalMatchesMeaning, Matches, Whole
  <2>1. Means(MeanFrom(calls), calls)
    BY MeaningExists DEF EInv, TypeOK, MInv
  <2> QED
    BY <2>1 DEF MInv, Settled
<1> QED
  BY <1>1, <1>2, <1>3, PTL DEF Spec
=============================================================================
