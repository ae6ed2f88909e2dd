------------------------------- MODULE Adapter -------------------------------
(***************************************************************************)
(* The RED4ext plugin (adapter/src/Main.cpp): Load and Unload, the Running *)
(* tick, and the host primitives that tie the Lisp name of the player to a *)
(* row of GameHandleTable, with PlayerHandleEpoch::Decide and RuntimeState. *)
(*                                                                         *)
(* All of this runs on the game thread; what interleaves with it is the    *)
(* engine, which creates and destroys player objects and reuses their      *)
(* addresses as soon as nobody holds a handle.  A Lisp form is a sequence  *)
(* of primitive calls; a word it read stays with it until it ends.         *)
(* Objects are numbered in the order the engine creates them; 0 is the     *)
(* empty handle.  The REPL server is a flag; ReplServer is its detail.     *)
(***************************************************************************)
EXTENDS Naturals, Sequences

CONSTANTS
    Address,     \* where the engine can put a player object
    Fault,       \* what may fail: see FaultPoint
    TokenSpace,  \* 2^w for the w bits of Token; token 0 is "no handle"
    MaxObjects,  \* bound: player objects the engine creates
    MaxRetains   \* bound: calls of Retain; tokens are not used up twice

FaultPoint == {"load", "repl", "lookup", "bind", "wrap"}

ASSUME AdapterAssumption ==
    /\ Address # {}
    /\ Fault \subseteq FaultPoint
    /\ TokenSpace \in Nat /\ TokenSpace > 1
    /\ MaxObjects \in Nat
    /\ MaxRetains \in Nat /\ MaxRetains <= TokenSpace

VARIABLES
    phase,        \* where the game thread is
    session,      \* a WSM session exists
    queueBound,   \* LocalReplServer::Impl::queue # nullptr
    dispatching,  \* the form being evaluated is the dispatch source
    held,         \* the player words the current form has read
    observed,     \* PlayerPresentPrimitive: the handle GetPlayer gave
    executed,     \* PlayerPresentPrimitive: GetPlayer could be called
    handles,      \* GameHandleTable::m_handles: token |-> object, 0 if no row
    nextToken,    \* GameHandleTable::m_nextToken
    retains,      \* how often Retain was called
    playerToken,  \* g_playerToken
    wrapped,      \* the session's GameHandle words: [token, object it was made for]
    binding,      \* the word the player's name is bound to: 0 is nil or unbound
    presence,     \* RuntimeState::m_playerPresence
    logged,       \* RuntimeState::m_capabilityLogged
    named,        \* the last word and object of ClassPrimitive in this form
    rc,           \* what the last primitive returned
    player,       \* the engine's player object, or 0
    objects,      \* how many the engine has created
    address       \* object |-> its address

tableVars == << handles, nextToken, retains >>
sessionVars == << session, wrapped, binding >>
stateVars == << playerToken, presence, logged >>
formVars == << dispatching, held, named >>
callVars == << observed, executed, rc >>
engineVars == << player, objects, address >>
vars == << phase, queueBound, tableVars, sessionVars, stateVars, formVars, callVars, engineVars >>

Token == 0..(TokenSpace - 1)
Object == 0..MaxObjects
NoName == [word |-> 0, object |-> 0]
MayFail(point) == point \in Fault

Init ==
    /\ phase = "unloaded" /\ session = FALSE /\ queueBound = FALSE
    /\ dispatching = FALSE /\ held = {} /\ named = NoName
    /\ observed = 0 /\ executed = FALSE /\ rc = 0
    /\ handles = [t \in Token |-> 0] /\ nextToken = 1 /\ retains = 0
    /\ playerToken = 0 /\ wrapped = << >> /\ binding = 0
    /\ presence = "unknown" /\ logged = FALSE
    /\ player = 0 /\ objects = 0
    /\ address \in [1..MaxObjects -> Address]

-----------------------------------------------------------------------------
(* GameHandleTable and PlayerHandleEpoch. *)

\* A table that keeps raw pointers, for the mutants.
AliveUnheld(o) == o # 0 /\ (o = player \/ o = observed)

\* A RED4ext::Handle is a strong reference: an object lives while the engine,
\* a local handle or a row of the table refers to it.
Alive(o) == o # 0 /\ (o = player \/ o = observed \/ \E t \in Token : handles[t] = o)

Resolve(t) == handles[t]
Without(t) == [handles EXCEPT ![t] = 0]

\* Two handles are compared by GetPtr: 0 stands for nullptr.
SamePtr(o, p) == (o = 0 /\ p = 0) \/ (o # 0 /\ p # 0 /\ address[o] = address[p])

\* Decide without its first test, for the mutants.
DecideAlways(didRun, seen, kept) ==
    IF seen = 0 THEN (IF kept = 0 THEN "Keep" ELSE "BindNil")
    ELSE IF SamePtr(seen, kept) THEN "Keep" ELSE "BindNew"

\* Decide; when the two pointers are the same they are the same object.
Decide(didRun, seen, kept) ==
    CASE ~didRun -> "Preserve"
      [] didRun /\ seen = 0 -> IF kept = 0 THEN "Keep" ELSE "BindNil"
      [] didRun /\ seen # 0 -> IF SamePtr(seen, kept) THEN "Keep" ELSE "BindNew"

-----------------------------------------------------------------------------
(* Main(Load) and Main(Unload). *)

\* The session is made; the exports, the primitives, the oracle and the
\* dispatch source are checked next.
LoadBegin ==
    /\ phase = "unloaded"
    /\ session' = TRUE /\ wrapped' = << >> /\ binding' = 0
    /\ phase' = "loading"
    /\ UNCHANGED << queueBound, tableVars, stateVars, formVars, callVars, engineVars >>

\* One of the checks fails: WsmRuntimeGuard frees the session.
LoadFails ==
    /\ phase = "loading" /\ MayFail("load")
    /\ session' = FALSE
    /\ phase' = "unloaded"
    /\ UNCHANGED << queueBound, tableVars, wrapped, binding, stateVars, formVars, callVars, engineVars >>

\* The rest of Load; that the REPL server cannot start is only logged.
LoadEnds ==
    /\ phase = "loading"
    /\ queueBound' \in {TRUE} \cup (IF MayFail("repl") THEN {FALSE} ELSE {})
    /\ phase' = "idle"
    /\ UNCHANGED << tableVars, sessionVars, stateVars, formVars, callVars, engineVars >>

\* An Unload that does not reset RuntimeState, for the mutants.
UnloadKeepsPresence ==
    /\ phase = "idle"
    /\ queueBound' = FALSE
    /\ playerToken' = 0
    /\ handles' = [t \in Token |-> 0]
    /\ session' = FALSE
    /\ phase' = "unloaded"
    /\ UNCHANGED << nextToken, retains, presence, logged, wrapped, binding, formVars, callVars,
                    engineVars >>

\* Unload, between ticks: server, RuntimeState, token, handles, session.
Unload ==
    /\ phase = "idle"
    /\ queueBound' = FALSE
    /\ presence' = "unknown" /\ logged' = FALSE
    /\ playerToken' = 0
    /\ handles' = [t \in Token |-> 0]
    /\ session' = FALSE
    /\ phase' = "unloaded"
    /\ UNCHANGED << nextToken, retains, wrapped, binding, formVars, callVars, engineVars >>

-----------------------------------------------------------------------------
(* DispatchRunningTick: Drain evaluates REPL forms, then the dispatch form. *)

\* Drain dereferences the queue pointer; without a queue the process faults.
TickBegin ==
    /\ phase = "idle"
    /\ phase' = (IF queueBound THEN "drain" ELSE "crashed")
    /\ UNCHANGED << queueBound, tableVars, sessionVars, stateVars, formVars, callVars, engineVars >>

FormBegin ==
    /\ phase = "drain"
    /\ dispatching' \in BOOLEAN
    /\ phase' = "form"
    /\ UNCHANGED << queueBound, tableVars, sessionVars, stateVars, held, named, callVars, engineVars >>

\* The result is printed; no word outlives its form.
FormEnd ==
    /\ phase = "form"
    /\ phase' = (IF dispatching THEN "idle" ELSE "drain")
    /\ held' = {} /\ named' = NoName /\ dispatching' = FALSE
    /\ UNCHANGED << queueBound, tableVars, sessionVars, stateVars, callVars, engineVars >>

\* The form evaluates the player's name.
ReadPlayer ==
    /\ phase = "form" /\ binding # 0
    /\ held' = held \cup {binding}
    /\ UNCHANGED << phase, queueBound, tableVars, sessionVars, stateVars, dispatching, named,
                    callVars, engineVars >>

-----------------------------------------------------------------------------
(* The host primitives, called by a form. *)

LogPrimitive ==
    /\ phase = "form"
    /\ logged' = TRUE /\ rc' = 0
    /\ UNCHANGED << phase, queueBound, tableVars, sessionVars, playerToken, presence, formVars,
                    observed, executed, engineVars >>

\* PlayerPresentPrimitive, first part: GetPlayer, which may not be callable.
PlayerLookup ==
    /\ phase = "form"
    /\ \/ executed' = TRUE /\ observed' = player
       \/ MayFail("lookup") /\ executed' = FALSE /\ observed' = 0
    /\ phase' = "lookedUp"
    /\ UNCHANGED << queueBound, tableVars, sessionVars, stateVars, formVars, rc, engineVars >>

Action == Decide(executed, observed, Resolve(playerToken))

\* PlayerPresentPrimitive returns; its handle is dropped.
Return(code) ==
    /\ rc' = code
    /\ phase' = "form"
    /\ observed' = 0 /\ executed' = FALSE
    /\ UNCHANGED << queueBound, session, logged, formVars, engineVars >>

\* ... with success: PlayerPresenceChanged, and present as the value.
Succeed ==
    /\ presence' = (IF executed /\ observed # 0 THEN "present" ELSE "absent")
    /\ Return(0)

\* Keep and Preserve
PlayerKept ==
    /\ phase = "lookedUp" /\ Action \in {"Keep", "Preserve"}
    /\ Succeed
    /\ UNCHANGED << tableVars, wrapped, binding, playerToken >>

\* BindNil before the row is released, without the binding, for the mutants.
PlayerGoneUnbound ==
    /\ phase = "lookedUp" /\ Action = "BindNil"
    /\ handles' = Without(playerToken)
    /\ playerToken' = 0
    /\ Succeed
    /\ UNCHANGED << nextToken, retains, wrapped, binding >>

\* BindNil: the name first, then the row.
PlayerGone ==
    /\ phase = "lookedUp" /\ Action = "BindNil"
    /\ binding' = 0
    /\ handles' = Without(playerToken)
    /\ playerToken' = 0
    /\ Succeed
    /\ UNCHANGED << nextToken, retains, wrapped >>

PlayerGoneFails ==
    /\ phase = "lookedUp" /\ Action = "BindNil" /\ MayFail("bind")
    /\ Return(4)
    /\ UNCHANGED << tableVars, wrapped, binding, playerToken, presence >>

\* A Retain that gives a token out again, for the mutants.
RetainReuses ==
    /\ retains < MaxRetains
    /\ retains' = retains + 1
    /\ UNCHANGED nextToken

\* Retain: m_nextToken++ wraps at its width; when it was 0 there is no token.
Retain ==
    /\ retains < MaxRetains
    /\ retains' = retains + 1
    /\ nextToken' = (IF nextToken + 1 = TokenSpace THEN 0 ELSE nextToken + 1)

With(t, o) == [handles EXCEPT ![t] = IF @ = 0 THEN o ELSE @]
Word == [token |-> nextToken, object |-> observed]

\* BindNew that forgets the previous row, for the mutants.
PlayerNewLeaks ==
    /\ phase = "lookedUp" /\ Action = "BindNew" /\ nextToken # 0
    /\ Retain
    /\ wrapped' = Append(wrapped, Word)
    /\ binding' = Len(wrapped) + 1
    /\ playerToken' = nextToken
    /\ handles' = With(nextToken, observed)
    /\ Succeed

\* BindNew: retain, wrap, bind, then the previous row is released.
PlayerNew ==
    /\ phase = "lookedUp" /\ Action = "BindNew" /\ nextToken # 0
    /\ Retain
    /\ wrapped' = Append(wrapped, Word)
    /\ binding' = Len(wrapped) + 1
    /\ playerToken' = nextToken
    /\ handles' = [With(nextToken, observed) EXCEPT ![playerToken] = 0]
    /\ Succeed

\* Retain, wsm_wrap_game_handle or wsm_bind fails: the new row goes again.
PlayerNewFails ==
    /\ phase = "lookedUp" /\ Action = "BindNew"
    /\ Retain
    /\ \/ nextToken = 0 /\ Return(6) /\ UNCHANGED wrapped
       \/ nextToken # 0 /\ MayFail("wrap") /\ Return(7) /\ UNCHANGED wrapped
       \/ nextToken # 0 /\ MayFail("bind") /\ Return(8) /\ wrapped' = Append(wrapped, Word)
    /\ handles' = (IF nextToken = 0 THEN handles
                   ELSE [With(nextToken, observed) EXCEPT ![nextToken] = 0])
    /\ UNCHANGED << binding, playerToken, presence >>

\* ClassPrimitive on a word the form holds: the object in its token's row, or
\* error 5 when the row is gone.  Left out are its failures that do not depend
\* on the row: bad arguments, no session, a word that is no handle, no type or
\* class name, a string that cannot be wrapped (codes 1-4, 6-8); each returns
\* before anything has changed.
ClassPrimitive(w) ==
    /\ phase = "form" /\ w \in held
    /\ LET o == Resolve(wrapped[w].token)
       IN  IF o = 0 THEN rc' = 5 /\ UNCHANGED named
                    ELSE rc' = 0 /\ named' = [word |-> w, object |-> o]
    /\ UNCHANGED << phase, queueBound, tableVars, sessionVars, stateVars, dispatching, held,
                    observed, executed, engineVars >>

-----------------------------------------------------------------------------
(* The engine (outside the repository). *)

\* A new player object, in the place of the old one if there was one, at an
\* address no live object has.
Spawn ==
    /\ objects < MaxObjects
    /\ \E a \in Address :
          /\ \A o \in 1..objects : Alive(o) => address[o] # a
          /\ address' = [address EXCEPT ![objects + 1] = a]
    /\ objects' = objects + 1
    /\ player' = objects + 1
    /\ UNCHANGED << phase, queueBound, tableVars, sessionVars, stateVars, formVars, callVars >>

Despawn ==
    /\ player # 0
    /\ player' = 0
    /\ UNCHANGED << phase, queueBound, tableVars, sessionVars, stateVars, formVars, callVars,
                    objects, address >>

-----------------------------------------------------------------------------
Next ==
    \/ LoadBegin \/ LoadFails \/ LoadEnds \/ Unload
    \/ TickBegin \/ FormBegin \/ FormEnd \/ ReadPlayer
    \/ LogPrimitive \/ PlayerLookup \/ PlayerKept \/ PlayerGone \/ PlayerGoneFails
    \/ PlayerNew \/ PlayerNewFails \/ (\E w \in held : ClassPrimitive(w))
    \/ Spawn \/ Despawn

Spec == Init /\ [][Next]_vars

-----------------------------------------------------------------------------
\* Only the row of g_playerToken is in use: no failure path and no change of
\* player leaves a strong reference behind, so the game can free old players,
\* and after Unload nothing outlives the session.
OneRow ==
    /\ \A t \in Token : handles[t] # 0 => t = playerToken
    /\ playerToken # 0 => handles[playerToken] # 0
    /\ phase \in {"unloaded", "loading"} => playerToken = 0

\* The name never dangles: it is nil, or a word whose token is g_playerToken.
BindingLive ==
    phase \notin {"unloaded"} =>
        /\ binding = 0 <=> playerToken = 0
        /\ binding # 0 => /\ wrapped[binding].token = playerToken
                          /\ wrapped[binding].object = handles[playerToken]

\* A word resolves to the object it was made for or to nothing, so a stale
\* word kept by a form never names a later player.
ClassNamesOwn ==
    named.word # 0 => named.object = wrapped[named.word].object

\* A successful lookup leaves the name on the very object it saw, although
\* Decide compares addresses only and the engine reuses them.
RefreshedPlayer ==
    [][phase = "lookedUp" /\ executed /\ phase' = "form" /\ rc' = 0 =>
          Resolve(playerToken)' = observed]_vars

\* Lisp is told "present" only when the player's name is bound to a live row.
PresentMeansBound ==
    presence = "present" => binding # 0 /\ handles[playerToken] # 0

\* A lookup that could not run changes neither the name nor the row.
PreservedPlayer ==
    [][phase = "lookedUp" /\ ~executed => UNCHANGED << binding, playerToken, handles >>]_vars

\* A tick always has a queue to drain: the loopback REPL is "an optional
\* development transport" (docs/repl-contract.md), and Load goes on without it.
TickHasQueue == phase # "crashed"
=============================================================================
