---------------------------- MODULE AdapterProofs ----------------------------
(***************************************************************************)
(* The safety of the plugin's player handle, for any number of player      *)
(* objects and addresses, any faults and any width of the token.           *)
(*                                                                         *)
(* The properties hang together: Decide is right because the object in the *)
(* row is alive and live objects have different addresses; the row is the  *)
(* only one because a new token is one that no row and no word has had; and *)
(* a word names its own object because its token had one row only.         *)
(***************************************************************************)
EXTENDS Adapter, TLAPS

Phase == {"unloaded", "loading", "idle", "drain", "form", "lookedUp", "crashed"}

\* Every variable has the type its declaration in Main.cpp gives it.
TypeOK ==
    /\ phase \in Phase
    /\ session \in BOOLEAN /\ queueBound \in BOOLEAN /\ dispatching \in BOOLEAN
    /\ executed \in BOOLEAN /\ logged \in BOOLEAN
    /\ presence \in {"unknown", "present", "absent"}
    /\ rc \in Nat
    /\ retains \in 0..MaxRetains
    /\ handles \in [Token -> Object]
    /\ playerToken \in Token
    /\ wrapped \in Seq([token : Token, object : Object])
    /\ binding \in 0..Len(wrapped)
    /\ held \subseteq 1..Len(wrapped)
    /\ named \in [word : 0..Len(wrapped), object : Object]
    /\ objects \in Object
    /\ player \in 0..objects
    /\ observed \in 0..objects
    /\ address \in [1..MaxObjects -> Address]

\* m_nextToken is the number of the next call of Retain, wrapped once.
TokensInOrder ==
    nextToken = (IF retains + 1 < TokenSpace THEN retains + 1 ELSE retains + 1 - TokenSpace)

\* The tokens in use were given out before; token 0 never has a row; a row
\* holds an object the engine has made.
TokensUsed ==
    /\ playerToken <= retains
    /\ handles[0] = 0
    /\ \A t \in Token : handles[t] <= objects
    /\ \A w \in 1..Len(wrapped) : wrapped[w].token \in 1..retains
    /\ \A v, w \in 1..Len(wrapped) : wrapped[v].token = wrapped[w].token => v = w

\* Outside a form nobody holds a word, and nothing has been looked up.
FormScoped ==
    /\ phase \notin {"form", "lookedUp"} => held = {} /\ named = NoName
    /\ phase # "lookedUp" => observed = 0
    /\ ~executed => observed = 0

\* RuntimeState starts again with every session.
FreshPresence == phase \in {"unloaded", "loading"} => presence = "unknown"

\* The engine gives no two live objects the same address.
OwnAddresses ==
    \A o, p \in 1..MaxObjects : Alive(o) /\ Alive(p) /\ address[o] = address[p] => o = p

\* The inductive invariant.
AInv ==
    /\ TypeOK /\ TokensInOrder /\ TokensUsed /\ FormScoped /\ FreshPresence /\ OwnAddresses
    /\ OneRow /\ BindingLive /\ ClassNamesOwn /\ PresentMeansBound

-----------------------------------------------------------------------------
\* Token 0 is a token, and so is 1.
LEMMA Tokens == 0 \in Token /\ 1 \in Token /\ Token \subseteq Nat
  BY AdapterAssumption DEF Token

\* A token that Retain gives out has no row and belongs to no word yet.
LEMMA FreshToken ==
    ASSUME AInv, retains < MaxRetains, nextToken # 0
    PROVE  /\ nextToken \in Token /\ nextToken = retains + 1
           /\ handles[nextToken] = 0 /\ nextToken # playerToken
           /\ \A w \in 1..Len(wrapped) : wrapped[w].token # nextToken
<1>1. retains \in Nat /\ retains + 1 <= TokenSpace /\ TokenSpace \in Nat /\ MaxRetains \in Nat
  BY AdapterAssumption DEF AInv, TypeOK
<1>2. nextToken = retains + 1 /\ nextToken < TokenSpace
  BY <1>1 DEF AInv, TokensInOrder
<1>3. nextToken \in Token
  BY <1>1, <1>2 DEF Token
<1>4. playerToken \in Nat /\ playerToken <= retains
  BY Tokens DEF AInv, TypeOK, TokensUsed
<1>5. handles[nextToken] = 0
  BY <1>1, <1>2, <1>3, <1>4 DEF AInv, OneRow
<1>6. \A w \in 1..Len(wrapped) : wrapped[w].token # nextToken
  BY <1>1, <1>2 DEF AInv, TokensUsed
<1> QED
  BY <1>1, <1>2, <1>3, <1>4, <1>5, <1>6

\* After any call of Retain the next token is again in its place.
LEMMA RetainKeepsOrder ==
    ASSUME AInv, Retain
    PROVE  TokensInOrder' /\ retains' \in 0..MaxRetains /\ retains' = retains + 1
<1>1. retains \in Nat /\ retains + 1 <= TokenSpace /\ TokenSpace \in Nat /\ TokenSpace > 1
      /\ MaxRetains \in Nat /\ retains < MaxRetains /\ retains' = retains + 1
  BY AdapterAssumption DEF AInv, TypeOK, Retain
<1> QED
  BY <1>1 DEF AInv, TokensInOrder, Retain

\* The addresses of what the engine hands out and of what the row holds are
\* the same only when the objects are.
LEMMA SameObject ==
    ASSUME AInv, SamePtr(observed, Resolve(playerToken))
    PROVE  observed = handles[playerToken]
<1>1. handles[playerToken] \in Object /\ observed \in Object
  BY AdapterAssumption DEF AInv, TypeOK, Object
<1>2. CASE observed # 0 /\ handles[playerToken] # 0
  <2>1. Alive(observed) /\ Alive(handles[playerToken])
    BY <1>2 DEF AInv, TypeOK, Alive
  <2>2. observed \in 1..MaxObjects /\ handles[playerToken] \in 1..MaxObjects
    BY <1>1, <1>2, AdapterAssumption DEF Object
  <2> QED
    BY <1>2, <2>1, <2>2 DEF AInv, OwnAddresses, SamePtr, Resolve
<1> QED
  BY <1>2 DEF SamePtr, Resolve

\* What PlayerPresentPrimitive does when its lookup ran, by cases.
LEMMA Decided ==
    ASSUME AInv
    PROVE  /\ Action = "Preserve" <=> ~executed
           /\ Action = "Keep" => executed /\ observed = handles[playerToken]
           /\ Action = "BindNil" => executed /\ observed = 0 /\ handles[playerToken] # 0
           /\ Action = "BindNew" => executed /\ observed # 0
<1>1. executed \in BOOLEAN
  BY DEF AInv, TypeOK
<1>2. CASE ~executed
  BY <1>2 DEF Action, Decide
<1>3. CASE executed /\ observed = 0
  BY <1>3 DEF Action, Decide, Resolve
<1>4. CASE executed /\ observed # 0
  BY <1>4, SameObject DEF Action, Decide
<1> QED
  BY <1>1, <1>2, <1>3, <1>4

LEMMA InitAInv == Init => AInv
<1> SUFFICES ASSUME Init PROVE AInv
  OBVIOUS
<1> USE AdapterAssumption, Tokens DEF Init
<1>1. TypeOK
  <2>1. wrapped \in Seq([token : Token, object : Object]) /\ Len(wrapped) = 0
    OBVIOUS
  <2>2. named \in [word : 0..Len(wrapped), object : Object]
    BY <2>1 DEF NoName, Object
  <2>3. handles \in [Token -> Object] /\ objects \in Object /\ retains \in 0..MaxRetains
    BY DEF Object
  <2>4. player \in 0..objects /\ observed \in 0..objects /\ binding \in 0..Len(wrapped)
    BY <2>1
  <2> QED
    BY <2>1, <2>2, <2>3, <2>4 DEF TypeOK, Phase
<1>2. TokensInOrder /\ TokensUsed
  BY DEF TokensInOrder, TokensUsed
<1>3. FormScoped /\ FreshPresence /\ OwnAddresses
  BY DEF FormScoped, FreshPresence, OwnAddresses, Alive
<1>4. OneRow /\ BindingLive /\ ClassNamesOwn /\ PresentMeansBound
  BY DEF OneRow, BindingLive, ClassNamesOwn, PresentMeansBound, NoName
<1> QED
  BY <1>1, <1>2, <1>3, <1>4 DEF AInv

-----------------------------------------------------------------------------
(* The steps, by what they touch. *)

\* Load, Unload and the tick touch no row but to empty the table.
LEMMA LifecycleStep ==
    ASSUME AInv, LoadBegin \/ LoadFails \/ LoadEnds \/ Unload \/ TickBegin \/ FormBegin \/ FormEnd
    PROVE  AInv'
<1> USE AdapterAssumption, Tokens DEF AInv
<1>1. CASE LoadBegin
  <2>1. wrapped' \in Seq([token : Token, object : Object]) /\ Len(wrapped') = 0
    BY <1>1 DEF LoadBegin
  <2>2. held = {} /\ named = NoName /\ playerToken = 0 /\ presence = "unknown"
    BY <1>1 DEF LoadBegin, FormScoped, OneRow, FreshPresence
  <2>3. named' \in [word : 0..Len(wrapped'), object : Object]
    BY <1>1, <2>1, <2>2 DEF LoadBegin, formVars, NoName, Object
  <2>4. TypeOK'
    BY <1>1, <2>1, <2>2, <2>3 DEF LoadBegin, TypeOK, Phase, tableVars, stateVars, formVars,
       callVars, engineVars
  <2>5. TokensInOrder' /\ TokensUsed'
    BY <1>1, <2>1 DEF LoadBegin, TokensInOrder, TokensUsed, TypeOK, tableVars, stateVars, engineVars
  <2>6. FormScoped' /\ FreshPresence' /\ OwnAddresses'
    BY <1>1 DEF LoadBegin, FormScoped, FreshPresence, OwnAddresses, Alive, tableVars, stateVars,
       formVars, callVars, engineVars
  <2>7. OneRow' /\ BindingLive' /\ ClassNamesOwn' /\ PresentMeansBound'
    BY <1>1, <2>2 DEF LoadBegin, OneRow, BindingLive, ClassNamesOwn, PresentMeansBound, NoName,
       tableVars, stateVars, formVars
  <2> QED
    BY <2>4, <2>5, <2>6, <2>7
<1>2. CASE LoadFails
  <2>1. TypeOK'
    BY <1>2 DEF LoadFails, TypeOK, Phase, tableVars,
       stateVars, formVars, callVars, engineVars
  <2>2. TokensInOrder' /\ TokensUsed' /\ FormScoped' /\ FreshPresence'
    BY <1>2 DEF LoadFails, TokensInOrder, TokensUsed, FormScoped, FreshPresence, tableVars,
       stateVars, formVars, callVars, engineVars
  <2>3. OwnAddresses'
    BY <1>2 DEF LoadFails, OwnAddresses, Alive, tableVars,
       stateVars, formVars, callVars, engineVars
  <2>4. OneRow' /\ BindingLive' /\ ClassNamesOwn' /\ PresentMeansBound'
    BY <1>2 DEF LoadFails, OneRow, BindingLive, ClassNamesOwn, PresentMeansBound, tableVars,
       stateVars, formVars, callVars, engineVars
  <2> QED
    BY <2>1, <2>2, <2>3, <2>4
<1>3. CASE LoadEnds
  <2>1. TypeOK'
    BY <1>3 DEF LoadEnds, TypeOK, Phase, tableVars,
       sessionVars, stateVars, formVars, callVars, engineVars
  <2>2. TokensInOrder' /\ TokensUsed' /\ FormScoped' /\ FreshPresence'
    BY <1>3 DEF LoadEnds, TokensInOrder, TokensUsed, FormScoped, FreshPresence, tableVars,
       sessionVars, stateVars, formVars, callVars, engineVars
  <2>3. OwnAddresses'
    BY <1>3 DEF LoadEnds, OwnAddresses, Alive, tableVars,
       sessionVars, stateVars, formVars, callVars, engineVars
  <2>4. OneRow' /\ BindingLive' /\ ClassNamesOwn' /\ PresentMeansBound'
    BY <1>3 DEF LoadEnds, OneRow, BindingLive, ClassNamesOwn, PresentMeansBound, tableVars,
       sessionVars, stateVars, formVars, callVars, engineVars
  <2> QED
    BY <2>1, <2>2, <2>3, <2>4
<1>4. CASE Unload
  <2>1. handles' \in [Token -> Object] /\ \A t \in Token : handles'[t] = 0
    BY <1>4 DEF Unload, Object
  <2>2. TypeOK'
    BY <1>4, <2>1 DEF Unload, TypeOK, Phase, formVars, callVars, engineVars
  <2>3. TokensInOrder' /\ TokensUsed' /\ FormScoped' /\ FreshPresence'
    BY <1>4, <2>1 DEF Unload, TypeOK, TokensInOrder, TokensUsed, FormScoped, FreshPresence, formVars,
       callVars, engineVars
  <2>4. OwnAddresses'
    BY <1>4, <2>1 DEF Unload, OwnAddresses, Alive, callVars, engineVars
  <2>5. OneRow' /\ BindingLive' /\ ClassNamesOwn' /\ PresentMeansBound'
    BY <1>4, <2>1 DEF Unload, OneRow, BindingLive, ClassNamesOwn, PresentMeansBound, formVars
  <2> QED
    BY <2>2, <2>3, <2>4, <2>5
<1>5. CASE TickBegin
  <2>1. TypeOK'
    BY <1>5 DEF TickBegin, TypeOK, Phase, tableVars,
       sessionVars, stateVars, formVars, callVars, engineVars
  <2>2. TokensInOrder' /\ TokensUsed' /\ FormScoped' /\ FreshPresence'
    BY <1>5 DEF TickBegin, TokensInOrder, TokensUsed, FormScoped, FreshPresence, tableVars,
       sessionVars, stateVars, formVars, callVars, engineVars
  <2>3. OwnAddresses'
    BY <1>5 DEF TickBegin, OwnAddresses, Alive, tableVars,
       sessionVars, stateVars, formVars, callVars, engineVars
  <2>4. OneRow' /\ BindingLive' /\ ClassNamesOwn' /\ PresentMeansBound'
    BY <1>5 DEF TickBegin, OneRow, BindingLive, ClassNamesOwn, PresentMeansBound, tableVars,
       sessionVars, stateVars, formVars, callVars, engineVars
  <2> QED
    BY <2>1, <2>2, <2>3, <2>4
<1>6. CASE FormBegin
  BY <1>6 DEF FormBegin, TypeOK, Phase, TokensInOrder, TokensUsed, FormScoped, FreshPresence,
     OwnAddresses, Alive, OneRow, BindingLive, ClassNamesOwn, PresentMeansBound, tableVars,
     sessionVars, stateVars, callVars, engineVars
<1>7. CASE FormEnd
  <2>1. named' \in [word : 0..Len(wrapped'), object : Object]
    BY <1>7 DEF FormEnd, TypeOK, NoName, Object, sessionVars
  <2>2. TypeOK'
    BY <1>7, <2>1 DEF FormEnd, TypeOK, Phase, tableVars, sessionVars, stateVars, callVars, engineVars
  <2>3. TokensInOrder' /\ TokensUsed' /\ FormScoped' /\ FreshPresence' /\ OwnAddresses'
    BY <1>7 DEF FormEnd, TypeOK, TokensInOrder, TokensUsed, FormScoped, FreshPresence, OwnAddresses,
       Alive, tableVars, sessionVars, stateVars, callVars, engineVars
  <2>4. OneRow' /\ BindingLive' /\ ClassNamesOwn' /\ PresentMeansBound'
    BY <1>7 DEF FormEnd, OneRow, BindingLive, ClassNamesOwn, PresentMeansBound, NoName, tableVars,
       sessionVars, stateVars
  <2> QED
    BY <2>2, <2>3, <2>4
<1> QED
  BY <1>1, <1>2, <1>3, <1>4, <1>5, <1>6, <1>7

\* What a form reads: the name, a log line, the engine's player, a class.
LEMMA FormStep ==
    ASSUME AInv, ReadPlayer \/ LogPrimitive \/ PlayerLookup \/ \E w \in held : ClassPrimitive(w)
    PROVE  AInv'
<1> USE AdapterAssumption, Tokens DEF AInv
<1>1. CASE ReadPlayer
  BY <1>1 DEF ReadPlayer, TypeOK, TokensInOrder, TokensUsed, FormScoped, FreshPresence,
     OwnAddresses, Alive, OneRow, BindingLive, ClassNamesOwn, PresentMeansBound, tableVars,
     sessionVars, stateVars, callVars, engineVars
<1>2. CASE LogPrimitive
  BY <1>2 DEF LogPrimitive, TypeOK, TokensInOrder, TokensUsed, FormScoped, FreshPresence,
     OwnAddresses, Alive, OneRow, BindingLive, ClassNamesOwn, PresentMeansBound, tableVars,
     sessionVars, formVars, engineVars
<1>3. CASE PlayerLookup
  <2>1. observed' \in {0, player}
    BY <1>3 DEF PlayerLookup
  <2>2. TypeOK' /\ TokensInOrder' /\ TokensUsed' /\ FormScoped' /\ FreshPresence'
    BY <1>3 DEF PlayerLookup, TypeOK, Phase, Object, TokensInOrder, TokensUsed, FormScoped,
       FreshPresence, tableVars, sessionVars, stateVars, formVars, engineVars
  <2>3. OwnAddresses'
    BY <1>3, <2>1 DEF PlayerLookup, OwnAddresses, Alive, tableVars, engineVars
  <2>4. OneRow' /\ BindingLive' /\ ClassNamesOwn' /\ PresentMeansBound'
    BY <1>3 DEF PlayerLookup, OneRow, BindingLive, ClassNamesOwn, PresentMeansBound, tableVars,
       sessionVars, stateVars, formVars
  <2> QED
    BY <2>2, <2>3, <2>4
<1>4. CASE \E w \in held : ClassPrimitive(w)
  <2>1. PICK w \in held : ClassPrimitive(w)
    BY <1>4
  <2> DEFINE o == handles[wrapped[w].token]
  <2>2. w \in 1..Len(wrapped) /\ wrapped[w].token \in Token /\ o \in Object
    <3>1. /\ wrapped \in Seq([token : Token, object : Object]) /\ w \in 1..Len(wrapped)
          /\ handles \in [Token -> Object]
      BY DEF TypeOK
    <3>2. wrapped[w] \in [token : Token, object : Object]
      <4> DEFINE S == [token : Token, object : Object]
      <4> HIDE DEF S
      <4>1. wrapped \in Seq(S) /\ w \in 1..Len(wrapped)
        BY ONLY <3>1 DEF S
      <4>2. wrapped[w] \in S
        BY ONLY <4>1
      <4> QED
        BY ONLY <4>2 DEF S
    <3>3. wrapped[w].token \in Token
      BY <3>2
    <3> QED
      BY <3>1, <3>3
  <2>3. ASSUME o # 0 PROVE o = wrapped[w].object
    <3>1. wrapped[w].token = playerToken /\ playerToken # 0
      BY <2>2, <2>3 DEF OneRow, TokensUsed
    <3>2. binding # 0 /\ wrapped[binding].token = playerToken
          /\ wrapped[binding].object = handles[playerToken]
      BY <2>1, <3>1 DEF ClassPrimitive, BindingLive
    <3>3. binding = w
      BY <2>2, <3>1, <3>2 DEF TokensUsed, TypeOK
    <3> QED
      BY <3>1, <3>2, <3>3
  <2>4. named' = named \/ (named' = [word |-> w, object |-> o] /\ o # 0)
    <3>1. IF o = 0 THEN named' = named ELSE named' = [word |-> w, object |-> o]
      BY <2>1, Zenon DEF ClassPrimitive, Resolve
    <3> QED
      BY <3>1, Zenon
  <2>5. named' \in [word : 0..Len(wrapped), object : Object]
    BY <2>2, <2>4 DEF TypeOK
  <2>6. ClassNamesOwn'
    BY <2>1, <2>3, <2>4 DEF ClassPrimitive, ClassNamesOwn, sessionVars
  <2>7. rc' \in Nat
    BY <2>1 DEF ClassPrimitive
  <2>8. TypeOK'
    BY <2>1, <2>5, <2>7 DEF ClassPrimitive, TypeOK, tableVars, sessionVars, stateVars, engineVars
  <2>9. /\ TokensInOrder' /\ TokensUsed' /\ FormScoped' /\ FreshPresence' /\ OwnAddresses'
        /\ OneRow' /\ BindingLive' /\ PresentMeansBound'
    BY <2>1 DEF ClassPrimitive, TypeOK, TokensInOrder, TokensUsed, FormScoped, FreshPresence,
       OwnAddresses, Alive, OneRow, BindingLive, PresentMeansBound, tableVars, sessionVars,
       stateVars, engineVars
  <2> QED
    BY <2>6, <2>8, <2>9
<1> QED
  BY <1>1, <1>2, <1>3, <1>4

\* A row that goes leaves fewer objects alive, and the handle of a returning
\* primitive is dropped: addresses stay apart.
LEMMA FewerAlive ==
    ASSUME AInv, observed' = 0, UNCHANGED engineVars,
           \A t \in Token : handles'[t] \in {0, handles[t], observed}
    PROVE  OwnAddresses'
<1>1. \A o : Alive(o)' => Alive(o)
  BY DEF Alive, engineVars
<1> QED
  BY <1>1 DEF AInv, OwnAddresses, engineVars

\* A returning primitive leaves the form's state and the engine's alone.
LEMMA ReturnTyped ==
    ASSUME AInv, NEW code \in Nat, Return(code),
           presence' \in {"unknown", "present", "absent"},
           retains' \in 0..MaxRetains,
           handles' \in [Token -> Object], playerToken' \in Token,
           wrapped' \in Seq([token : Token, object : Object]),
           Len(wrapped) <= Len(wrapped'), binding' \in 0..Len(wrapped')
    PROVE  TypeOK' /\ FormScoped' /\ FreshPresence'
<1>1. /\ phase' = "form" /\ rc' \in Nat /\ observed' = 0 /\ executed' = FALSE
      /\ UNCHANGED << queueBound, session, logged, formVars, engineVars >>
  BY DEF Return
<1>2. Len(wrapped) \in Nat /\ Len(wrapped') \in Nat
  BY DEF AInv, TypeOK
<1>3. held' \subseteq 1..Len(wrapped')
  BY <1>1, <1>2 DEF AInv, TypeOK, formVars
<1>4. named' \in [word : 0..Len(wrapped'), object : Object]
  BY <1>1, <1>2 DEF AInv, TypeOK, formVars
<1>5. observed' \in 0..objects'
  BY <1>1, AdapterAssumption DEF AInv, TypeOK, Object, engineVars
<1>6. TypeOK'
  BY <1>1, <1>3, <1>4, <1>5 DEF AInv, TypeOK, Phase, formVars, engineVars
<1> QED
  BY <1>1, <1>6 DEF FormScoped, FreshPresence

\* PlayerPresentPrimitive that keeps or drops the player's row.
LEMMA KeepStep ==
    ASSUME AInv, PlayerKept \/ PlayerGone \/ PlayerGoneFails
    PROVE  AInv'
<1> USE AdapterAssumption, Tokens DEF AInv
<1>1. CASE PlayerKept
  <2>1. /\ Return(0) /\ UNCHANGED << tableVars, wrapped, binding, playerToken >>
        /\ presence' \in {"unknown", "present", "absent"}
    BY <1>1 DEF PlayerKept, Succeed
  <2>2. OwnAddresses'
    BY <2>1, FewerAlive DEF Return, tableVars
  <2>3. TypeOK' /\ FormScoped' /\ FreshPresence'
    <3>1. /\ retains' \in 0..MaxRetains /\ handles' \in [Token -> Object]
          /\ presence' \in {"unknown", "present", "absent"}
          /\ playerToken' \in Token /\ wrapped' \in Seq([token : Token, object : Object])
          /\ Len(wrapped) <= Len(wrapped') /\ binding' \in 0..Len(wrapped')
      BY <2>1 DEF TypeOK, tableVars
    <3> QED
      BY <2>1, <3>1, ReturnTyped
  <2>4. TokensInOrder' /\ TokensUsed'
    BY <2>1 DEF Return, TypeOK, TokensInOrder, TokensUsed, tableVars, engineVars
  <2>5. OneRow' /\ BindingLive' /\ ClassNamesOwn'
    BY <1>1, <2>1 DEF PlayerKept, Return, OneRow, BindingLive, ClassNamesOwn, tableVars, formVars
  <2>6. PresentMeansBound'
    BY <1>1, Decided DEF PlayerKept, Succeed, Return, PresentMeansBound, BindingLive, TokensUsed,
       tableVars
  <2> QED
    BY <2>2, <2>3, <2>4, <2>5, <2>6
<1>2. CASE PlayerGone
  <2>1. handles' \in [Token -> Object] /\ \A t \in Token : handles'[t] = 0
    BY <1>2 DEF PlayerGone, Without, TypeOK, Object, OneRow
  <2>2. /\ Return(0) /\ UNCHANGED << nextToken, retains, wrapped >>
        /\ binding' = 0 /\ playerToken' = 0 /\ presence' = "absent"
    BY <1>2, Decided DEF PlayerGone, Succeed
  <2>3. OwnAddresses'
    BY <2>1, <2>2, FewerAlive DEF Return
  <2>4. TypeOK' /\ FormScoped' /\ FreshPresence'
    <3>1. /\ Len(wrapped) \in Nat /\ wrapped' \in Seq([token : Token, object : Object])
          /\ retains' \in 0..MaxRetains
      BY <2>2 DEF TypeOK
    <3> QED
      BY <2>1, <2>2, <3>1, ReturnTyped
  <2>5. retains \in Nat /\ objects \in Nat /\ objects' = objects
    BY <2>2 DEF Return, TypeOK, Object, engineVars
  <2>6. TokensInOrder' /\ TokensUsed'
    BY <2>1, <2>2, <2>5 DEF TokensInOrder, TokensUsed
  <2>7. OneRow' /\ BindingLive' /\ ClassNamesOwn' /\ PresentMeansBound'
    BY <2>1, <2>2 DEF Return, OneRow, BindingLive, ClassNamesOwn, PresentMeansBound, formVars
  <2> QED
    BY <2>3, <2>4, <2>6, <2>7
<1>3. CASE PlayerGoneFails
  <2>1. Return(4) /\ UNCHANGED << tableVars, wrapped, binding, playerToken, presence >>
    BY <1>3 DEF PlayerGoneFails
  <2>2. OwnAddresses'
    BY <2>1, FewerAlive DEF Return, tableVars
  <2>3. TypeOK' /\ FormScoped' /\ FreshPresence'
    <3>1. /\ retains' \in 0..MaxRetains /\ handles' \in [Token -> Object]
          /\ presence' \in {"unknown", "present", "absent"}
          /\ playerToken' \in Token /\ wrapped' \in Seq([token : Token, object : Object])
          /\ Len(wrapped) <= Len(wrapped') /\ binding' \in 0..Len(wrapped')
      BY <2>1 DEF TypeOK, tableVars
    <3> QED
      BY <2>1, <3>1, ReturnTyped
  <2>4. TokensInOrder' /\ TokensUsed'
    BY <2>1 DEF Return, TypeOK, TokensInOrder, TokensUsed, tableVars, engineVars
  <2>5. OneRow' /\ BindingLive' /\ ClassNamesOwn' /\ PresentMeansBound'
    BY <1>3, <2>1 DEF PlayerGoneFails, Return, OneRow, BindingLive, ClassNamesOwn,
       PresentMeansBound, tableVars, formVars
  <2> QED
    BY <2>2, <2>3, <2>4, <2>5
<1> QED
  BY <1>1, <1>2, <1>3

\* What a retained and wrapped player adds to the session's words.
LEMMA WrapStep ==
    ASSUME AInv, retains < MaxRetains, nextToken # 0, retains' = retains + 1,
           wrapped' = Append(wrapped, Word)
    PROVE  /\ wrapped' \in Seq([token : Token, object : Object])
           /\ Len(wrapped') = Len(wrapped) + 1 /\ wrapped'[Len(wrapped) + 1] = Word
           /\ \A w \in 1..Len(wrapped) : wrapped'[w] = wrapped[w]
           /\ \A w \in 1..Len(wrapped') : wrapped'[w].token \in 1..retains'
           /\ \A v, w \in 1..Len(wrapped') : wrapped'[v].token = wrapped'[w].token => v = w
<1>1. nextToken \in Token /\ observed \in Object /\ Word \in [token : Token, object : Object]
  BY FreshToken, AdapterAssumption DEF AInv, TypeOK, Object, Word
<1>2. /\ wrapped' \in Seq([token : Token, object : Object])
      /\ Len(wrapped') = Len(wrapped) + 1 /\ wrapped'[Len(wrapped) + 1] = Word
      /\ \A w \in 1..Len(wrapped) : wrapped'[w] = wrapped[w]
      /\ Len(wrapped) \in Nat
  BY <1>1 DEF AInv, TypeOK
<1>3. Word.token = nextToken /\ nextToken = retains + 1 /\ retains \in Nat
  BY FreshToken DEF Word, AInv, TypeOK
<1>4. \A w \in 1..Len(wrapped') : wrapped'[w].token \in 1..retains'
  BY <1>2, <1>3 DEF AInv, TokensUsed
<1>5. \A v, w \in 1..Len(wrapped') : wrapped'[v].token = wrapped'[w].token => v = w
  BY <1>2, <1>3, FreshToken DEF AInv, TokensUsed
<1> QED
  BY <1>2, <1>4, <1>5

\* BindNew that succeeds: one row, one word, one name, all for the same object.
LEMMA NewStep == ASSUME AInv, PlayerNew PROVE AInv'
<1>1. /\ retains < MaxRetains /\ nextToken # 0 /\ retains' = retains + 1
      /\ wrapped' = Append(wrapped, Word) /\ binding' = Len(wrapped) + 1
      /\ playerToken' = nextToken /\ Return(0) /\ executed /\ observed # 0
      /\ presence' = "present" /\ phase' = "form" /\ observed' = 0
      /\ UNCHANGED << formVars, engineVars >>
  BY Decided DEF PlayerNew, Retain, Succeed, Return
<1>2. /\ nextToken \in Token /\ nextToken = retains + 1 /\ nextToken # playerToken
      /\ handles[nextToken] = 0
  BY <1>1, FreshToken
<1>3. /\ handles' \in [Token -> Object] /\ handles'[nextToken] = observed
      /\ \A t \in Token \ {nextToken} : handles'[t] = 0
  <2>1. observed \in Object /\ 0 \in Object /\ handles \in [Token -> Object]
    BY AdapterAssumption DEF AInv, TypeOK, Object
  <2>2. With(nextToken, observed) = [handles EXCEPT ![nextToken] = observed]
    BY <1>2, <2>1 DEF With
  <2>3. handles' = [[handles EXCEPT ![nextToken] = observed] EXCEPT ![playerToken] = 0]
    BY <2>2 DEF PlayerNew
  <2> QED
    BY <1>2, <2>1, <2>3 DEF AInv, TypeOK, OneRow
<1>4. /\ wrapped' \in Seq([token : Token, object : Object])
      /\ Len(wrapped') = Len(wrapped) + 1 /\ wrapped'[Len(wrapped) + 1] = Word
      /\ \A w \in 1..Len(wrapped) : wrapped'[w] = wrapped[w]
      /\ \A w \in 1..Len(wrapped') : wrapped'[w].token \in 1..retains'
      /\ \A v, w \in 1..Len(wrapped') : wrapped'[v].token = wrapped'[w].token => v = w
  BY <1>1, WrapStep
<1>5. Len(wrapped) \in Nat /\ retains \in Nat /\ objects \in Nat /\ observed <= objects
  BY AdapterAssumption DEF AInv, TypeOK, Object
<1>6. TokensInOrder' /\ retains' \in 0..MaxRetains
  BY RetainKeepsOrder DEF PlayerNew
<1>7. OwnAddresses'
  BY <1>1, <1>3, FewerAlive
<1>8. TypeOK' /\ FormScoped' /\ FreshPresence'
  <2>1. Len(wrapped) <= Len(wrapped') /\ binding' \in 0..Len(wrapped') /\ playerToken' \in Token
    BY <1>1, <1>2, <1>4, <1>5
  <2>2. Return(0) /\ presence' \in {"unknown", "present", "absent"} /\ handles' \in [Token -> Object]
        /\ wrapped' \in Seq([token : Token, object : Object])
    BY <1>1, <1>3, <1>4
  <2> QED
    BY <1>6, <2>1, <2>2, ReturnTyped
<1>9. TokensUsed'
  <2>1. playerToken' <= retains' /\ handles'[0] = 0
    BY <1>1, <1>2, <1>3, <1>5, Tokens
  <2>2. \A t \in Token : handles'[t] <= objects'
    BY <1>1, <1>3, <1>5 DEF engineVars
  <2> QED
    BY <1>4, <2>1, <2>2 DEF TokensUsed
<1>10. OneRow'
  BY <1>1, <1>3 DEF OneRow
<1>11. BindingLive'
  BY <1>1, <1>3, <1>4, <1>5 DEF BindingLive, Word
<1>12. ClassNamesOwn'
  BY <1>1, <1>4 DEF AInv, TypeOK, ClassNamesOwn, formVars
<1>13. PresentMeansBound'
  BY <1>1, <1>3, <1>5 DEF PresentMeansBound
<1> QED
  BY <1>6, <1>7, <1>8, <1>9, <1>10, <1>11, <1>12, <1>13 DEF AInv

\* BindNew that fails: the row it made is gone, the name and the previous row
\* are as they were; the word it may have made is bound to nothing.
LEMMA NewFailsStep == ASSUME AInv, PlayerNewFails PROVE AInv'
<1>1. /\ retains < MaxRetains /\ retains' = retains + 1 /\ Return(rc') /\ rc' \in {6, 7, 8}
      /\ phase = "lookedUp" /\ phase' = "form" /\ observed' = 0
      /\ UNCHANGED << formVars, engineVars, binding, playerToken, presence >>
  BY DEF PlayerNewFails, Retain, Return
<1>2. handles' = handles
  <2>1. CASE nextToken = 0
    BY <2>1 DEF PlayerNewFails
  <2>2. CASE nextToken # 0
    <3>1. nextToken \in Token /\ handles[nextToken] = 0 /\ handles \in [Token -> Object]
      BY <1>1, <2>2, FreshToken DEF AInv, TypeOK
    <3>2. handles' = [With(nextToken, observed) EXCEPT ![nextToken] = 0]
      BY <2>2 DEF PlayerNewFails
    <3> QED
      BY <3>1, <3>2 DEF With
  <2> QED
    BY <2>1, <2>2
<1>3. /\ wrapped' \in Seq([token : Token, object : Object])
      /\ Len(wrapped') \in {Len(wrapped), Len(wrapped) + 1}
      /\ \A w \in 1..Len(wrapped) : wrapped'[w] = wrapped[w]
      /\ \A w \in 1..Len(wrapped') : wrapped'[w].token \in 1..retains'
      /\ \A v, w \in 1..Len(wrapped') : wrapped'[v].token = wrapped'[w].token => v = w
  <2>1. CASE wrapped' = wrapped
    BY <1>1, <2>1 DEF AInv, TypeOK, TokensUsed
  <2>2. CASE nextToken # 0 /\ wrapped' = Append(wrapped, Word)
    BY <1>1, <2>2, WrapStep
  <2> QED
    BY <2>1, <2>2 DEF PlayerNewFails
<1>4. Len(wrapped) \in Nat /\ retains \in Nat /\ binding \in 0..Len(wrapped)
  BY DEF AInv, TypeOK
<1>5. TokensInOrder' /\ retains' \in 0..MaxRetains
  BY RetainKeepsOrder DEF PlayerNewFails
<1>6. OwnAddresses'
  BY <1>1, <1>2, FewerAlive
<1>7. TypeOK' /\ FormScoped' /\ FreshPresence'
  <2>1. /\ handles' \in [Token -> Object] /\ playerToken' \in Token
        /\ presence' \in {"unknown", "present", "absent"}
    BY <1>1, <1>2 DEF AInv, TypeOK
  <2>2. Len(wrapped) <= Len(wrapped') /\ binding' \in 0..Len(wrapped')
    BY <1>1, <1>3, <1>4
  <2>3. Return(rc') /\ rc' \in Nat /\ wrapped' \in Seq([token : Token, object : Object])
    BY <1>1, <1>3
  <2> QED
    BY <1>5, <2>1, <2>2, <2>3, ReturnTyped
<1>8. TokensUsed'
  <2>1. playerToken' <= retains' /\ handles'[0] = 0 /\ \A t \in Token : handles'[t] <= objects'
    BY <1>1, <1>2, <1>4, Tokens DEF AInv, TypeOK, TokensUsed, engineVars
  <2> QED
    BY <1>3, <2>1 DEF TokensUsed
<1>9. OneRow' /\ PresentMeansBound'
  BY <1>1, <1>2 DEF AInv, OneRow, PresentMeansBound
<1>10. BindingLive'
  BY <1>1, <1>2, <1>3, <1>4 DEF AInv, BindingLive
<1>11. ClassNamesOwn'
  BY <1>1, <1>3 DEF AInv, TypeOK, ClassNamesOwn, formVars
<1> QED
  BY <1>5, <1>6, <1>7, <1>8, <1>9, <1>10, <1>11 DEF AInv

\* The engine's own steps.
LEMMA EngineStep == ASSUME AInv, Spawn \/ Despawn PROVE AInv'
<1> USE AdapterAssumption, Tokens DEF AInv
<1>1. CASE Spawn
  <2>1. PICK a \in Address :
          /\ \A o \in 1..objects : Alive(o) => address[o] # a
          /\ address' = [address EXCEPT ![objects + 1] = a]
    BY <1>1 DEF Spawn
  <2>2. objects \in Nat /\ objects + 1 \in 1..MaxObjects /\ objects' = objects + 1
        /\ player' = objects + 1
    BY <1>1 DEF Spawn, TypeOK, Object
  <2>3. TypeOK'
    BY <1>1, <2>1, <2>2 DEF Spawn, TypeOK, Object, tableVars, sessionVars, stateVars, formVars, callVars
  <2>4. TokensInOrder' /\ TokensUsed' /\ FormScoped' /\ FreshPresence'
    BY <1>1, <2>2 DEF Spawn, TypeOK, Object, TokensInOrder, TokensUsed, FormScoped, FreshPresence,
       tableVars, sessionVars, stateVars, formVars, callVars
  <2>5. OneRow' /\ BindingLive' /\ ClassNamesOwn' /\ PresentMeansBound'
    BY <1>1 DEF Spawn, OneRow, BindingLive, ClassNamesOwn, PresentMeansBound, tableVars, sessionVars,
       stateVars, formVars
  <2>6. \A o \in 1..MaxObjects : Alive(o)' => o = objects + 1 \/ (Alive(o) /\ o \in 1..objects)
    <3>1. /\ handles' = handles /\ observed' = observed /\ player \in 0..objects
          /\ observed \in 0..objects
          /\ \A t \in Token : handles[t] \in 0..objects
      BY <1>1 DEF Spawn, TypeOK, Object, TokensUsed, tableVars, callVars
    <3> QED
      BY <2>2, <3>1 DEF Alive
  <2>7. \A o \in 1..objects : address'[o] = address[o]
    BY <2>1, <2>2 DEF TypeOK
  <2>8. address'[objects + 1] = a
    BY <2>1, <2>2 DEF TypeOK
  <2>9. OwnAddresses'
    BY <2>1, <2>2, <2>6, <2>7, <2>8 DEF OwnAddresses
  <2> QED
    BY <2>3, <2>4, <2>5, <2>9
<1>2. CASE Despawn
  BY <1>2 DEF Despawn, TypeOK, TokensInOrder, TokensUsed, FormScoped, FreshPresence,
     OwnAddresses, Alive, OneRow, BindingLive, ClassNamesOwn, PresentMeansBound, tableVars,
     sessionVars, stateVars, formVars, callVars
<1> QED
  BY <1>1, <1>2

-----------------------------------------------------------------------------
(* The results. *)

LEMMA StepAInv == AInv /\ [Next]_vars => AInv'
<1> SUFFICES ASSUME AInv, [Next]_vars PROVE AInv'
  OBVIOUS
<1>1. CASE UNCHANGED vars
  <2>1. TypeOK'
    BY <1>1 DEF AInv, TypeOK, Phase, vars, tableVars,
       sessionVars, stateVars, formVars, callVars, engineVars
  <2>2. TokensInOrder' /\ TokensUsed' /\ FormScoped' /\ FreshPresence'
    BY <1>1 DEF AInv, TokensInOrder, TokensUsed, FormScoped, FreshPresence, vars, tableVars,
       sessionVars, stateVars, formVars, callVars, engineVars
  <2>3. OwnAddresses'
    BY <1>1 DEF AInv, OwnAddresses, Alive, vars, tableVars,
       sessionVars, stateVars, formVars, callVars, engineVars
  <2>4. OneRow' /\ BindingLive' /\ ClassNamesOwn' /\ PresentMeansBound'
    BY <1>1 DEF AInv, OneRow, BindingLive, ClassNamesOwn, PresentMeansBound, vars, tableVars,
       sessionVars, stateVars, formVars, callVars, engineVars
  <2> QED
    BY <2>1, <2>2, <2>3, <2>4 DEF AInv
<1>2. CASE Next
  BY <1>2, LifecycleStep, FormStep, KeepStep, NewStep, NewFailsStep, EngineStep DEF Next
<1> QED
  BY <1>1, <1>2

\* The inductive invariant holds of the plugin, whatever Load, the forms and
\* the engine do.
THEOREM AdapterInvariant == Spec => []AInv
<1>1. Init => AInv
  BY InitAInv
<1>2. AInv /\ [Next]_vars => AInv'
  BY StepAInv
<1> QED
  BY <1>1, <1>2, PTL DEF Spec

\* PlayerPresentPrimitive, its failures and Unload leave no strong reference
\* but the row of g_playerToken, and none when the plugin is unloaded.
THEOREM OnlyOneRow == Spec => []OneRow
<1>1. AInv => OneRow
  BY DEF AInv
<1> QED
  BY <1>1, AdapterInvariant, PTL

\* The player's Lisp name never dangles: between wsm_bind and Release there is
\* no step at which it is a word without the row of g_playerToken.
THEOREM NameNeverDangles == Spec => []BindingLive
<1>1. AInv => BindingLive
  BY DEF AInv
<1> QED
  BY <1>1, AdapterInvariant, PTL

\* ClassPrimitive on a word kept by a form names the object the word was made
\* for: m_nextToken gives no token out twice, so no later row has the token.
THEOREM StaleWordsNameNothing == Spec => []ClassNamesOwn
<1>1. AInv => ClassNamesOwn
  BY DEF AInv
<1> QED
  BY <1>1, AdapterInvariant, PTL

\* RuntimeState says "present" only while the name is bound to a live row.
THEOREM PresenceIsTrue == Spec => []PresentMeansBound
<1>1. AInv => PresentMeansBound
  BY DEF AInv
<1> QED
  BY <1>1, AdapterInvariant, PTL

\* After a lookup that ran and returned 0 the row holds the very object
\* GetPlayer gave, although Decide compares addresses and the engine reuses
\* them: the row keeps its object alive, and live objects do not share one.
THEOREM LookupRefreshes == Spec => RefreshedPlayer
<1> DEFINE A == phase = "lookedUp" /\ executed /\ phase' = "form" /\ rc' = 0 =>
                    Resolve(playerToken)' = observed
<1>1. ASSUME AInv, [Next]_vars PROVE [A]_vars
  <2> SUFFICES ASSUME Next, phase = "lookedUp", executed, phase' = "form", rc' = 0
               PROVE  handles'[playerToken'] = observed
    BY <1>1 DEF Resolve
  <2>1. CASE PlayerKept
    BY <1>1, <2>1, Decided DEF PlayerKept, tableVars
  <2>2. CASE PlayerGone
    BY <1>1, <2>2, Decided, Tokens DEF PlayerGone, Without, AInv, TypeOK, OneRow
  <2>3. CASE PlayerNew
    <3>1. /\ retains < MaxRetains /\ nextToken # 0 /\ playerToken' = nextToken
          /\ handles' = [With(nextToken, observed) EXCEPT ![playerToken] = 0]
      BY <2>3 DEF PlayerNew, Retain
    <3>2. nextToken \in Token /\ handles[nextToken] = 0 /\ nextToken # playerToken
      BY <1>1, <3>1, FreshToken
    <3> QED
      BY <1>1, <3>1, <3>2 DEF With, AInv, TypeOK
  <2>4. ~PlayerGoneFails /\ ~PlayerNewFails
    BY DEF PlayerGoneFails, PlayerNewFails, Return
  <2>5. ~(LoadBegin \/ LoadFails \/ LoadEnds \/ Unload \/ TickBegin \/ FormBegin \/ FormEnd)
    BY DEF LoadBegin, LoadFails, LoadEnds, Unload, TickBegin, FormBegin, FormEnd
  <2>6. ~(ReadPlayer \/ LogPrimitive \/ PlayerLookup \/ \E w \in held : ClassPrimitive(w))
    BY DEF ReadPlayer, LogPrimitive, PlayerLookup, ClassPrimitive
  <2>7. ~(Spawn \/ Despawn)
    BY DEF Spawn, Despawn
  <2> QED
    BY <2>1, <2>2, <2>3, <2>4, <2>5, <2>6, <2>7 DEF Next
<1> QED
  BY <1>1, AdapterInvariant, PTL DEF Spec, RefreshedPlayer

\* A lookup that could not run changes neither the name nor the row, and no
\* step of the engine between the lookup and the decision does.
THEOREM FailedLookupPreserves == Spec => PreservedPlayer
<1>1. ASSUME AInv, [Next]_vars
      PROVE  [phase = "lookedUp" /\ ~executed => UNCHANGED << binding, playerToken, handles >>]_vars
  <2> SUFFICES ASSUME Next, phase = "lookedUp", ~executed
               PROVE  UNCHANGED << binding, playerToken, handles >>
    BY <1>1
  <2>1. Action = "Preserve"
    BY <1>1, Decided
  <2>2. CASE PlayerKept
    BY <2>2 DEF PlayerKept, tableVars
  <2>3. ~PlayerGone /\ ~PlayerGoneFails /\ ~PlayerNew /\ ~PlayerNewFails
    BY <2>1 DEF PlayerGone, PlayerGoneFails, PlayerNew, PlayerNewFails
  <2>4. CASE Spawn \/ Despawn
    BY <2>4 DEF Spawn, Despawn, tableVars, sessionVars, stateVars
  <2>5. ~(LoadBegin \/ LoadFails \/ LoadEnds \/ Unload \/ TickBegin \/ FormBegin \/ FormEnd)
    BY DEF LoadBegin, LoadFails, LoadEnds, Unload, TickBegin, FormBegin, FormEnd
  <2>6. ~(ReadPlayer \/ LogPrimitive \/ PlayerLookup \/ \E w \in held : ClassPrimitive(w))
    BY DEF ReadPlayer, LogPrimitive, PlayerLookup, ClassPrimitive
  <2> QED
    BY <2>2, <2>3, <2>4, <2>5, <2>6 DEF Next
<1> QED
  BY <1>1, AdapterInvariant, PTL DEF Spec, PreservedPlayer
=============================================================================
