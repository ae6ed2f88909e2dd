# A formal model of my-lisp-cyberpunk

`my-lisp-cyberpunk` puts a Lisp session inside Cyberpunk 2077, in two shapes:
a RED4ext plugin (`adapter/`) that drives the `host-runtime` DLL from the
game's Running tick, and a stand-alone proxy `version.dll` (`bridge/`) that
owns a canonical `my-lisp` session on a thread of its own.  Both expose the
same loopback REPL.  This directory holds TLA+ models of the parts that carry
state, the TLC runs that check them on small instances, and TLAPS proofs of
the most important invariants for every instance.

Run a model with `tlc -config X.cfg M`, a proof with `tlapm M.tla`; the runs
are listed in `PROJECT.json` with the definition-to-source map.

## Inventory

| Part | State it keeps | Operations | What makes it hard | Properties that make it correct |
|---|---|---|---|---|
| `LocalReplQueue.hpp` RequestQueue | bounded FIFO of source and reply | Push, Pop, CancelAll | producers on other threads; CancelAll replies outside the lock | every accepted request answered once, in order; bound |
| `LocalReplServer.cpp` | listener, running flag, worker thread, queue pointer; per client a byte buffer | Start, Stop, Drain; accept, recv, frame, push, wait, send | three kinds of actors, TCP segmentation, blocking calls, stop at any point | worker inside one lifetime, nothing left after Stop, replies match requests, Stop returns |
| `BridgeRuntime.cpp`, `BridgeDllMain.cpp` | two flags, an event handle, the loader's count, the self-pin | DllMain, BridgeThread, Run, SignalFinished, Shutdown | lock-free flags, handle closed while set, unload under a live thread, early stop, reload | code stays mapped, TRUE means stopped, early stop kept, no lost wake-up |
| `CanonicalReplHost.cpp` | one embed session | Start, Evaluate, Stop | must outlive the server | session freed last |
| `Main.cpp` (plugin) | session, function pointers, player token, dispatch source | Load, Unload, tick, three host primitives | partial failure, reload, engine objects that vanish and reuse addresses | name, token and row agree; old words never name a new player |
| `GameHandleTable`, `PlayerHandleEpoch`, `AdapterRuntimeState` | token to strong handle; presence | Retain, Resolve, Release, Clear; Decide | token wrap, address reuse | no leaked row, the right object |
| NeuralDeck C++ | open flag, input, history, transcript | Toggle, SetInput, Submit, Record, Clear | shares the queue with the socket worker; limits | transcript faithful, no text lost |
| `NeuralDeckOverlay.reds` | popup reference, closing flag | key press, OnHidden | callbacks of another framework that may never come | flag and reference agree with the popup; no press puts off its OnHidden |
| `reader.rs`, `nucleus-win64.s`, `printer.rs` | arena, token position | tokenize, preflight, parse, cons, print | fixed arena whose exhaustion ends the process | one form in, the same form out, no process failure |
| `ffi.rs`, `word.rs`, `eval.rs` | symbols, boxed values, bindings | eval, bind, wrap/unwrap | transient lifetimes, integer width, re-entry from primitives | values valid while used, arithmetic exact or refused |
| `build.rs` | the four spelling tables of the built library | read the registry, generate | input owned by another repository | no form takes another form's word, or no build |

Calls and shared state: clients talk TCP to the socket worker; the worker and
the NeuralDeck push into the queue; the owner (the game tick, or the bridge
thread) drains it, evaluates, and the reply callback fulfils the promise the
worker polls, or records a transcript entry.  Primitives called by a form come
back into the adapter, which binds names in the same session.

Not modelled, and why: the `version.dll` forwarders and `CmlAotDispatch.hpp`
(no state), `SurfaceExt.hpp` (a fixed list of files tried once), the Lisp
observation policy and dispatcher scripts (data for an external interpreter),
the PowerShell tools, the CMake generator, `bench.rs` and the workflows
(sequential I/O).  The `my-lisp` runtime is a submodule whose content is not
here.  Of the modelled parts, left out are: the characters of atoms, strings
and escapes (`printer.rs` quotes a string without escaping it, so a string
that contains a quote does not read back), the popup's widgets, two sessions
at once and a host that binds a pair (`ffi.rs:224-251` rules both out: the
arena is shared and reset), and null pointers and bad UTF-8, which every call
of `ffi.rs` refuses before it touches the session.

## Modules

| Module | Extends | Models |
|---|---|---|
| `RequestQueue` | | the queue; `submitted`, `accepted`, `answered` are history |
| `ReplyService` | | what the queue promises: accept at the back, answer at the front, once |
| `RequestQueueProofs` | RequestQueue | its invariant and the refinement, proved |
| `ReplServer` | RequestQueue | server, socket worker, owner thread, TCP clients |
| `ReplServerProofs` | ReplServer, RequestQueueProofs | its invariants, proved |
| `MCReplServer` | ReplServer | alphabets and lines for TLC |
| `BridgeLifecycle` | | proxy DLL, its thread, host threads, the loader |
| `BridgeLifecycleProofs` | BridgeLifecycle | its invariants, proved |
| `Adapter` | | plugin life cycle, tick, primitives, handle table, engine |
| `AdapterProofs` | Adapter | its invariants, proved |
| `NeuralDeck` | RequestQueue | deck state on the shared queue |
| `Overlay` | | the deck's popup service and Codeware's hide events and fades |
| `NeuralDeckProofs` | NeuralDeck, Overlay, RequestQueueProofs | the invariants of both, proved |
| `MCNeuralDeck` | NeuralDeck, Overlay | both side by side, for TLC |
| `Reader` | | reading, arena, transient strings, printing |
| `ReaderProofs` | Reader | preflight, outcomes and string scope, proved |
| `Evaluator` / `MCEvaluator` | | eval, boxed table, bindings, primitives that re-enter, what a form means; texts |
| `EvaluatorProofs` | Evaluator | the lifetimes of words and the meaning of forms, proved |
| `Words` | | tags, fixnums, symbol and boxed words, `reduce`, at any width |
| `CanonSpellings` | | the build script, from registry file to spelling tables |
| `Session` / `MCSession` | Words, CanonSpellings | the library's build and a host's calls; registries and inputs |
| `SessionProofs` | Session | fixnums, symbol names and boxed slots, proved |

How state and actions correspond to the code:

* **RequestQueue.** `Push` and `Pop` run under the mutex: one step each.
  `CancelAll` swaps the queue out in one step and replies in the following
  ones (`ReplyCancelled`), as the code does outside the lock.
* **ReplServer.** One action per blocking or shared access of the worker
  (`RunLoop`, `Accept`, `RecvData`, `TakeNext`, `PushLine`, `Wait`, ...).  Text
  is a sequence of bytes because `newline` is a position that survives two
  `continue`s; `TakeLine` and `DropLine` clip as `substr` and `erase` do.
  `RecvData` returns any non-empty part of what is in flight.  `SendLine`
  blocks when `SendWindow` replies are unread.
* **BridgeLifecycle.** The steps are the accesses to the three atomics, the
  event and the loader's count.  `image` counts how often the DLL was mapped
  afresh and names that image's event.  The server is a flag whose detail is
  `ReplServer`.  Hosts release the DLL only after a shutdown that
  answered TRUE (the comment at `BridgeDllMain.cpp:137-138`).
* **Adapter.** Everything runs on the game thread; the engine's `Spawn` and
  `Despawn` fall between any two steps, also between `GetPlayer` and the use of
  its answer.  A form is any sequence of primitive calls and reads of the
  player's name.  An object's address may be reused once no handle holds it.
* **NeuralDeck.** Deck events fall between the owner's queue operations, remote
  pushes anywhere.  A reply of a deck request is `Record`; `DeckAnswers(k)`
  are the deck's among the first k replies, so that a record's number can be
  compared with how many there were.
* **Overlay.** One action per callback of the service.  `Close` only queues an
  event, `ProcessHide` delivers it and starts the fade, the last `Frame` calls
  `OnHidden`; a key press may fall between any two of them.  Codeware is
  modelled from how the service uses it, from the incident's document and from
  the evidence gathered after its fix: a hide may stall before `OnHidden`, for
  good (`HideStalls`).
* **Reader.** `parse_form`/`parse_list` are a stack of open lists; a list is
  consed when its `)` is read, last element first, which is when the calls of
  `parse_list` return.  Evaluation never conses, so a form that was read is
  printed as it stands.
* **Evaluator.** `eval`, `eval_args`, `eval_cond` and `eval_checked_accessor`
  are a stack of frames over the cells the reader leaves; each action is one
  turn of a loop or one return.  A host's `wsm_bind` and wraps fall between
  forms and inside a primitive call.  `calls` records the primitive calls with
  what the host answered, so that the reference `MeanFrom` - a big-step
  semantics, a function of the cell of a list, without stack or step - can be
  given the same host.  A text of the run is a tree; `TextAssumption` of
  `MCEvaluator` says that its cells are that tree.  wsm_bind inside a primitive changes a table that eval
  borrows; the model takes the outcome in which every symbol is looked up anew.
  `Form` may be any set of forms that `read_one` can leave (`FormAssumption`:
  proper lists of their own cells and strings, each cell of earlier ones, as
  cons makes them); `Name` is their spellings.
  One name stands for all spellings of a special form.
* **Words, CanonSpellings, Session.** A word is a number of 3 tag bits and
  `Payloads` payloads (2^61 in the code).  `Wrap`, `AsU64` and `AsI64` are
  Rust's arithmetic without overflow checks; `checks` chooses at `Init` the
  build that panics instead.  `Build` is the build script; every state-changing
  function of `ffi.rs` is an action, the unwraps and `Answers` (what
  `wsm_eval_string` returns) are operators of the state, so that the
  invariants ask them of every word and every text in every state.  Texts are
  atoms and one-argument calls.  `given` is history: what the host passed in.
* **ReplyService.** `ImplementsService` (in `RequestQueue`) maps `waiting` to
  what is in hand, being cancelled and queued, in this order.

Operators marked "for the mutants" are the defective variants the mutation
check puts in place of a definition; no specification uses them.

## Runs

| Run | Question | States |
|---|---|---|
| `repl_safety` | two clients, four kinds of lines, two lifetimes: lifetimes, framing, one reply per request | 463,245 |
| `repl_liveness` | Stop returns; well-behaved clients are answered | 32,865 |
| `repl_blank` | *violated*: a blank line is ignored and the client served on | |
| `bridge` | two hosts, every fault, three images: mapping, shutdown, events, order | 24,144 |
| `bridge_reload` | *violated*: a host that reloads is served | |
| `adapter` | three players at two addresses, wrapping tokens, faults, reloads | 868,758 |
| `adapter_no_repl` | *violated*: a plugin without a REPL can tick | |
| `deck` | two producers, a queue of two, limits of two, refining the reply service; two popups that fade for two frames | 327,600 |
| `reader` | every sequence of up to six tokens, twice, arena of two cells | 379,199 |
| `reader_incomplete` | *violated*: no text ends the process | |
| `evaluator` | two forms out of 50 in one session, any host: the meaning of the text, word lifetimes, termination | 338,903 |
| `session` | 288 builds, then any calls on words of 6 bits: identity of symbols and handles, exact fractions, the answer to every text | 189,056 |

Bounds and why they suffice.  Two clients give a client that waits while
another is served and one that is reset in the backlog; two lines give
pipelined, split and mixed good and bad requests; two starts give a second
lifetime.  Two hosts give the race on the event and three images a reload
after a reload.  `TokenSpace = 4` lets `m_nextToken` wrap (token 0) within
`MaxRetains = 4`; two addresses and three objects give reuse with and without
a holder.  A queue, history and transcript of two reach full, trim and refuse
with three submissions.  Two popups give a reopened deck, two frames a fade
that a second close would start over.
Six tokens contain a nested list, an empty list, a second form and an
unfinished form with a finished inner list, and two cells are fewer than some
of them need.  The texts of `evaluator` combine every head (each special form,
a primitive, an unknown name, a number) with an empty list, a name, quoted
data, a call and a list headed by a call, and two forms and two host values
let a word outlive the form it was made in.  A transient rational lives as a
transient string does, so the run leaves it out.  In `session`
`Payloads = 8` makes i64 the range -32..31 and the payload -4..3, so that the
texts hold integers at and beyond both; the registry has surfaces of every
shape and is damaged by each lost or added parenthesis and by each token of
its first entry; two slots hold a value that stays beside one that goes.  `CHECK_DEADLOCK FALSE` everywhere: a stopped server, an
unmapped DLL, a process that has exited and exhausted bounds are legitimate
ends.

Fairness.  The owner keeps ticking and finishes a Stop it began, the worker
thread is scheduled, and clients read their replies (a client that never reads
does block Stop: `send` has no timeout).  The bridge thread is scheduled and
`server.Stop` returns, which is `StopCompletes`.  eval runs on and a primitive
it called returns (the adapter's three are free of loops and waits).
Starting, stopping, connecting, writing and leaving are never forced, and
neither is anything of Codeware.

## What the runs show about the code

The four expected violations are disagreements with the repository's own
words; `PROJECT.json` quotes them.

1. A **blank line** makes the framing loop spin (`LocalReplServer.cpp:81-84`):
   `continue` without a new `find`.  The worker then never sees `running`, so
   Stop hangs too.
2. **Reload** between `SignalFinished` and `FreeLibraryAndExitThread` gives a
   DLL without a REPL (`BridgeDllMain.cpp:137-139`).
3. A plugin whose **REPL could not start** dereferences a null queue at its
   first tick (`Main.cpp:491`, `LocalReplServer.cpp:194`).
4. An **unfinished form** skips the capacity preflight and can exhaust the
   arena, exit 97 (`reader.rs:108`).

Met in `word.rs` and stated as the limits of properties that hold:

* `reduce` has no absolute value for the least i64.  The optimized build then
  keeps a fraction that is not reduced or has a negative denominator, where
  `word.rs:164` and `ffi.rs:490` say "always"; the dev build panics and the
  call answers -2.  `UnwrapSound` is about every other fraction.
* An integer literal beyond 61 bits keeps its low 61 bits, one beyond i64 is a
  symbol; `AnswersMeanText` says so.
* `clear_transient` empties slots and never removes them: the table grows by a
  slot per string for the whole session, and every form walks it.
* A registry surface that loses its word makes its status a spelling;
  `BuildExact` is about words of other forms.

Also met and stated in the modules, without a run: after a rejected request the
same stale position cuts the next line (`EveryClientFramed`); an accept error
ends the worker (`ServesWhileRunning`); a lookup that could not run is reported
as absence.  That the **deck can be opened again** after a close is not claimed:
`docs/neuraldeck-close-reentrancy-2026-09-16.md` calls the wedged popup
"Root-caused and fixed", but the evidence taken with the fix in place
(`NeuralDeckOverlay.reds:26-30`,
`docs/evidence/neuraldeck-cet-gamelog-2026-09-16-latest.txt:57-92`) has one
Close and no `OnHidden`.  What the fix does achieve is `NeverPutOff`: the
service itself no longer delays it.  When Codeware stalls, `m_closing` stays set
and the service has no way out.  The other results hold: in particular address reuse never fools
`Decide`, because the table's strong handle keeps the compared address taken;
a wrapped token is refused, not reused; and Shutdown's lock-free protocol loses
no wake-up.

## Proofs

All for every value of the constants, under the assumptions named in the
modules (`QueueAssumption`, `ServerAssumption`, `BridgeAssumption`,
`AdapterAssumption`, `DeckAssumption`, `ReaderAssumption`: bounds are naturals,
capacities are positive, faults are fault points; others are named below).

* `RequestQueueProofs`: `QueueInvariant`.  Order and single reply are not
  inductive; `Conservation` is: the accepted sequence is the concatenation of
  what is answered, in hand, being cancelled and queued.  With ascending ids it
  gives `RepliesInOrderOnce`.  `QueueImplementsService` shows every step to be
  an `Accept`, an `Answer` or a stutter of `ReplyService`: a `Pop` and a
  `CancelAll` only move the boundary inside `waiting`.
* `ReplServerProofs`: `ServerInvariant`, for `SInv` = types, `QInv`, `Phases`
  (where the owner is fixes flags and worker), `Holding` (which part of the
  queue may hold anything), `Outstanding` (the only unanswered request is the
  one waited for, or was left by a worker on its way out), `Promised` and
  `Serving`.  `QuietWhenStopped` needs `Phases` (the worker is joined before
  CancelAll), `PromiseSetOnce` needs `Outstanding` (a queued request has no
  reply yet).  The lemmas are one per conjunct, one step per action.
  `ServerImplementsService` lifts the refinement to the whole server.
  `CleanClientsFramed` needs a second invariant, `FInv`: a connection not
  accepted yet has seen no traffic (`Waiting`, `Untouched`, `InHand`), the
  request waited for has the text of the line in hand (`Asked`), and for a
  clean client the replies sent answer its first lines (`Told`) while
  ServeClient's locals are a position in its bytes: whole lines up to some t
  are framed, `buffered` is what was received after t, and one more line than
  replies is framed from Push until the reply goes out (`Keeps`).  That the
  line in hand is never refused is part of it: the queue is empty then
  (`Outstanding`) and the line fits.  The reference numbers the lines of a text
  by how many end before them (`Within`), so that no recursion is needed.
* `BridgeLifecycleProofs`: `BridgeInvariant`, for `BInv` = types,
  `ThreadHolds`, `FlagsAgree`, `EventAgrees`; the five consequences follow, and
  `ServerBeforeSession` step by step.
* `AdapterProofs`: `AdapterInvariant`, for `AInv`.  Four of its conjuncts are
  properties of the run (`OneRow`, `BindingLive`, `ClassNamesOwn`,
  `PresentMeansBound`); none is inductive alone.  That the token `Retain` gives
  out has no row yet needs `TokensInOrder` (m_nextToken counts the calls, and
  wraps to 0, which is refused) and `TokensUsed` (rows and words have earlier
  tokens, words different ones).  That `Decide` keeps a row only for the same
  object needs `OwnAddresses`: a row's strong handle keeps its object alive,
  and live objects have different addresses.  `FormScoped` and `FreshPresence`
  bound what survives a form and a reload.  `LookupRefreshes` and
  `FailedLookupPreserves` are steps from it.  `AdapterAssumption` lets Retain be
  called at most `TokenSpace` times, up to and including the wrap: 2^64 calls in
  the code.
* `NeuralDeckProofs`: `DInv` = `QInv`, types, `RecordsNumbered`,
  `HistoryTidy`.  `RecordsNumbered` counts the deck's replies, so each action
  either leaves `answered` alone, adds a reply of the socket worker (which
  counts nothing) or one of the deck (`Record`, the next number); the
  request's source is known from `QInv`.  Trimming drops the oldest entry only
  (`RoomMade`).  `SharedQueueInvariant` and `SharedQueueImplementsService` carry
  `RequestQueueProofs` over to the deck's actions.  `OverlayStaysInStep`:
  `OverlayInStep` is inductive as it stands (it says of every popup, not only of
  m_overlay's, that a queued, a running and a stalled hide exclude each other),
  from `OverlayAssumption`; `OnHiddenNeverPutOff` is a step from it.
* `ReaderProofs`: `RInv` says what holds at each point of `eval_str`.  The core
  is `Parsing`: after p tokens the cells taken, the words on all open lists and
  the open lists themselves are together one more than the elements counted up
  to p, because the outermost list is no element.  The words on the open lists
  are added up by a function of prefix sums (`Sums`), which each step extends,
  shortens or raises at its end, so no recursion is needed.  At the last `)`
  nothing is open, and the cells are the count: `PreflightCounts`.
  `PreflightProtects` follows because a parse begins only if every count fits:
  the arena can be exhausted only when there is no count, in an unfinished text.
  `OutcomesMatch` uses that the parser's stack is empty exactly where the
  parentheses balance first (`Unended`), `StringsAreScoped` that string words
  on open lists are live before they reach a cell.
  `ValuesPrintBack` adds `RoundInv`: each open list opens at one of the tokens
  read, and its words spell, one after the other, the tokens between that
  parenthesis and the next open one (`LaidBy`).  `WriteIs` gives the printer's
  recursive function its equation - cells refer to earlier cells - and
  `ListSpells`, by the least cell that would fail, what a closed list prints.
* `EvaluatorProofs`: `EInv` = types, `TableForgets`, `BindingsStay`,
  `FormUsable`.  That words keep their meaning is not inductive: a host's
  binding must survive the clearing at the end of every form (`BindingsStay`: it
  has no cells, and only persistent boxed values), and what a waiting call
  will take the car or cdr of must be a proper list (`SoundFrame`), or the
  evaluation could leave the arena.  `EvaluationNeverDies` is the second half:
  the raw car and cdr of `eval.rs` never meet anything but a pair.
  `FormsMeanWhatTheySay` adds `MInv`.  The answer of a form depends on what the
  host has yet to answer, so its heart `Owed` speaks of every host that goes on
  from the calls made so far: the form as a whole means what the waiting calls,
  one around the other (`Chain`, `Through`), make of the word in focus.  A step
  of eval pops or pushes a frame and keeps that (`ChainPop`, `ChainPush`); an
  error goes through all of them (`ChainError`).  Outside a primitive the
  bindings are those the last answer left, and once a form is answered its
  text stays right while values are added (`Settled`, `WrittenSame`).
  `MeaningExists` shows the recursion well founded, since cells refer to
  earlier cells (`Ordered`, `MeanLocal`).
* `SessionProofs`: `SymbolNames`, from `SessionAssumption` (fewer names than
  ids) and `TextAssumption`.  That names differ by id is not inductive; that
  the ids in use are below `next` and as many as the names (`TableOneToOne`)
  is.  `FixnumExact` follows from `PayloadsAssumption` alone.
  `UnwrapIsSound`, from `SlotsAgree`: the boxed table and the history of what
  was asked for go slot by slot together, and only transient slots are
  emptied.  That a fraction comes back equal and in lowest terms needs what the
  recursive `gcd` computes: `GcdStage` and `GcdAgree` build it from functions
  on ever larger second numbers, `GcdDef` gives its equation, `GcdGreatest`
  that it is the common divisor all others divide.  `TextsMeanWhatTheySay`
  needs no further invariant than these two: a case for each kind of text, the
  word its last atom becomes (`LastInterned`) and what eval and the printer
  make of that word, for registries that give no word to two forms
  (`Unambiguous`, a hypothesis of the property).

Only model-checked, and why:

* every liveness property (`StopCompletes`, `EvalReturns`, ...): liveness under
  fairness and `ENABLED` are out of the prover's reach;
* `BuildExact`: it is about the registries `MCSession` builds, an intact one and
  those that lost or gained one token, and the build's parser is a fold over
  them; a theorem would need a grammar of intact registries as a parameter.

Induction over data is done without the library's induction theorems, which
take an operator: the least natural of a set of counterexamples (`Least`,
`LeastInNat`, from `WFMin`) refutes it, and a recursive function is shown to
satisfy its equation by functions on initial parts of its domain that agree.

## Plan

1. *Model next*: hosts that free the DLL after FALSE; Evaluator fed by
   Reader's tokens instead of trees.
2. *State more*: an abstract "player name" that Adapter implements; runs for
   the rejected-request, accept-error, absent-lookup and least-i64
   disagreements in place of weaker ones.
3. *Prove next*: `BuildExact` for registries of any length.
