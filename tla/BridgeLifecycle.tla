--------------------------- MODULE BridgeLifecycle ---------------------------
(***************************************************************************)
(* The life of the proxy DLL (bridge/src): DllMain and BridgeThread        *)
(* (BridgeDllMain.cpp), RunCanonicalRepl and ShutdownCanonicalRepl         *)
(* (BridgeRuntime.cpp), CanonicalReplHost::Start and Stop.                 *)
(*                                                                         *)
(* The actors are the bridge thread, which owns the Lisp session and the   *)
(* REPL server, and host threads ("callers") that load the DLL, ask it to  *)
(* shut down and release it.  They share three atomics and the loader's    *)
(* reference count; the steps below are the accesses to those.  The server *)
(* is a flag here; module ReplServer is its detail.                        *)
(***************************************************************************)
EXTENDS Naturals

CONSTANTS
    Caller,     \* host threads, each with its own LoadLibrary reference
    Fault,      \* the calls that may fail: see FaultPoint
    MaxImages   \* bound: how often the DLL is mapped afresh

FaultPoint == {"thread", "pin", "event", "session", "record", "server"}

ASSUME BridgeAssumption == Fault \subseteq FaultPoint /\ MaxImages \in Nat

VARIABLES
    image,          \* how often DllMain has attached; names the event of that image
    thread,         \* where BridgeThread is; "none": not created, or exited
    pinned,         \* BridgeThread holds its own reference (pinnedSelf)
    stopRequested,  \* g_stopRequested
    finished,       \* g_finished
    stoppedEvent,   \* g_stoppedEvent: 0 is nullptr, else the image it belongs to
    signalling,     \* SignalFinished: the handle it loaded
    open,           \* the events whose handle has not been closed
    signalled,      \* the events SetEvent was called on while open
    session,        \* CanonicalReplHost::m_session is live
    server,         \* the LocalReplServer runs
    caller,         \* caller |-> where it is; "out": it holds no reference
    waiting,        \* caller |-> the handle ShutdownCanonicalRepl loaded
    early           \* history: this image was asked to stop before it looked

flags == << stopRequested, finished, stoppedEvent >>
events == << open, signalled >>
bridgeVars == << thread, pinned, signalling, session, server >>
callerVars == << caller, waiting >>
vars == << image, flags, events, bridgeVars, callerVars, early >>

\* The loader keeps the DLL mapped while anyone holds a reference.
Mapped == pinned \/ \E c \in Caller : caller[c] # "out"

MayFail(point) == point \in Fault

Init ==
    /\ image = 0 /\ thread = "none" /\ pinned = FALSE
    /\ stopRequested = FALSE /\ finished = FALSE
    /\ stoppedEvent = 0 /\ signalling = 0 /\ open = {} /\ signalled = {}
    /\ session = FALSE /\ server = FALSE
    /\ caller = [c \in Caller |-> "out"]
    /\ waiting = [c \in Caller |-> 0]
    /\ early = FALSE

-----------------------------------------------------------------------------
(* Host threads: LoadLibrary, MyLispBridgeShutdown, FreeLibrary. *)

Move(c, pc) == caller' = [caller EXCEPT ![c] = pc]

\* LoadLibrary maps the DLL: DllMain clears the flags (PrepareCanonicalRepl)
\* and creates BridgeThread; a failure to create it is ignored.
Attach(c) ==
    /\ caller[c] = "out" /\ ~Mapped /\ image < MaxImages
    /\ Move(c, "in")
    /\ image' = image + 1
    /\ stopRequested' = FALSE /\ finished' = FALSE /\ stoppedEvent' = 0
    /\ early' = FALSE
    /\ thread' \in {"delay"} \cup (IF MayFail("thread") THEN {"none"} ELSE {})
    /\ UNCHANGED << events, pinned, signalling, session, server, waiting >>

\* LoadLibrary of a DLL that is still mapped only counts: no DllMain.
LoadAgain(c) ==
    /\ caller[c] = "out" /\ Mapped
    /\ Move(c, "in")
    /\ UNCHANGED << image, flags, events, bridgeVars, waiting, early >>

\* ShutdownCanonicalRepl, first time or again after a timeout.
ShutdownRequest(c) ==
    /\ caller[c] \in {"in", "timedOut"}
    /\ stopRequested' = TRUE
    /\ early' = (early \/ thread \in {"delay", "run", "check"})
    /\ Move(c, "poll")
    /\ UNCHANGED << image, finished, stoppedEvent, events, bridgeVars, waiting >>

\* if (g_finished) break
ShutdownPoll(c) ==
    /\ caller[c] = "poll"
    /\ Move(c, IF finished THEN "close" ELSE "load")
    /\ UNCHANGED << image, flags, events, bridgeVars, waiting, early >>

\* No event yet: sleep and look again.  An event: wait for it.
ShutdownLoad(c) ==
    /\ caller[c] = "load"
    /\ waiting' = [waiting EXCEPT ![c] = stoppedEvent]
    /\ Move(c, IF stoppedEvent = 0 THEN "poll" ELSE "wait")
    /\ UNCHANGED << image, flags, events, bridgeVars, early >>

\* timeoutMs has passed, while polling or in WaitForSingleObject.
ShutdownTimeout(c) ==
    /\ \/ caller[c] = "load"
       \/ caller[c] = "wait" /\ waiting[c] \notin signalled
    /\ Move(c, "timedOut")
    /\ UNCHANGED << image, flags, events, bridgeVars, waiting, early >>

\* WaitForSingleObject returns: WAIT_OBJECT_0, or a failure - which is
\* answered like a timeout - when another caller has closed the handle.
ShutdownWait(c) ==
    /\ caller[c] = "wait"
    /\ \/ waiting[c] \in signalled /\ Move(c, "close")
       \/ waiting[c] \notin open /\ Move(c, "timedOut")
    /\ UNCHANGED << image, flags, events, bridgeVars, waiting, early >>

\* g_stoppedEvent.exchange(nullptr), CloseHandle; the call returns TRUE.
ShutdownClose(c) ==
    /\ caller[c] = "close"
    /\ stoppedEvent' = 0
    /\ open' = open \ {stoppedEvent}
    /\ Move(c, "stopped")
    /\ UNCHANGED << image, stopRequested, finished, signalled, bridgeVars, waiting, early >>

\* FreeLibrary, once MyLispBridgeShutdown has returned TRUE.
Release(c) ==
    /\ caller[c] = "stopped"
    /\ Move(c, "out")
    /\ waiting' = [waiting EXCEPT ![c] = 0]
    /\ UNCHANGED << image, flags, events, bridgeVars, early >>

-----------------------------------------------------------------------------
(* BridgeThread. *)

Goto(pc) == thread' = pc

\* The pin is forgotten, for the mutants.
PinSkipped ==
    /\ thread = "delay"
    /\ Goto("run")
    /\ UNCHANGED << image, flags, events, pinned, signalling, session, server, callerVars, early >>

\* Sleep(2000), then GetModuleHandleExW takes a reference of the thread's own;
\* if that fails the thread ends without a word.
Pin ==
    /\ thread = "delay"
    /\ \/ pinned' = TRUE /\ Goto("run")
       \/ MayFail("pin") /\ UNCHANGED pinned /\ Goto("none")
    /\ UNCHANGED << image, flags, events, signalling, session, server, callerVars, early >>

\* A worker that clears the request made during its delay, for the mutants.
CreateStoppedEventResets ==
    /\ thread = "run"
    /\ stoppedEvent' = image /\ open' = open \cup {image} /\ Goto("check")
    /\ stopRequested' = FALSE
    /\ UNCHANGED << image, finished, signalled, pinned, signalling, session, server,
                    callerVars, early >>

\* RunCanonicalRepl: CreateEventW; without an event only g_finished is set.
CreateStoppedEvent ==
    /\ thread = "run"
    /\ \/ /\ stoppedEvent' = image /\ open' = open \cup {image} /\ Goto("check")
          /\ UNCHANGED finished
       \/ /\ MayFail("event")
          /\ finished' = TRUE /\ Goto("exit")
          /\ UNCHANGED << stoppedEvent, open >>
    /\ UNCHANGED << image, stopRequested, signalled, pinned, signalling, session, server,
                    callerVars, early >>

\* if (g_stopRequested): finish without a session.
CheckStop ==
    /\ thread = "check"
    /\ Goto(IF stopRequested THEN "signal" ELSE "hostStart")
    /\ UNCHANGED << image, flags, events, pinned, signalling, session, server, callerVars, early >>

\* host.Start(): the ABI check and my_lisp_embed_session_new.
HostStart ==
    /\ thread = "hostStart"
    /\ \/ session' = TRUE /\ Goto("record")
       \/ MayFail("session") /\ UNCHANGED session /\ Goto("signal")
    /\ UNCHANGED << image, flags, events, pinned, signalling, server, callerVars, early >>

\* RecordAcceptedCanonicalProvenance
Record ==
    /\ thread = "record"
    /\ \/ Goto("serverStart")
       \/ MayFail("record") /\ Goto("hostStop")
    /\ UNCHANGED << image, flags, events, pinned, signalling, session, server, callerVars, early >>

\* server.Start(queue)
ServerStart ==
    /\ thread = "serverStart"
    /\ \/ server' = TRUE /\ Goto("loop")
       \/ MayFail("server") /\ UNCHANGED server /\ Goto("hostStop")
    /\ UNCHANGED << image, flags, events, pinned, signalling, session, callerVars, early >>

\* while (!g_stopRequested) Drain; then out of the loop.
LoopEnd ==
    /\ thread = "loop" /\ stopRequested
    /\ Goto("serverStop")
    /\ UNCHANGED << image, flags, events, pinned, signalling, session, server, callerVars, early >>

\* Defects of the way down, for the mutants: the session goes first, or the
\* bridge says it has finished before it has freed the session.
ServerStopLate ==
    /\ thread = "serverStop"
    /\ session' = FALSE /\ server' = FALSE /\ Goto("signal")
    /\ UNCHANGED << image, flags, events, pinned, signalling, callerVars, early >>

ServerStopFinishes ==
    /\ thread = "serverStop"
    /\ server' = FALSE /\ finished' = TRUE /\ Goto("hostStop")
    /\ UNCHANGED << image, stopRequested, stoppedEvent, events, pinned, signalling, session,
                    callerVars, early >>

\* server.Stop(): the socket worker is joined.
ServerStop ==
    /\ thread = "serverStop"
    /\ server' = FALSE /\ Goto("hostStop")
    /\ UNCHANGED << image, flags, events, pinned, signalling, session, callerVars, early >>

\* host.Stop(): my_lisp_embed_session_free
HostStop ==
    /\ thread = "hostStop"
    /\ session' = FALSE /\ Goto("signal")
    /\ UNCHANGED << image, flags, events, pinned, signalling, server, callerVars, early >>

\* Defects of SignalFinished, for the mutants: no flag, or no SetEvent.
SignalFlagSkipped ==
    /\ thread = "signal"
    /\ Goto("handle")
    /\ UNCHANGED << image, flags, events, pinned, signalling, session, server, callerVars, early >>

SignalLoadExits ==
    /\ thread = "handle"
    /\ Goto("exit")
    /\ UNCHANGED << image, flags, events, pinned, signalling, session, server, callerVars, early >>

\* SignalFinished: the flag, then the handle is loaded, then SetEvent - which
\* fails when a caller that saw the flag has closed the handle in between.
SignalFlag ==
    /\ thread = "signal"
    /\ finished' = TRUE /\ Goto("handle")
    /\ UNCHANGED << image, stopRequested, stoppedEvent, events, pinned, signalling, session,
                    server, callerVars, early >>

SignalLoad ==
    /\ thread = "handle"
    /\ signalling' = stoppedEvent
    /\ Goto(IF stoppedEvent = 0 THEN "exit" ELSE "set")
    /\ UNCHANGED << image, flags, events, pinned, session, server, callerVars, early >>

SignalSet ==
    /\ thread = "set"
    /\ signalled' = signalled \cup ({signalling} \cap open)
    /\ Goto("exit")
    /\ UNCHANGED << image, flags, open, pinned, signalling, session, server, callerVars, early >>

\* FreeLibraryAndExitThread: the pin and the thread go in one step.
ExitThread ==
    /\ thread = "exit"
    /\ pinned' = FALSE /\ Goto("none") /\ signalling' = 0
    /\ UNCHANGED << image, flags, events, session, server, callerVars, early >>

-----------------------------------------------------------------------------
CallerStep(c) ==
    \/ Attach(c) \/ LoadAgain(c) \/ ShutdownRequest(c) \/ ShutdownPoll(c) \/ ShutdownLoad(c)
    \/ ShutdownTimeout(c) \/ ShutdownWait(c) \/ ShutdownClose(c) \/ Release(c)

Bridge ==
    \/ Pin \/ CreateStoppedEvent \/ CheckStop \/ HostStart \/ Record \/ ServerStart
    \/ LoopEnd \/ ServerStop \/ HostStop \/ SignalFlag \/ SignalLoad \/ SignalSet \/ ExitThread

Next == Bridge \/ \E c \in Caller : CallerStep(c)

Spec == Init /\ [][Next]_vars

\* The bridge thread is scheduled, and server.Stop returns (ReplServer's
\* StopCompletes).  A caller that entered ShutdownCanonicalRepl runs too.
Fairness ==
    /\ WF_vars(Bridge)
    /\ \A c \in Caller : WF_vars(ShutdownPoll(c) \/ ShutdownLoad(c) \/ ShutdownWait(c)
                                    \/ ShutdownClose(c))

FairSpec == Spec /\ Fairness

-----------------------------------------------------------------------------
ThreadPC == {"none", "delay", "run", "check", "hostStart", "record", "serverStart", "loop",
             "serverStop", "hostStop", "signal", "handle", "set", "exit"}
CallerPC == {"out", "in", "poll", "load", "wait", "close", "stopped", "timedOut"}

\* Types; the published event is always the one of this image.
TypeOK ==
    /\ image \in 0..MaxImages
    /\ thread \in ThreadPC
    /\ pinned \in BOOLEAN /\ session \in BOOLEAN /\ server \in BOOLEAN /\ early \in BOOLEAN
    /\ stopRequested \in BOOLEAN /\ finished \in BOOLEAN
    /\ stoppedEvent \in {0, image} /\ signalling \in 0..image
    /\ open \subseteq 1..image /\ signalled \subseteq 1..image
    /\ caller \in [Caller -> CallerPC]
    /\ waiting \in [Caller -> 0..image]

\* Where the thread is fixes what it holds.
ThreadHolds ==
    /\ thread # "none" => image > 0
    /\ pinned <=> thread \notin {"none", "delay"}
    /\ session => thread \in {"record", "serverStart", "loop", "serverStop", "hostStop"}
    /\ server => thread \in {"loop", "serverStop"}
    /\ thread = "delay" => \E c \in Caller : caller[c] # "out"

\* g_finished is set by the last steps only, a caller leaves its loop only
\* after that, and a request made early is there when the thread looks.
FlagsAgree ==
    /\ finished => thread \in {"none", "handle", "set", "exit"}
    /\ \A c \in Caller : caller[c] \in {"close", "stopped"} => finished
    /\ early => stopRequested /\ thread \in {"delay", "run", "check", "none", "signal",
                                             "handle", "set", "exit"}

\* The event of this image: open only while it is published, signalled only
\* once the bridge has finished, and by the time the thread exits if still open.
EventAgrees ==
    /\ image \in open => stoppedEvent = image
    /\ image \in signalled => finished
    /\ thread \in {"delay", "run"} => image \notin open /\ stoppedEvent = 0
    /\ thread = "set" => signalling = image
    /\ thread \in {"handle", "set"} => finished
    /\ thread \in {"exit", "none"} /\ image \in open => image \in signalled
    /\ \A c \in Caller : caller[c] = "wait" => waiting[c] = image

\* What the thread holds, the flags and the event of this image agree with
\* where the bridge thread and the callers are: the inductive invariant.
BInv == TypeOK /\ ThreadHolds /\ FlagsAgree /\ EventAgrees

\* A host that was told TRUE and releases the DLL never takes the code away
\* under the bridge thread: whenever the thread is alive somebody, in the end
\* the thread itself, holds a reference.
CodeMapped == thread # "none" => Mapped

\* When MyLispBridgeShutdown has returned TRUE the socket worker is joined and
\* the session freed, and the bridge thread does nothing but signal and exit.
TrueMeansStopped ==
    \A c \in Caller : caller[c] \in {"close", "stopped"} =>
        ~session /\ ~server /\ thread \in {"none", "handle", "set", "exit"}

\* A stop requested before the delayed thread looks is not lost: that image
\* never creates a session.
EarlyStopNoSession == early => ~session

\* The session is freed only when no server is left to use it.
ServerBeforeSession == [][session /\ ~session' => ~server /\ ~server']_vars

\* No lost wake-up: when the bridge thread is gone, a caller whose event is
\* still open (no other caller has closed it) finds it signalled, although the
\* thread publishes, loads and sets the event with no lock against the caller.
NoLostWakeup ==
    \A c \in Caller :
        caller[c] = "wait" /\ thread = "none" /\ waiting[c] \in open => waiting[c] \in signalled

\* A stop requested of a bridge thread that holds its pin ends with g_finished
\* set, whichever of the starting steps fails on the way.
StopFinishes ==
    (stopRequested /\ thread \notin {"none", "delay"}) ~> finished

\* A host that is the only one to hold the DLL, and asks for no stop, gets a
\* running server (LoadTest.cpp loads the DLL again after an early shutdown
\* and connects: "canonical REPL did not appear" is its failure).
OnlyLoaded(c) == caller[c] = "in" /\ \A d \in Caller \ {c} : caller[d] = "out"
LoadedIsServed ==
    \A c \in Caller : OnlyLoaded(c) ~> (server \/ ~OnlyLoaded(c))
=============================================================================
