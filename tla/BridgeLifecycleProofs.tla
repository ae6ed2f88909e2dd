------------------------ MODULE BridgeLifecycleProofs ------------------------
(***************************************************************************)
(* BInv is inductive; with it, what a host may rely on once                *)
(* MyLispBridgeShutdown has returned TRUE, for any number of hosts, any    *)
(* set of failing calls and any number of loads.                           *)
(***************************************************************************)
EXTENDS BridgeLifecycle, TLAPS

LEMMA InitHolds == Init => BInv
  <1> SUFFICES ASSUME Init PROVE BInv
    OBVIOUS
  <1>1. TypeOK
    <2>1. image \in 0..MaxImages /\ 0 \in 0..image /\ image = 0
      BY BridgeAssumption DEF Init
    <2>2. caller \in [Caller -> CallerPC] /\ waiting \in [Caller -> 0..image] /\ thread \in ThreadPC
      BY <2>1 DEF Init, CallerPC, ThreadPC
    <2>3. /\ pinned \in BOOLEAN /\ session \in BOOLEAN /\ server \in BOOLEAN /\ early \in BOOLEAN
          /\ stopRequested \in BOOLEAN /\ finished \in BOOLEAN
      BY DEF Init
    <2>4. /\ stoppedEvent \in {0, image} /\ signalling \in 0..image
          /\ open \subseteq 1..image /\ signalled \subseteq 1..image
      BY <2>1 DEF Init
    <2> QED
      BY <2>1, <2>2, <2>3, <2>4 DEF TypeOK
  <1>2. ThreadHolds
    BY DEF Init, ThreadHolds
  <1>3. FlagsAgree
    BY DEF Init, FlagsAgree
  <1>4. EventAgrees
    BY DEF Init, EventAgrees
  <1> QED
    BY <1>1, <1>2, <1>3, <1>4 DEF BInv

LEMMA CallerKeeps == ASSUME BInv, NEW c \in Caller, CallerStep(c) PROVE BInv'
  <1> USE DEF BInv, flags, events, bridgeVars, callerVars, Move
  <1>0. TypeOK /\ ThreadHolds /\ FlagsAgree /\ EventAgrees
    OBVIOUS
  <1>1. CASE Attach(c)
    <2>1. /\ thread' \in {"delay", "none"} /\ ~pinned /\ pinned' = pinned
          /\ \A d \in Caller : caller[d] = "out"
          /\ image' = image + 1 /\ image \in 0..MaxImages /\ image' \in 0..MaxImages
      BY <1>0, <1>1, BridgeAssumption DEF Attach, Mapped, TypeOK
    <2>2. TypeOK'
      <3>1. 1..image \subseteq 1..image' /\ 0..image \subseteq 0..image' /\ 0 \in 0..image'
        BY <2>1, BridgeAssumption
      <3>2. caller' \in [Caller -> CallerPC] /\ thread' \in ThreadPC
        BY <1>0, <1>1, <2>1 DEF Attach, TypeOK, ThreadPC, CallerPC
      <3>3. waiting' \in [Caller -> 0..image'] /\ signalling' \in 0..image'
        BY <1>0, <1>1, <3>1 DEF Attach, TypeOK
      <3>4. open' \subseteq 1..image' /\ signalled' \subseteq 1..image' /\ stoppedEvent' \in {0, image'}
        BY <1>0, <1>1, <3>1 DEF Attach, TypeOK
      <3>5. /\ pinned' \in BOOLEAN /\ session' \in BOOLEAN /\ server' \in BOOLEAN
            /\ early' \in BOOLEAN /\ stopRequested' \in BOOLEAN /\ finished' \in BOOLEAN
        BY <1>0, <1>1 DEF Attach, TypeOK
      <3> QED
        BY <2>1, <3>2, <3>3, <3>4, <3>5 DEF TypeOK
    <2>3. thread \in {"none", "delay"} /\ ~session /\ ~server
      BY <1>0, <2>1 DEF ThreadHolds
    <2>4. caller'[c] = "in"
      BY <1>0, <1>1 DEF Attach, TypeOK
    <2>5. ThreadHolds'
      BY <1>1, <2>1, <2>3, <2>4, BridgeAssumption DEF Attach, ThreadHolds
    <2>6. \A d \in Caller : caller'[d] \in {"in", "out"}
      BY <1>0, <1>1, <2>1 DEF Attach, TypeOK
    <2>7. FlagsAgree'
      BY <1>1, <2>1, <2>6 DEF Attach, FlagsAgree
    <2>8. image' \notin open /\ image' \notin signalled
      BY <1>0, <2>1 DEF TypeOK
    <2>9. EventAgrees'
      BY <1>1, <2>1, <2>6, <2>8 DEF Attach, EventAgrees
    <2> QED
      BY <2>2, <2>5, <2>7, <2>9
  <1>2. CASE LoadAgain(c)
    BY <1>0, <1>2 DEF LoadAgain, TypeOK, ThreadHolds, FlagsAgree, EventAgrees, ThreadPC, CallerPC
  <1>3. CASE ShutdownRequest(c)
    BY <1>0, <1>3 DEF ShutdownRequest, TypeOK, ThreadHolds, FlagsAgree, EventAgrees, ThreadPC, CallerPC
  <1>4. CASE ShutdownPoll(c)
    BY <1>0, <1>4 DEF ShutdownPoll, TypeOK, ThreadHolds, FlagsAgree, EventAgrees, ThreadPC, CallerPC
  <1>5. CASE ShutdownLoad(c)
    BY <1>0, <1>5 DEF ShutdownLoad, TypeOK, ThreadHolds, FlagsAgree, EventAgrees, ThreadPC, CallerPC
  <1>6. CASE ShutdownTimeout(c)
    BY <1>0, <1>6 DEF ShutdownTimeout, TypeOK, ThreadHolds, FlagsAgree, EventAgrees, ThreadPC, CallerPC
  <1>7. CASE ShutdownWait(c)
    BY <1>0, <1>7 DEF ShutdownWait, TypeOK, ThreadHolds, FlagsAgree, EventAgrees, ThreadPC, CallerPC
  <1>8. CASE ShutdownClose(c)
    BY <1>0, <1>8 DEF ShutdownClose, TypeOK, ThreadHolds, FlagsAgree, EventAgrees, ThreadPC, CallerPC
  <1>9. CASE Release(c)
    BY <1>0, <1>9 DEF Release, TypeOK, ThreadHolds, FlagsAgree, EventAgrees, ThreadPC, CallerPC
  <1> QED
    BY <1>1, <1>2, <1>3, <1>4, <1>5, <1>6, <1>7, <1>8, <1>9 DEF CallerStep

LEMMA BridgeKeeps == ASSUME BInv, Bridge PROVE BInv'
  <1> USE DEF BInv, flags, events, callerVars, Goto
  <1>0. TypeOK /\ ThreadHolds /\ FlagsAgree /\ EventAgrees
    OBVIOUS
  <1>1. CASE Pin
    <2>1. TypeOK'
      BY <1>0, <1>1 DEF Pin, TypeOK, ThreadPC
    <2>2. ThreadHolds'
      BY <1>0, <1>1 DEF Pin, ThreadHolds, TypeOK
    <2>3. FlagsAgree'
      BY <1>0, <1>1 DEF Pin, FlagsAgree, TypeOK
    <2>4. EventAgrees'
      BY <1>0, <1>1 DEF Pin, EventAgrees, FlagsAgree, TypeOK
    <2> QED
      BY <2>1, <2>2, <2>3, <2>4
  <1>2. CASE CreateStoppedEvent
    <2>1. TypeOK'
      <3>1. image \in 1..image
        BY <1>0, <1>2, BridgeAssumption DEF CreateStoppedEvent, ThreadHolds, TypeOK
      <3>2. open' \subseteq 1..image /\ stoppedEvent' \in {0, image} /\ finished' \in BOOLEAN
        BY <1>0, <1>2, <3>1 DEF CreateStoppedEvent, TypeOK
      <3> QED
        BY <1>0, <1>2, <3>2 DEF CreateStoppedEvent, TypeOK, ThreadPC
    <2>2. ThreadHolds'
      BY <1>0, <1>2 DEF CreateStoppedEvent, ThreadHolds, TypeOK
    <2>3. FlagsAgree'
      BY <1>0, <1>2 DEF CreateStoppedEvent, FlagsAgree, TypeOK
    <2>4. EventAgrees'
      BY <1>0, <1>2 DEF CreateStoppedEvent, EventAgrees, FlagsAgree, TypeOK
    <2> QED
      BY <2>1, <2>2, <2>3, <2>4
  <1>3. CASE CheckStop
    <2>1. TypeOK'
      BY <1>0, <1>3 DEF CheckStop, TypeOK, ThreadPC
    <2>2. ThreadHolds'
      BY <1>0, <1>3 DEF CheckStop, ThreadHolds, TypeOK
    <2>3. FlagsAgree'
      BY <1>0, <1>3 DEF CheckStop, FlagsAgree, TypeOK
    <2>4. EventAgrees'
      BY <1>0, <1>3 DEF CheckStop, EventAgrees, FlagsAgree, TypeOK
    <2> QED
      BY <2>1, <2>2, <2>3, <2>4
  <1>4. CASE HostStart
    <2>1. TypeOK'
      BY <1>0, <1>4 DEF HostStart, TypeOK, ThreadPC
    <2>2. ThreadHolds'
      BY <1>0, <1>4 DEF HostStart, ThreadHolds, TypeOK
    <2>3. FlagsAgree'
      BY <1>0, <1>4 DEF HostStart, FlagsAgree, TypeOK
    <2>4. EventAgrees'
      BY <1>0, <1>4 DEF HostStart, EventAgrees, FlagsAgree, TypeOK
    <2> QED
      BY <2>1, <2>2, <2>3, <2>4
  <1>5. CASE Record
    <2>1. TypeOK'
      BY <1>0, <1>5 DEF Record, TypeOK, ThreadPC
    <2>2. ThreadHolds'
      BY <1>0, <1>5 DEF Record, ThreadHolds, TypeOK
    <2>3. FlagsAgree'
      BY <1>0, <1>5 DEF Record, FlagsAgree, TypeOK
    <2>4. EventAgrees'
      BY <1>0, <1>5 DEF Record, EventAgrees, FlagsAgree, TypeOK
    <2> QED
      BY <2>1, <2>2, <2>3, <2>4
  <1>6. CASE ServerStart
    <2>1. TypeOK'
      BY <1>0, <1>6 DEF ServerStart, TypeOK, ThreadPC
    <2>2. ThreadHolds'
      BY <1>0, <1>6 DEF ServerStart, ThreadHolds, TypeOK
    <2>3. FlagsAgree'
      BY <1>0, <1>6 DEF ServerStart, FlagsAgree, TypeOK
    <2>4. EventAgrees'
      BY <1>0, <1>6 DEF ServerStart, EventAgrees, FlagsAgree, TypeOK
    <2> QED
      BY <2>1, <2>2, <2>3, <2>4
  <1>7. CASE LoopEnd
    <2>1. TypeOK'
      BY <1>0, <1>7 DEF LoopEnd, TypeOK, ThreadPC
    <2>2. ThreadHolds'
      BY <1>0, <1>7 DEF LoopEnd, ThreadHolds, TypeOK
    <2>3. FlagsAgree'
      BY <1>0, <1>7 DEF LoopEnd, FlagsAgree, TypeOK
    <2>4. EventAgrees'
      BY <1>0, <1>7 DEF LoopEnd, EventAgrees, FlagsAgree, TypeOK
    <2> QED
      BY <2>1, <2>2, <2>3, <2>4
  <1>8. CASE ServerStop
    <2>1. TypeOK'
      BY <1>0, <1>8 DEF ServerStop, TypeOK, ThreadPC
    <2>2. ThreadHolds'
      BY <1>0, <1>8 DEF ServerStop, ThreadHolds, TypeOK
    <2>3. FlagsAgree'
      BY <1>0, <1>8 DEF ServerStop, FlagsAgree, TypeOK
    <2>4. EventAgrees'
      BY <1>0, <1>8 DEF ServerStop, EventAgrees, FlagsAgree, TypeOK
    <2> QED
      BY <2>1, <2>2, <2>3, <2>4
  <1>9. CASE HostStop
    <2>1. TypeOK'
      BY <1>0, <1>9 DEF HostStop, TypeOK, ThreadPC
    <2>2. ThreadHolds'
      BY <1>0, <1>9 DEF HostStop, ThreadHolds, TypeOK
    <2>3. FlagsAgree'
      BY <1>0, <1>9 DEF HostStop, FlagsAgree, TypeOK
    <2>4. EventAgrees'
      BY <1>0, <1>9 DEF HostStop, EventAgrees, FlagsAgree, TypeOK
    <2> QED
      BY <2>1, <2>2, <2>3, <2>4
  <1>10. CASE SignalFlag
    <2>1. TypeOK'
      BY <1>0, <1>10 DEF SignalFlag, TypeOK, ThreadPC
    <2>2. ThreadHolds'
      BY <1>0, <1>10 DEF SignalFlag, ThreadHolds, TypeOK
    <2>3. FlagsAgree'
      BY <1>0, <1>10 DEF SignalFlag, FlagsAgree, TypeOK
    <2>4. EventAgrees'
      BY <1>0, <1>10 DEF SignalFlag, EventAgrees, FlagsAgree, TypeOK
    <2> QED
      BY <2>1, <2>2, <2>3, <2>4
  <1>11. CASE SignalLoad
    <2>1. TypeOK'
      BY <1>0, <1>11 DEF SignalLoad, TypeOK, ThreadPC
    <2>2. ThreadHolds'
      BY <1>0, <1>11 DEF SignalLoad, ThreadHolds, TypeOK
    <2>3. FlagsAgree'
      BY <1>0, <1>11 DEF SignalLoad, FlagsAgree, TypeOK
    <2>4. EventAgrees'
      BY <1>0, <1>11 DEF SignalLoad, EventAgrees, FlagsAgree, TypeOK
    <2> QED
      BY <2>1, <2>2, <2>3, <2>4
  <1>12. CASE SignalSet
    <2>1. TypeOK'
      BY <1>0, <1>12 DEF SignalSet, TypeOK, ThreadPC
    <2>2. ThreadHolds'
      BY <1>0, <1>12 DEF SignalSet, ThreadHolds, TypeOK
    <2>3. FlagsAgree'
      BY <1>0, <1>12 DEF SignalSet, FlagsAgree, TypeOK
    <2>4. EventAgrees'
      BY <1>0, <1>12 DEF SignalSet, EventAgrees, FlagsAgree, TypeOK
    <2> QED
      BY <2>1, <2>2, <2>3, <2>4
  <1>13. CASE ExitThread
    <2>1. TypeOK'
      <3>1. 0 \in 0..image
        BY <1>0, BridgeAssumption DEF TypeOK
      <3> QED
        BY <1>0, <1>13, <3>1 DEF ExitThread, TypeOK, ThreadPC
    <2>2. ThreadHolds'
      BY <1>0, <1>13 DEF ExitThread, ThreadHolds, TypeOK
    <2>3. FlagsAgree'
      BY <1>0, <1>13 DEF ExitThread, FlagsAgree, TypeOK
    <2>4. EventAgrees'
      BY <1>0, <1>13 DEF ExitThread, EventAgrees, FlagsAgree, TypeOK
    <2> QED
      BY <2>1, <2>2, <2>3, <2>4
  <1> QED
    BY <1>1, <1>2, <1>3, <1>4, <1>5, <1>6, <1>7, <1>8, <1>9, <1>10, <1>11, <1>12, <1>13 DEF Bridge

LEMMA StutterKeeps == ASSUME BInv, UNCHANGED vars PROVE BInv'
  BY DEF BInv, vars, flags, events, bridgeVars, callerVars, TypeOK, ThreadHolds, FlagsAgree, EventAgrees

-----------------------------------------------------------------------------
\* Every reachable state of the bridge and its hosts satisfies the invariant.
THEOREM BridgeInvariant == Spec => []BInv
  <1>1. Init => BInv
    BY InitHolds
  <1>2. BInv /\ [Next]_vars => BInv'
    BY CallerKeeps, BridgeKeeps, StutterKeeps DEF Next
  <1> QED
    BY <1>1, <1>2, PTL DEF Spec

\* A host that releases the DLL after TRUE never unmaps code that
\* BridgeThread is still running: FreeLibraryAndExitThread is enough.
THEOREM NeverUnmapped == Spec => []CodeMapped
  <1>1. BInv => CodeMapped
    BY DEF BInv, ThreadHolds, CodeMapped, Mapped
  <1> QED
    BY <1>1, BridgeInvariant, PTL

\* TRUE from MyLispBridgeShutdown means the worker is joined and the session
\* freed, however many hosts shut the bridge down at once.
THEOREM ShutdownIsFinal == Spec => []TrueMeansStopped
  <1>1. BInv => TrueMeansStopped
    BY DEF BInv, ThreadHolds, FlagsAgree, TrueMeansStopped
  <1> QED
    BY <1>1, BridgeInvariant, PTL

\* A stop requested during the start-up delay is never erased: that image
\* creates no session.
THEOREM EarlyStopKept == Spec => []EarlyStopNoSession
  <1>1. BInv => EarlyStopNoSession
    BY DEF BInv, ThreadHolds, FlagsAgree, EarlyStopNoSession
  <1> QED
    BY <1>1, BridgeInvariant, PTL

\* No caller of MyLispBridgeShutdown is left waiting on an open event that
\* the exited thread has not set.
THEOREM WakeupKept == Spec => []NoLostWakeup
  <1>1. BInv => NoLostWakeup
    BY DEF BInv, EventAgrees, NoLostWakeup
  <1> QED
    BY <1>1, BridgeInvariant, PTL

\* Whatever path the thread takes down, the session is freed only after the
\* server that uses it has stopped.
THEOREM ServerStopsFirst == Spec => ServerBeforeSession
  <1>1. BInv /\ [Next]_vars => [session /\ ~session' => ~server /\ ~server']_vars
    <2> SUFFICES ASSUME BInv, Next, session, ~session' PROVE ~server /\ ~server'
      OBVIOUS
    <2>1. HostStop
      BY DEF Next, Bridge, CallerStep, Attach, LoadAgain, ShutdownRequest, ShutdownPoll, ShutdownLoad,
             ShutdownTimeout, ShutdownWait, ShutdownClose, Release, Pin, CreateStoppedEvent, CheckStop,
             HostStart, Record, ServerStart, LoopEnd, ServerStop, SignalFlag, SignalLoad, SignalSet,
             ExitThread, bridgeVars
    <2> QED
      BY <2>1 DEF HostStop, BInv, ThreadHolds
  <1> QED
    BY <1>1, BridgeInvariant, PTL DEF Spec, ServerBeforeSession

=============================================================================
