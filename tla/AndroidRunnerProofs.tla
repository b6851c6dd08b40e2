------------------------ MODULE AndroidRunnerProofs ------------------------
(***************************************************************************)
(* Proofs about AndroidRunner, for any finite or infinite set of workers,  *)
(* any ports, any bound on clients and any behaviour of shutdown().        *)
(*                                                                         *)
(* The safety properties speak of single moments (the JS thread idle, the  *)
(* interrupt in progress).  LifecycleInv says what connects them: which    *)
(* steps of the JS thread exclude a live worker, who may hold the handle,  *)
(* the test and the callback, and what g_isRunning means in between.       *)
(***************************************************************************)
EXTENDS AndroidRunner, RunServerProofs, TLAPS

\* Steps of the JS thread at which no worker is alive: the thread was joined,
\* or none was ever there to join.
Alone ==
    \/ js \in {"fastclear", "invalid", "dropcb", "return",
               "install", "run", "create", "unrun", "uninstall"}
    \/ js = "test" /\ ~snap
    \/ js = "idle" /\ op = "stop"

OnlyHandleLives ==
    \A w \in Workers :
        Live(w) => /\ w = g_thread
                   /\ g_threadValid \/ js = "valid"
                   /\ ~Alone
                   /\ g_callbackObject \in {None, w}

HandleInv ==
    /\ g_threadValid /\ js # "invalid" => g_thread # None /\ worker[g_thread] # "none"
    /\ js \in {"valid", "join"} => g_thread # None /\ worker[g_thread] # "none"
    /\ js \in {"fastclear", "dropcb", "return", "install", "run", "create", "unrun", "uninstall"}
           => ~g_threadValid
    /\ js = "test" /\ ~snap => ~g_threadValid
    /\ js = "idle" /\ op = "stop" => ~g_threadValid

TestInv ==
    /\ g_test # None => HasTest(g_test) /\ g_server_port = port[g_test]
    /\ \A w \in Workers : HasTest(w) => g_test = w
    /\ stateMutexHeld => local_test = g_test /\ g_test # None

RunningInv ==
    /\ js \in {"mark", "shutdown", "nudge", "snap2", "join", "invalid", "dropcb", "fastclear",
               "return", "install", "run", "uninstall"} => ~g_isRunning
    /\ js = "idle" /\ op = "stop" => ~g_isRunning
    /\ js \in {"create", "unrun"} => g_isRunning
    /\ js \in {"idle", "snap", "test", "unset", "valid"} =>
           \A w \in Workers : Serving(w) \/ worker[w] = "unset" => g_isRunning
    /\ g_isRunning /\ js \notin {"create", "unrun"} =>
           \E w \in Workers : Serving(w) \/ worker[w] = "unset"

CallbackInv ==
    /\ js \in {"run", "create", "unrun", "uninstall"} => g_callbackObject # None
    /\ js \in {"return", "install"} => g_callbackObject = None
    /\ js = "idle" /\ op = "stop" => g_callbackObject = None
    /\ js \in {"install", "run", "create", "unrun", "uninstall", "valid"} => op = "start"
    /\ \A w \in Workers :
           /\ inflight[w] \in {None, w}
           /\ inflight[w] # None => worker[w] \in {"serve", "unset", "newfaillog"}

LifecycleInv ==
    TypeOK /\ OnlyHandleLives /\ HandleInv /\ TestInv /\ RunningInv /\ CallbackInv

----------------------------------------------------------------------------
(* Types                                                                   *)

\* Every step of the system leaves the servers alone or operates on one.
LEMMA ServerTypesStep ==
    ASSUME LifecycleInv, [Next]_vars
    PROVE  ServerTypeOK'
<1>1. (\E w \in Workers : ServerOperation(w)) \/ UNCHANGED serverVars
  <2> USE NoneAssumption DEF ServerOperation
  <2>1. CASE InterruptMark BY <2>1 DEF InterruptMark, LifecycleInv, TypeOK, TestInv, stateMutexHeld, GoJs
  <2>2. CASE InterruptShutdown BY <2>2 DEF InterruptShutdown, LifecycleInv, TypeOK, TestInv, stateMutexHeld, GoJs
  <2>3. CASE InterruptNudge BY <2>3 DEF InterruptNudge, LifecycleInv, TypeOK, TestInv, stateMutexHeld, GoJs
  <2>4. ASSUME NEW w \in Workers,
              SetDefaults(w) \/ LoopAgain(w) \/ ServeStep(w) \/ ServeReturns(w)
                \/ AfterServe(w) \/ FreeTest(w) \/ ClientStep(w)
       PROVE  ServerOperation(w) \/ UNCHANGED serverVars
    BY <2>4 DEF SetDefaults, LoopAgain, ServeStep, ServeReturns, AfterServe, FreeTest, ClientStep
  <2> QED BY <2>1, <2>2, <2>3, <2>4, Zenon
     DEF Next, JsStop, JsStart, WorkerStep, vars, StartCalled, StopCalled,
         SnapshotThreadValid, TestRunning, ClearCallback, UnsetRunning, SnapshotAgain, Join,
         InvalidateThread, LeaveStopAndJoin, InstallCallback, SetRunning, CreateThread,
         CreateThreadFails, CreateFailedUnset, CreateFailedClear, MarkThreadValid,
         NewTestSucceeds, NewTestFails, PublishTest, LogAcquire, Deliver,
         NewTestFailedUnset, NewTestFailedClear, WorkerUnset, JsonAcquire
<1> QED BY <1>1, ServerTypes, ServerTypesUnchanged DEF LifecycleInv, TypeOK

THEOREM LifecycleStep ==
    LifecycleInv /\ [Next]_vars => LifecycleInv'
<1> SUFFICES ASSUME LifecycleInv, [Next]_vars
             PROVE  LifecycleInv'
  OBVIOUS
<1>0. ServerTypeOK' BY ServerTypesStep
<1> USE <1>0, NoneAssumption, PortsAssumption
    DEF LifecycleInv, TypeOK, JsSteps, WorkerSteps, OnlyHandleLives, HandleInv, TestInv, RunningInv,
        CallbackInv, Alone, Live, Serving, HasTest, stateMutexHeld, GoJs, GoWorker, jsVars, globals,
        workerVars, CallbackNow
<1>1. CASE StartCalled BY <1>1 DEF StartCalled
<1>2. CASE StopCalled BY <1>2 DEF StopCalled
<1>3. CASE SnapshotThreadValid BY <1>3 DEF SnapshotThreadValid
<1>4. CASE TestRunning BY <1>4 DEF TestRunning
<1>5. CASE ClearCallback BY <1>5 DEF ClearCallback
<1>6. CASE UnsetRunning
  <2>1. TypeOK'
    <3>1. g_isRunning' \in BOOLEAN BY <1>6 DEF UnsetRunning
    <3>2. js' \in JsSteps BY <1>6 DEF UnsetRunning
    <3>3. UNCHANGED <<op, snap, local_test, announced, port, g_test, g_threadValid,
                      g_server_port, g_thread, g_callbackObject, workerVars, serverVars>>
      BY <1>6 DEF UnsetRunning
    <3> QED BY <3>1, <3>2, <3>3
  <2>2. OnlyHandleLives' BY <1>6 DEF UnsetRunning
  <2>3. HandleInv' BY <1>6 DEF UnsetRunning
  <2>4. TestInv' BY <1>6 DEF UnsetRunning
  <2>5. RunningInv' BY <1>6 DEF UnsetRunning
  <2>6. CallbackInv' BY <1>6 DEF UnsetRunning
  <2> QED BY <2>1, <2>2, <2>3, <2>4, <2>5, <2>6
<1>7. CASE InterruptMark BY <1>7 DEF InterruptMark
<1>8. CASE InterruptShutdown BY <1>8 DEF InterruptShutdown
<1>9. CASE InterruptNudge BY <1>9 DEF InterruptNudge
<1>10. CASE SnapshotAgain BY <1>10 DEF SnapshotAgain
<1>11. CASE Join BY <1>11 DEF Join
<1>12. CASE InvalidateThread
  <2>1. TypeOK' BY <1>12 DEF InvalidateThread
  <2>2. OnlyHandleLives' BY <1>12 DEF InvalidateThread
  <2>3. HandleInv' BY <1>12 DEF InvalidateThread
  <2>4. TestInv' BY <1>12 DEF InvalidateThread
  <2>5. RunningInv' BY <1>12 DEF InvalidateThread
  <2>6. CallbackInv' BY <1>12 DEF InvalidateThread
  <2> QED BY <2>1, <2>2, <2>3, <2>4, <2>5, <2>6
<1>13. CASE LeaveStopAndJoin BY <1>13 DEF LeaveStopAndJoin
<1>14. ASSUME NEW w \in Workers, InstallCallback(w) PROVE LifecycleInv' BY <1>14 DEF InstallCallback
<1>15. CASE SetRunning BY <1>15 DEF SetRunning
<1>16. CASE CreateThread BY <1>16 DEF CreateThread
<1>17. CASE CreateThreadFails BY <1>17 DEF CreateThreadFails
<1>18. CASE CreateFailedUnset
  <2>1. TypeOK'
    <3>1. g_isRunning' \in BOOLEAN BY <1>18 DEF CreateFailedUnset
    <3>2. js' \in JsSteps BY <1>18 DEF CreateFailedUnset
    <3>3. UNCHANGED <<op, snap, local_test, announced, port, g_test, g_threadValid,
                      g_server_port, g_thread, g_callbackObject, workerVars, serverVars>>
      BY <1>18 DEF CreateFailedUnset
    <3> QED BY <3>1, <3>2, <3>3
  <2>2. OnlyHandleLives' BY <1>18 DEF CreateFailedUnset
  <2>3. HandleInv' BY <1>18 DEF CreateFailedUnset
  <2>4. TestInv' BY <1>18 DEF CreateFailedUnset
  <2>5. RunningInv' BY <1>18 DEF CreateFailedUnset
  <2>6. CallbackInv' BY <1>18 DEF CreateFailedUnset
  <2> QED BY <2>1, <2>2, <2>3, <2>4, <2>5, <2>6
<1>19. CASE CreateFailedClear BY <1>19 DEF CreateFailedClear
<1>20. CASE MarkThreadValid BY <1>20 DEF MarkThreadValid
<1>21. ASSUME NEW w \in Workers, NewTestSucceeds(w) PROVE LifecycleInv' BY <1>21 DEF NewTestSucceeds
<1>22. ASSUME NEW w \in Workers, NewTestFails(w) PROVE LifecycleInv' BY <1>22 DEF NewTestFails
<1>23. ASSUME NEW w \in Workers, PublishTest(w) PROVE LifecycleInv' BY <1>23 DEF PublishTest
<1>24. ASSUME NEW w \in Workers, SetDefaults(w) PROVE LifecycleInv' BY <1>24 DEF SetDefaults
<1>25. ASSUME NEW w \in Workers, LoopAgain(w) PROVE LifecycleInv' BY <1>25 DEF LoopAgain
<1>26. ASSUME NEW w \in Workers, ServeStep(w) PROVE LifecycleInv' BY <1>26 DEF ServeStep
<1>27. ASSUME NEW w \in Workers, ServeReturns(w) PROVE LifecycleInv' BY <1>27 DEF ServeReturns
<1>28. ASSUME NEW w \in Workers, AfterServe(w) PROVE LifecycleInv' BY <1>28 DEF AfterServe
<1>29. ASSUME NEW w \in Workers, LogAcquire(w) PROVE LifecycleInv' BY <1>29 DEF LogAcquire
<1>30. ASSUME NEW w \in Workers, Deliver(w) PROVE LifecycleInv' BY <1>30 DEF Deliver
<1>31. ASSUME NEW w \in Workers, NewTestFailedUnset(w) PROVE LifecycleInv'
  <2>1. TypeOK'
    <3>1. g_isRunning' \in BOOLEAN /\ (g_test \in Workers \cup {None})' BY <1>31 DEF NewTestFailedUnset
    <3>2. worker' \in [Workers -> WorkerSteps] BY <1>31 DEF NewTestFailedUnset
    <3> QED BY <1>31, <3>1, <3>2 DEF NewTestFailedUnset
  <2>2. OnlyHandleLives' BY <1>31 DEF NewTestFailedUnset
  <2>3. HandleInv' BY <1>31 DEF NewTestFailedUnset
  <2>4. TestInv' BY <1>31 DEF NewTestFailedUnset
  <2>5. RunningInv' BY <1>31 DEF NewTestFailedUnset
  <2>6. CallbackInv' BY <1>31 DEF NewTestFailedUnset
  <2> QED BY <2>1, <2>2, <2>3, <2>4, <2>5, <2>6
<1>32. ASSUME NEW w \in Workers, NewTestFailedClear(w) PROVE LifecycleInv'
  <2>1. TypeOK'
    <3>1. g_threadValid' \in BOOLEAN /\ (g_test \in Workers \cup {None})' BY <1>32 DEF NewTestFailedClear
    <3>2. worker' \in [Workers -> WorkerSteps] BY <1>32 DEF NewTestFailedClear
    <3> QED BY <1>32, <3>1, <3>2 DEF NewTestFailedClear
  <2>2. OnlyHandleLives' BY <1>32 DEF NewTestFailedClear
  <2>3. HandleInv' BY <1>32 DEF NewTestFailedClear
  <2>4. TestInv' BY <1>32 DEF NewTestFailedClear
  <2>5. RunningInv' BY <1>32 DEF NewTestFailedClear
  <2>6. CallbackInv' BY <1>32 DEF NewTestFailedClear
  <2> QED BY <2>1, <2>2, <2>3, <2>4, <2>5, <2>6
<1>33. ASSUME NEW w \in Workers, WorkerUnset(w) PROVE LifecycleInv'
  <2>1. TypeOK'
    <3>1. g_isRunning' \in BOOLEAN /\ (g_test \in Workers \cup {None})' BY <1>33 DEF WorkerUnset
    <3>2. worker' \in [Workers -> WorkerSteps] BY <1>33 DEF WorkerUnset
    <3> QED BY <1>33, <3>1, <3>2 DEF WorkerUnset
  <2>2. OnlyHandleLives' BY <1>33 DEF WorkerUnset
  <2>3. HandleInv' BY <1>33 DEF WorkerUnset
  <2>4. TestInv' BY <1>33 DEF WorkerUnset
  <2>5. RunningInv' BY <1>33 DEF WorkerUnset
  <2>6. CallbackInv' BY <1>33 DEF WorkerUnset
  <2> QED BY <2>1, <2>2, <2>3, <2>4, <2>5, <2>6
<1>34. ASSUME NEW w \in Workers, FreeTest(w) PROVE LifecycleInv' BY <1>34 DEF FreeTest
<1>35. ASSUME NEW w \in Workers, JsonAcquire(w) PROVE LifecycleInv' BY <1>35 DEF JsonAcquire
<1>36. ASSUME NEW w \in Workers, ClientStep(w) PROVE LifecycleInv' BY <1>36 DEF ClientStep
<1>37. CASE UNCHANGED vars BY <1>37 DEF vars
<1> QED BY <1>1, <1>2, <1>3, <1>4, <1>5, <1>6, <1>7, <1>8, <1>9, <1>10, <1>11, <1>12, <1>13, <1>14, <1>15, <1>16, <1>17, <1>18, <1>19, <1>20, <1>21, <1>22, <1>23, <1>24, <1>25, <1>26, <1>27, <1>28, <1>29, <1>30, <1>31, <1>32, <1>33, <1>34, <1>35, <1>36, <1>37 DEF Next, JsStop, JsStart, WorkerStep

----------------------------------------------------------------------------
(* Theorems                                                                *)

THEOREM LifecycleInit == Init => LifecycleInv
<1> SUFFICES ASSUME Init PROVE LifecycleInv
  OBVIOUS
<1> USE NoneAssumption, PortsAssumption DEF Init, ServerInit
<1>1. ServerTypeOK
  BY ONLY Init DEF Init, ServerInit, ServerTypeOK, Places, States, Listeners, Connections
<1>2. TypeOK
  BY <1>1 DEF TypeOK, JsSteps, WorkerSteps
<1>3. OnlyHandleLives /\ TestInv BY DEF OnlyHandleLives, TestInv, Live, HasTest, stateMutexHeld
<1>4. HandleInv /\ RunningInv /\ CallbackInv BY DEF HandleInv, RunningInv, CallbackInv, Serving
<1> QED BY <1>2, <1>3, <1>4 DEF LifecycleInv

\* The strengthened invariant holds in every reachable state.
THEOREM LifecycleInvariant == Spec => []LifecycleInv
<1>1. Init => LifecycleInv BY LifecycleInit
<1>2. LifecycleInv /\ [Next]_vars => LifecycleInv' BY LifecycleStep
<1> QED BY <1>1, <1>2, PTL DEF Spec

\* Every variable of the bridge and of the servers keeps its type.
THEOREM TypeCorrect == Spec => []TypeOK
<1>1. LifecycleInv => TypeOK BY DEF LifecycleInv
<1> QED BY <1>1, LifecycleInvariant, PTL

\* start() never leaves two server threads alive: the one that lives is always
\* the one whose handle the next start() or stop() joins.
THEOREM OneServer == Spec => []OneServerAtATime
<1>1. LifecycleInv => OneServerAtATime
  BY DEF LifecycleInv, OnlyHandleLives, OneServerAtATime
<1> QED BY <1>1, LifecycleInvariant, PTL

\* safe_interrupt_iperf never works on a freed or foreign test, or on the port
\* of another server.
THEOREM InterruptSafe == Spec => []InterruptTarget
<1>1. LifecycleInv => InterruptTarget
  BY DEF LifecycleInv, TestInv, InterruptTarget
<1> QED BY <1>1, LifecycleInvariant, PTL

\* When stop() returns, no thread, test, callback or pending log line is left.
THEOREM StopLeavesNothing == Spec => []QuietAfterStop
<1>1. LifecycleInv => QuietAfterStop
  <2> SUFFICES ASSUME LifecycleInv, js = "idle", op = "stop"
               PROVE  /\ ~g_isRunning /\ ~g_threadValid
                      /\ g_test = None /\ g_callbackObject = None
                      /\ \A w \in Workers : ~Live(w) /\ inflight[w] = None
    BY DEF QuietAfterStop
  <2>1. \A w \in Workers : ~Live(w) BY DEF LifecycleInv, OnlyHandleLives, Alone
  <2>2. g_test = None BY <2>1 DEF LifecycleInv, TypeOK, TestInv, HasTest, Live
  <2>3. \A w \in Workers : inflight[w] = None BY <2>1 DEF LifecycleInv, CallbackInv, Live
  <2> QED BY <2>1, <2>2, <2>3 DEF LifecycleInv, HandleInv, RunningInv, CallbackInv
<1> QED BY <1>1, LifecycleInvariant, PTL

\* pthread_join is never called twice for a thread, nor for one never created.
THEOREM JoinIsDefined == Spec => []HandleIsJoinable
<1>1. LifecycleInv => HandleIsJoinable BY DEF LifecycleInv, HandleInv, HandleIsJoinable
<1> QED BY <1>1, LifecycleInvariant, PTL

\* Between two calls of the module, isRunning() is TRUE exactly while a server
\* thread has not decided to end.
THEOREM IsRunningIsTrue == Spec => []RunningMeansServer
<1>1. LifecycleInv => RunningMeansServer BY DEF LifecycleInv, RunningInv, RunningMeansServer
<1> QED BY <1>1, LifecycleInvariant, PTL

\* A log line is never delivered to the callback of another start().
THEOREM LogsGoToOwnListener == Spec => []OwnCallback
<1>1. LifecycleInv => OwnCallback BY DEF LifecycleInv, CallbackInv, OwnCallback
<1> QED BY <1>1, LifecycleInvariant, PTL

----------------------------------------------------------------------------
(* The bridge implements ServerControl.                                    *)

\* What an application can see of a step.
SameCall == CallNow' = CallNow
SameServers == LiveWorkers' = LiveWorkers
SameLines == UNCHANGED inflight
ControlVars == <<CallNow, LiveWorkers, g_isRunning, LinesInFlight>>

LEMMA LinesUnchanged == ASSUME SameLines PROVE LinesInFlight' = LinesInFlight
BY DEF SameLines, LinesInFlight

LEMMA ServersUnchanged ==
    ASSUME \A w \in Workers : Live(w)' <=> Live(w)
    PROVE  SameServers
<1>1. LiveWorkers' = {w \in Workers : Live(w)'} BY DEF LiveWorkers
<1> QED BY <1>1 DEF SameServers, LiveWorkers

\* A step that the application does not see is a stutter.
LEMMA Unseen ==
    ASSUME SameCall, SameServers, UNCHANGED g_isRunning, SameLines
    PROVE  [Control!Next]_ControlVars
BY LinesUnchanged DEF SameCall, SameServers, ControlVars

\* The steps of the JS thread inside a call, the ones that return from it, and
\* the one that makes the worker.
LEMMA JsImplements ==
    ASSUME LifecycleInv, StartCalled \/ StopCalled \/ JsStop \/ JsStart
    PROVE  [Control!Next]_ControlVars
<1> USE NoneAssumption
<1>1. ASSUME NEW o \in {"start", "stop"}, js = "idle", js' # "idle", op' = o,
             UNCHANGED g_isRunning, UNCHANGED workerVars
      PROVE  Control!Calls(o)
  BY <1>1, ServersUnchanged, LinesUnchanged
  DEF Control!Calls, CallNow, SameServers, SameLines, workerVars, Live
<1>2. ASSUME js # "idle", js' # "idle", UNCHANGED op, UNCHANGED workerVars
      PROVE  /\ SameCall /\ SameServers /\ LinesInFlight' = LinesInFlight
             /\ g_isRunning' = g_isRunning => [Control!Next]_ControlVars
  BY <1>2, ServersUnchanged, LinesUnchanged, Unseen DEF CallNow, SameCall, SameLines, workerVars, Live
<1>3. ASSUME js # "idle", js' = "idle", UNCHANGED g_isRunning, UNCHANGED workerVars,
             op = "stop" => \A w \in Workers : ~Live(w),
             g_isRunning = TRUE => op = "start" /\ \E w \in Workers : Live(w)
      PROVE  Control!Returns
  <2>1. op \in {"start", "stop"} BY DEF LifecycleInv, TypeOK
  <2>2. op = "stop" => LiveWorkers = {} /\ LinesInFlight = {}
    BY <1>3 DEF LifecycleInv, CallbackInv, LiveWorkers, LinesInFlight, Live
  <2>3. SameServers /\ SameLines BY <1>3, ServersUnchanged DEF workerVars, Live, SameLines
  <2>4. g_isRunning = TRUE => op = "start" /\ LiveWorkers # {} BY <1>3 DEF LiveWorkers
  <2> QED BY <1>3, <2>1, <2>2, <2>3, <2>4, LinesUnchanged
      DEF Control!Returns, Control!Gone, CallNow, SameServers
<1>4. CASE CreateThread
  <2> DEFINE w == g_callbackObject
  <2>1. w \in Workers /\ op = "start" /\ \A v \in Workers : ~Live(v)
    BY <1>4 DEF CreateThread, GoJs, LifecycleInv, TypeOK, OnlyHandleLives, Alone, CallbackInv
  <2>2. LiveWorkers = {} /\ LinesInFlight = {}
    BY <2>1 DEF LifecycleInv, CallbackInv, LiveWorkers, LinesInFlight, Live
  <2>3. \A v \in Workers : Live(v)' <=> v = w
    BY <1>4, <2>1 DEF CreateThread, Live, LifecycleInv, TypeOK
  <2>4. LiveWorkers' = {w}
    <3>1. LiveWorkers' = {v \in Workers : Live(v)'} BY DEF LiveWorkers
    <3> QED BY <3>1, <2>1, <2>3
  <2>5. CallNow = "start" /\ CallNow' = "start" /\ LinesInFlight' = LinesInFlight
    BY <1>4, <2>1, LinesUnchanged DEF CreateThread, GoJs, CallNow, SameLines
  <2>6. g_isRunning = TRUE /\ UNCHANGED g_isRunning
    BY <1>4 DEF CreateThread, GoJs, LifecycleInv, TypeOK, RunningInv
  <2>7. Control!Begins(w) BY <2>2, <2>4, <2>5, <2>6 DEF Control!Begins, Control!Gone
  <2> QED BY <2>1, <2>7 DEF Control!Next
<1>5. CASE Join
  <2>1. \A w \in Workers : Live(w)' <=> Live(w)
    BY <1>5 DEF Join, Live, LifecycleInv, TypeOK
  <2> QED BY <1>5, <2>1, ServersUnchanged, Unseen DEF Join, GoJs, CallNow, SameCall, SameLines, globals
<1>6. CASE StartCalled BY <1>6, <1>1 DEF StartCalled, GoJs, Control!Next, globals
<1>7. CASE StopCalled BY <1>7, <1>1 DEF StopCalled, GoJs, Control!Next, globals
<1>8. CASE LeaveStopAndJoin
  <2>1. op = "stop" => \A w \in Workers : ~Live(w)
    BY <1>8 DEF LeaveStopAndJoin, LifecycleInv, OnlyHandleLives, Alone
  <2>2. g_isRunning = FALSE
    BY <1>8 DEF LeaveStopAndJoin, LifecycleInv, TypeOK, RunningInv
  <2> QED BY <1>8, <2>1, <2>2, <1>2, <1>3 DEF LeaveStopAndJoin, Control!Next, globals
<1>9. CASE CreateFailedClear \/ MarkThreadValid
  <2>1. op = "start" BY <1>9 DEF CreateFailedClear, MarkThreadValid, GoJs, LifecycleInv, CallbackInv
  <2>2. g_isRunning = TRUE => \E w \in Workers : Live(w)
    BY <1>9 DEF CreateFailedClear, MarkThreadValid, GoJs, LifecycleInv, RunningInv, Serving, Live
  <2> QED BY <1>9, <2>1, <2>2, <1>3 DEF CreateFailedClear, MarkThreadValid, GoJs, Control!Next
<1>10. CASE UnsetRunning \/ CreateFailedUnset
  <2>1. js # "idle" /\ js' # "idle" /\ UNCHANGED op /\ UNCHANGED workerVars /\ g_isRunning' = FALSE
    BY <1>10 DEF UnsetRunning, CreateFailedUnset, GoJs
  <2>2. Control!Denies BY <2>1, <1>2 DEF Control!Denies, SameCall, SameServers
  <2> QED BY <2>2 DEF Control!Next
<1>11. CASE SetRunning
  <2>1. /\ js = "run" /\ js' = "create" /\ op = "start" /\ UNCHANGED op /\ UNCHANGED workerVars
        /\ g_isRunning' = TRUE /\ \A w \in Workers : ~Live(w)
    BY <1>11 DEF SetRunning, GoJs, LifecycleInv, CallbackInv, OnlyHandleLives, Alone
  <2>2. LiveWorkers = {} /\ LinesInFlight = {}
    BY <2>1 DEF LifecycleInv, CallbackInv, LiveWorkers, LinesInFlight, Live
  <2>3. CallNow = "start" BY <2>1 DEF CallNow
  <2>4. SameCall /\ SameServers /\ LinesInFlight' = LinesInFlight BY <2>1, <1>2
  <2>5. Control!Tells
    BY <2>1, <2>2, <2>3, <2>4 DEF Control!Tells, Control!Gone, SameCall, SameServers
  <2> QED BY <2>5 DEF Control!Next
<1>12. ASSUME ~CreateThread, ~Join, ~LeaveStopAndJoin, ~CreateFailedClear, ~MarkThreadValid,
              ~UnsetRunning, ~CreateFailedUnset, ~SetRunning, JsStop \/ JsStart
       PROVE  [Control!Next]_ControlVars
  <2>1. js # "idle" /\ js' # "idle" /\ UNCHANGED <<op, g_isRunning>> /\ UNCHANGED workerVars
    BY <1>12 DEF JsStop, JsStart, SnapshotThreadValid, TestRunning, ClearCallback, InterruptMark,
       InterruptShutdown, InterruptNudge, SnapshotAgain, InvalidateThread, InstallCallback,
       CreateThreadFails, GoJs, globals
  <2> QED BY <1>2, <2>1
<1> QED BY <1>4, <1>5, <1>6, <1>7, <1>8, <1>9, <1>10, <1>11, <1>12

\* The steps of a worker: it prints, delivers or ends, or is not seen.
LEMMA WorkerImplements ==
    ASSUME LifecycleInv, NEW w \in Workers, WorkerStep(w) \/ JsonAcquire(w)
    PROVE  [Control!Next]_ControlVars
<1> USE NoneAssumption
<1>0. worker \in [Workers -> WorkerSteps] /\ inflight \in [Workers -> Workers \cup {None}]
      /\ g_callbackObject \in Workers \cup {None}
  BY DEF LifecycleInv, TypeOK
<1>1. SameCall
  <2>1. UNCHANGED jsVars
    BY DEF WorkerStep, NewTestSucceeds, NewTestFails, PublishTest, SetDefaults, LoopAgain, ServeStep,
       ServeReturns, AfterServe, LogAcquire, Deliver, NewTestFailedUnset, NewTestFailedClear,
       WorkerUnset, FreeTest, JsonAcquire
  <2> QED BY <2>1 DEF jsVars, SameCall, CallNow
<1>2. CASE LogAcquire(w) \/ JsonAcquire(w)
  <2>1. Live(w) /\ \A v \in Workers : Live(v)' <=> Live(v)
    BY <1>0, <1>2 DEF LogAcquire, JsonAcquire, GoWorker, Live
  <2>2. /\ inflight' = [inflight EXCEPT ![w] = CallbackNow] /\ inflight[w] = None
        /\ UNCHANGED g_isRunning
    BY <1>2 DEF LogAcquire, JsonAcquire, globals
  <2>3. CallbackNow \in {None, w}
    BY <2>1 DEF CallbackNow, LifecycleInv, OnlyHandleLives
  <2>4. CASE CallbackNow = None
    <3>1. inflight' = inflight BY <1>0, <2>2, <2>4
    <3> QED BY <1>1, <2>1, <2>2, <3>1, ServersUnchanged, Unseen DEF SameLines
  <2>5. CASE CallbackNow = w
    <3>1. LinesInFlight' = LinesInFlight \cup {<<w, w>>}
      BY <1>0, <2>2, <2>5 DEF LinesInFlight
    <3>2. w \in LiveWorkers BY <2>1 DEF LiveWorkers
    <3>3. Control!Prints(w)
      BY <1>1, <2>1, <2>2, <3>1, <3>2, ServersUnchanged DEF Control!Prints, SameCall, SameServers
    <3> QED BY <3>3 DEF Control!Next
  <2> QED BY <2>3, <2>4, <2>5
<1>3. CASE Deliver(w)
  <2>1. LinesInFlight' = LinesInFlight \ {<<w, inflight[w]>>}
    BY <1>0, <1>3 DEF Deliver, LinesInFlight
  <2>2. <<w, inflight[w]>> \in LinesInFlight BY <1>3 DEF Deliver, LinesInFlight
  <2>3. SameServers /\ UNCHANGED g_isRunning BY <1>3, ServersUnchanged DEF Deliver, Live, globals
  <2>4. Control!Delivered BY <1>1, <2>1, <2>2, <2>3 DEF Control!Delivered, SameCall, SameServers
  <2> QED BY <2>4 DEF Control!Next
<1>4. CASE NewTestFailedClear(w) \/ FreeTest(w)
  <2>1. Live(w) /\ \A v \in Workers : Live(v)' <=> Live(v) /\ v # w
    BY <1>0, <1>4 DEF NewTestFailedClear, FreeTest, GoWorker, Live
  <2>2. LiveWorkers' = LiveWorkers \ {w}
    <3>1. LiveWorkers' = {v \in Workers : Live(v)'} BY DEF LiveWorkers
    <3> QED BY <2>1, <3>1 DEF LiveWorkers
  <2>3. LinesInFlight' = LinesInFlight
    BY <1>4, LinesUnchanged DEF NewTestFailedClear, FreeTest, SameLines
  <2>4. g_isRunning' = FALSE
    <3>1. \A v \in Workers : Serving(v) \/ worker[v] = "unset" => v = w
      BY <2>1 DEF Serving, Live, LifecycleInv, OnlyHandleLives
    <3>2. g_isRunning \in BOOLEAN /\ UNCHANGED g_isRunning /\ js \notin {"create", "unrun"}
      BY <1>4, <2>1 DEF NewTestFailedClear, FreeTest, LifecycleInv, TypeOK, OnlyHandleLives, Alone
    <3>3. ~(Serving(w) \/ worker[w] = "unset")
      BY <1>4 DEF NewTestFailedClear, FreeTest, GoWorker, Serving
    <3> QED BY <3>1, <3>2, <3>3 DEF LifecycleInv, RunningInv
  <2>5. Control!Ends(w) BY <1>1, <2>1, <2>2, <2>3, <2>4 DEF Control!Ends, SameCall, LiveWorkers
  <2> QED BY <2>5 DEF Control!Next
<1>5. ASSUME WorkerStep(w), ~LogAcquire(w), ~Deliver(w), ~NewTestFailedClear(w), ~FreeTest(w)
      PROVE  [Control!Next]_ControlVars
  <2>1. SameLines
    BY <1>5 DEF WorkerStep, NewTestSucceeds, NewTestFails, PublishTest, SetDefaults, LoopAgain,
       ServeStep, ServeReturns, AfterServe, NewTestFailedUnset, WorkerUnset, SameLines, workerVars
  <2>2. \A v \in Workers : Live(v)' <=> Live(v)
    BY <1>0, <1>5 DEF WorkerStep, NewTestSucceeds, NewTestFails, PublishTest, SetDefaults, LoopAgain,
       ServeStep, ServeReturns, AfterServe, NewTestFailedUnset, WorkerUnset, GoWorker, Live, workerVars
  <2>3. CASE UNCHANGED g_isRunning BY <1>1, <2>1, <2>2, <2>3, ServersUnchanged, Unseen
  <2>4. CASE g_isRunning' = FALSE
    <3>1. Control!Denies
      BY <1>1, <2>1, <2>2, <2>4, ServersUnchanged, LinesUnchanged DEF Control!Denies, SameCall, SameServers
    <3> QED BY <3>1 DEF Control!Next
  <2>5. UNCHANGED g_isRunning \/ g_isRunning' = FALSE
    BY <1>5 DEF WorkerStep, NewTestSucceeds, NewTestFails, PublishTest, SetDefaults, LoopAgain,
       ServeStep, ServeReturns, AfterServe, NewTestFailedUnset, WorkerUnset, globals
  <2> QED BY <2>3, <2>4, <2>5
<1> QED BY <1>2, <1>3, <1>4, <1>5 DEF WorkerStep

\* start(), stop() and the log listener keep the promise of ServerControl: every step
\* of the JS thread and of the workers is one that it allows, and stop() waits.
THEOREM ServerIsControlled == Spec => ImplementsServerControl
<1>1. Init => Control!Init
  <2> SUFFICES ASSUME Init PROVE Control!Init
    OBVIOUS
  <2>1. LiveWorkers = {} BY DEF Init, LiveWorkers, Live
  <2>2. LinesInFlight = {} BY DEF Init, LinesInFlight
  <2> QED BY <2>1, <2>2 DEF Init, Control!Init, Control!Gone, CallNow
<1>2. LifecycleInv /\ [Next]_vars => [Control!Next]_ControlVars
  <2> SUFFICES ASSUME LifecycleInv, [Next]_vars
               PROVE  [Control!Next]_ControlVars
    OBVIOUS
  <2>1. ASSUME NEW w \in Workers, ClientStep(w)
        PROVE  [Control!Next]_ControlVars
    BY <2>1, ServersUnchanged, Unseen
    DEF ClientStep, jsVars, workerVars, globals, CallNow, SameCall, SameLines, Live
  <2>2. CASE UNCHANGED vars
    BY <2>2, ServersUnchanged, Unseen DEF vars, jsVars, workerVars, globals, CallNow, SameCall, SameLines, Live
  <2> QED BY <2>1, <2>2, JsImplements, WorkerImplements DEF Next
<1> QED BY <1>1, <1>2, LifecycleInvariant, PTL
     DEF Spec, ImplementsServerControl, Control!Spec, Control!vars, ControlVars
=============================================================================
