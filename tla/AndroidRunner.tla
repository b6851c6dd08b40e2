--------------------------- MODULE AndroidRunner ---------------------------
(***************************************************************************)
(* The Android bridge: ExpoIperfModule.kt and IperfRunner.kt run start()   *)
(* and stop() on the one JS thread, iperf_jni.cpp runs the iperf server on *)
(* a worker thread it creates in start() and joins in stop().              *)
(*                                                                         *)
(* Each step of the JS thread and of a worker is one access to the shared  *)
(* globals, or one critical section of g_stateMutex or g_callbackMutex.    *)
(* The one section that other threads can observe from the outside, the    *)
(* interrupt, holds g_stateMutex over three steps (stateMutexHeld).        *)
(*                                                                         *)
(* Left out: g_threadStarted, which is written and never read; the thread  *)
(* data (json, udp and oneOff = false are fixed for a worker); the text of *)
(* the log lines.                                                          *)
(***************************************************************************)
EXTENDS RunServer

CONSTANTS
    None,       \* no worker, no test, no callback
    Ports       \* the ports start() is called with; 0 lets the kernel choose

ASSUME NoneAssumption == None \notin Workers
ASSUME PortsAssumption == Ports \subseteq Nat /\ Ports # {}

VARIABLES
    \* the JS thread
    js,             \* its step
    op,             \* the operation it executes, or executed last
    port,           \* port[w]: data->port of worker w (0 before it has one)
    snap,           \* threadValidSnapshot
    local_test,     \* local_test in stop_if_running_and_join
    announced,      \* the value of the last "state" event
    \* the globals of iperf_jni.cpp
    g_isRunning, g_test, g_threadValid, g_server_port, g_thread,
    g_callbackObject,   \* the callback of the start() that made worker w is w
    \* the worker threads
    worker,         \* worker[w]: its step
    inflight        \* inflight[w]: the local callback reference it holds

jsVars == <<js, op, snap, local_test, announced>>
globals == <<g_isRunning, g_test, g_threadValid, g_server_port, g_thread, g_callbackObject>>
workerVars == <<worker, inflight>>
vars == <<jsVars, port, globals, workerVars, serverVars>>

JsSteps == {"idle", "snap", "test", "fastclear", "unset", "mark", "shutdown", "nudge",
            "snap2", "join", "invalid", "dropcb", "return",
            "install", "run", "create", "unrun", "uninstall", "valid"}
WorkerSteps == {"none", "new", "publish", "defaults", "loop", "serve", "returned", "failed",
                "log", "newfail", "newfaillog", "newfailed", "unpublish", "unset", "free", "exited"}

TypeOK ==
    /\ ServerTypeOK
    /\ js \in JsSteps
    /\ op \in {"start", "stop"}
    /\ port \in [Workers -> Ports \cup {0}]
    /\ snap \in BOOLEAN
    /\ local_test \in Workers \cup {None}
    /\ announced \in {"none", "started", "stopped"}
    /\ g_isRunning \in BOOLEAN
    /\ g_test \in Workers \cup {None}
    /\ g_threadValid \in BOOLEAN
    /\ g_server_port \in Ports \cup {0}
    /\ g_thread \in Workers \cup {None}
    /\ g_callbackObject \in Workers \cup {None}
    /\ worker \in [Workers -> WorkerSteps]
    /\ inflight \in [Workers -> Workers \cup {None}]

Init ==
    /\ ServerInit
    /\ js = "idle" /\ op = "stop" /\ snap = FALSE /\ local_test = None
    /\ announced = "none"
    /\ port = [w \in Workers |-> 0]
    /\ g_isRunning = FALSE /\ g_test = None /\ g_threadValid = FALSE
    /\ g_server_port = 0 /\ g_thread = None /\ g_callbackObject = None
    /\ worker = [w \in Workers |-> "none"]
    /\ inflight = [w \in Workers |-> None]

\* g_stateMutex is held by the JS thread across safe_interrupt_iperf.
stateMutexHeld == js \in {"shutdown", "nudge"}

Live(w) == worker[w] \notin {"none", "exited"}

GoJs(from, to) == js = from /\ js' = to
GoWorker(w, from, to) == worker[w] = from /\ worker' = [worker EXCEPT ![w] = to]

----------------------------------------------------------------------------
(* The JS thread: the module's two functions.                              *)

\* ExpoIperfModule "start": the event comes before the runner is called.
StartCalled ==
    /\ GoJs("idle", "snap")
    /\ op' = "start"
    /\ announced' = "started"
    /\ UNCHANGED <<snap, local_test, port, globals, workerVars, serverVars>>

StopCalled ==
    /\ GoJs("idle", "snap")
    /\ op' = "stop"
    /\ UNCHANGED <<snap, local_test, announced, port, globals, workerVars, serverVars>>

(* stop_if_running_and_join                                                *)

SnapshotThreadValid ==
    /\ ~stateMutexHeld
    /\ GoJs("snap", "test")
    /\ snap' = g_threadValid
    /\ UNCHANGED <<op, local_test, announced, port, globals, workerVars, serverVars>>

\* Mutant: the fast path forgets the thread handle.
TestRunningIgnoringHandle ==
    /\ js = "test"
    /\ js' = IF ~g_isRunning THEN "fastclear" ELSE "unset"
    /\ UNCHANGED <<op, snap, local_test, announced, port, globals, workerVars, serverVars>>

TestRunning ==
    /\ js = "test"
    /\ js' = IF ~g_isRunning /\ ~snap THEN "fastclear" ELSE "unset"
    /\ UNCHANGED <<op, snap, local_test, announced, port, globals, workerVars, serverVars>>

\* The two places that delete the global callback reference.
ClearCallback ==
    /\ js \in {"fastclear", "dropcb"}
    /\ js' = "return"
    /\ g_callbackObject' = None
    /\ UNCHANGED <<op, snap, local_test, announced, port, g_isRunning, g_test,
                   g_threadValid, g_server_port, g_thread, workerVars, serverVars>>

UnsetRunning ==
    /\ GoJs("unset", "mark")
    /\ g_isRunning' = FALSE
    /\ UNCHANGED <<op, snap, local_test, announced, port, g_test, g_threadValid,
                   g_server_port, g_thread, g_callbackObject, workerVars, serverVars>>

\* Under g_stateMutex: the snapshot of g_test and the start of the interrupt.
InterruptMark ==
    /\ js = "mark"
    /\ local_test' = g_test
    /\ IF g_test = None
       THEN js' = "snap2" /\ UNCHANGED serverVars
       ELSE js' = "shutdown" /\ MarkDone(g_test)
    /\ UNCHANGED <<op, snap, announced, port, globals, workerVars>>

InterruptShutdown ==
    /\ GoJs("shutdown", "nudge")
    /\ Shutdown(local_test)
    /\ UNCHANGED <<op, snap, local_test, announced, port, globals, workerVars>>

\* Mutant: no loopback connection is made.
InterruptNudgeSkipped ==
    /\ GoJs("nudge", "snap2")
    /\ UNCHANGED <<op, snap, local_test, announced, port, globals, workerVars, serverVars>>

\* The loopback connection reaches whatever listens on g_server_port.
InterruptNudge ==
    /\ GoJs("nudge", "snap2")
    /\ IF g_server_port > 0 /\ g_server_port = port[local_test]
       THEN Nudge(local_test)
       ELSE UNCHANGED serverVars
    /\ UNCHANGED <<op, snap, local_test, announced, port, globals, workerVars>>

\* Mutant: the worker is not joined.
SnapshotAgainWithoutJoin ==
    /\ GoJs("snap2", "dropcb")
    /\ snap' = g_threadValid
    /\ UNCHANGED <<op, local_test, announced, port, globals, workerVars, serverVars>>

SnapshotAgain ==
    /\ js = "snap2"
    /\ snap' = g_threadValid
    /\ js' = IF g_threadValid THEN "join" ELSE "dropcb"
    /\ UNCHANGED <<op, local_test, announced, port, globals, workerVars, serverVars>>

\* pthread_join(g_thread): a joined thread's identity may be used again.
Join ==
    /\ GoJs("join", "invalid")
    /\ worker[g_thread] = "exited"
    /\ worker' = [worker EXCEPT ![g_thread] = "none"]
    /\ port' = [port EXCEPT ![g_thread] = 0]
    /\ UNCHANGED <<op, snap, local_test, announced, globals, inflight, serverVars>>

\* Mutant: the handle stays valid after the join.
InvalidateThreadForgotten ==
    /\ GoJs("invalid", "dropcb")
    /\ UNCHANGED <<op, snap, local_test, announced, port, globals, workerVars, serverVars>>

InvalidateThread ==
    /\ GoJs("invalid", "dropcb")
    /\ g_threadValid' = FALSE
    /\ UNCHANGED <<op, snap, local_test, announced, port, g_isRunning, g_test,
                   g_server_port, g_thread, g_callbackObject, workerVars, serverVars>>

\* Back in nativeStop (then the module sends "stopped") or in nativeStart.
LeaveStopAndJoin ==
    /\ js = "return"
    /\ IF op = "stop" THEN js' = "idle" /\ announced' = "stopped"
                      ELSE js' = "install" /\ UNCHANGED announced
    /\ UNCHANGED <<op, snap, local_test, port, globals, workerVars, serverVars>>

(* nativeStart                                                             *)

\* The callback of this start(), named after the worker w about to be created.
InstallCallback(w) ==
    /\ GoJs("install", "run")
    /\ ~Live(w)
    /\ g_callbackObject' = w
    /\ \E p \in Ports : port' = [port EXCEPT ![w] = p]
    /\ UNCHANGED <<op, snap, local_test, announced, g_isRunning, g_test, g_threadValid,
                   g_server_port, g_thread, workerVars, serverVars>>

SetRunning ==
    /\ GoJs("run", "create")
    /\ g_isRunning' = TRUE
    /\ UNCHANGED <<op, snap, local_test, announced, port, g_test, g_threadValid,
                   g_server_port, g_thread, g_callbackObject, workerVars, serverVars>>

CreateThread ==
    /\ GoJs("create", "valid")
    /\ g_thread' = g_callbackObject
    /\ worker' = [worker EXCEPT ![g_callbackObject] = "new"]
    /\ UNCHANGED <<op, snap, local_test, announced, port, g_isRunning, g_test, g_threadValid,
                   g_server_port, g_callbackObject, inflight, serverVars>>

CreateThreadFails ==
    /\ GoJs("create", "unrun")
    /\ UNCHANGED <<op, snap, local_test, announced, port, globals, workerVars, serverVars>>

CreateFailedUnset ==
    /\ GoJs("unrun", "uninstall")
    /\ g_isRunning' = FALSE
    /\ UNCHANGED <<op, snap, local_test, announced, port, g_test, g_threadValid,
                   g_server_port, g_thread, g_callbackObject, workerVars, serverVars>>

\* The log line after this finds no callback and is dropped.
CreateFailedClear ==
    /\ GoJs("uninstall", "idle")
    /\ g_callbackObject' = None
    /\ UNCHANGED <<op, snap, local_test, announced, port, g_isRunning, g_test,
                   g_threadValid, g_server_port, g_thread, workerVars, serverVars>>

MarkThreadValid ==
    /\ GoJs("valid", "idle")
    /\ g_threadValid' = TRUE
    /\ g_server_port' = port[g_thread]
    /\ UNCHANGED <<op, snap, local_test, announced, port, g_isRunning, g_test,
                   g_thread, g_callbackObject, workerVars, serverVars>>

JsStop ==
    \/ SnapshotThreadValid \/ TestRunning \/ ClearCallback \/ UnsetRunning
    \/ InterruptMark \/ InterruptShutdown \/ InterruptNudge
    \/ SnapshotAgain \/ Join \/ InvalidateThread \/ LeaveStopAndJoin

JsStart ==
    \/ \E w \in Workers : InstallCallback(w)
    \/ SetRunning \/ CreateThread \/ CreateThreadFails
    \/ CreateFailedUnset \/ CreateFailedClear \/ MarkThreadValid

----------------------------------------------------------------------------
(* iperf_thread_func                                                       *)

NewTestSucceeds(w) ==
    /\ GoWorker(w, "new", "publish")
    /\ UNCHANGED <<jsVars, port, globals, inflight, serverVars>>

NewTestFails(w) ==
    /\ GoWorker(w, "new", "newfail")
    /\ UNCHANGED <<jsVars, port, globals, inflight, serverVars>>

PublishTest(w) ==
    /\ ~stateMutexHeld
    /\ GoWorker(w, "publish", "defaults")
    /\ g_test' = w
    /\ g_server_port' = port[w]
    /\ UNCHANGED <<jsVars, port, g_isRunning, g_threadValid, g_thread, g_callbackObject,
                   inflight, serverVars>>

SetDefaults(w) ==
    /\ GoWorker(w, "defaults", "loop")
    /\ Defaults(w)
    /\ UNCHANGED <<jsVars, port, globals, inflight>>

\* while (g_isRunning.load()) and the call of iperf_run_server.
LoopAgain(w) ==
    /\ worker[w] = "loop"
    /\ IF g_isRunning
       THEN worker' = [worker EXCEPT ![w] = "serve"] /\ Call(w)
       ELSE worker' = [worker EXCEPT ![w] = "unset"] /\ UNCHANGED serverVars
    /\ UNCHANGED <<jsVars, port, globals, inflight>>

ServeStep(w) ==
    /\ worker[w] = "serve"
    /\ inflight[w] = None
    /\ Advance(w)
    /\ UNCHANGED <<jsVars, port, globals, workerVars>>

ServeReturns(w) ==
    /\ worker[w] = "serve"
    /\ inflight[w] = None
    /\ Return(w)
    /\ worker' = [worker EXCEPT ![w] = IF at[w] = "ok" THEN "returned" ELSE "failed"]
    /\ UNCHANGED <<jsVars, port, globals, inflight>>

\* if (!g_isRunning.load()) break, then the log line of an error.
AfterServe(w) ==
    /\ worker[w] \in {"returned", "failed"}
    /\ IF ~g_isRunning
       THEN worker' = [worker EXCEPT ![w] = "unset"] /\ UNCHANGED serverVars
       ELSE IF worker[w] = "failed"
       THEN worker' = [worker EXCEPT ![w] = "log"] /\ UNCHANGED serverVars
       ELSE worker' = [worker EXCEPT ![w] = "loop"] /\ ResetTest(w)
    /\ UNCHANGED <<jsVars, port, globals, inflight>>

\* acquire_callback_local, under g_callbackMutex.
CallbackNow == IF g_isRunning THEN g_callbackObject ELSE None

\* send_log_line: take a local reference, call onLog, release it.
LogAcquire(w) ==
    /\ \/ GoWorker(w, "log", "unset")
       \/ GoWorker(w, "newfail", "newfaillog")
    /\ inflight[w] = None
    /\ inflight' = [inflight EXCEPT ![w] = CallbackNow]
    /\ UNCHANGED <<jsVars, port, globals, serverVars>>

\* iperf_json_output_callback: the reporter, json_finish or an error prints a
\* JSON line somewhere in the run of a test.
JsonAcquire(w) ==
    /\ worker[w] = "serve"
    /\ InTest(w) \/ at[w] = "ok"
    /\ inflight[w] = None
    /\ CallbackNow # None
    /\ inflight' = [inflight EXCEPT ![w] = CallbackNow]
    /\ UNCHANGED <<jsVars, port, globals, worker, serverVars>>

\* onLog is called through the reference: the line reaches the listener.
Deliver(w) ==
    /\ inflight[w] # None
    /\ inflight' = [inflight EXCEPT ![w] = None]
    /\ UNCHANGED <<jsVars, port, globals, worker, serverVars>>

\* Mutant: the failing worker leaves g_isRunning set.
NewTestFailedStillRunning(w) ==
    /\ inflight[w] = None
    /\ GoWorker(w, "newfaillog", "newfailed")
    /\ UNCHANGED <<jsVars, port, globals, inflight, serverVars>>

NewTestFailedUnset(w) ==
    /\ inflight[w] = None
    /\ GoWorker(w, "newfaillog", "newfailed")
    /\ g_isRunning' = FALSE
    /\ UNCHANGED <<jsVars, port, g_test, g_threadValid, g_server_port, g_thread,
                   g_callbackObject, inflight, serverVars>>

\* The thread is still joinable when it says that its handle is not valid.
NewTestFailedClear(w) ==
    /\ ~stateMutexHeld
    /\ GoWorker(w, "newfailed", "exited")
    /\ g_test' = None
    /\ g_threadValid' = FALSE
    /\ UNCHANGED <<jsVars, port, g_isRunning, g_server_port, g_thread,
                   g_callbackObject, inflight, serverVars>>

WorkerUnset(w) ==
    /\ inflight[w] = None
    /\ GoWorker(w, "unset", "free")
    /\ g_isRunning' = FALSE
    /\ UNCHANGED <<jsVars, port, g_test, g_threadValid, g_server_port, g_thread,
                   g_callbackObject, inflight, serverVars>>

\* Mutant: the test is freed without taking the lock.
FreeTestUnlocked(w) ==
    /\ GoWorker(w, "free", "exited")
    /\ FreeFields(w)
    /\ g_test' = None
    /\ UNCHANGED <<jsVars, port, g_isRunning, g_threadValid, g_server_port, g_thread,
                   g_callbackObject, inflight>>

\* Under g_stateMutex: iperf_free_test, g_test = nullptr; then the thread ends.
FreeTest(w) ==
    /\ ~stateMutexHeld
    /\ GoWorker(w, "free", "exited")
    /\ FreeFields(w)
    /\ g_test' = None
    /\ UNCHANGED <<jsVars, port, g_isRunning, g_threadValid, g_server_port, g_thread,
                   g_callbackObject, inflight>>

WorkerStep(w) ==
    \/ NewTestSucceeds(w) \/ NewTestFails(w) \/ PublishTest(w) \/ SetDefaults(w)
    \/ LoopAgain(w) \/ ServeStep(w) \/ ServeReturns(w) \/ AfterServe(w)
    \/ LogAcquire(w) \/ Deliver(w)
    \/ NewTestFailedUnset(w) \/ NewTestFailedClear(w) \/ WorkerUnset(w) \/ FreeTest(w)

ClientStep(w) ==
    /\ ClientConnects(w)
    /\ UNCHANGED <<jsVars, port, globals, workerVars>>

Next ==
    \/ StartCalled \/ StopCalled \/ JsStop \/ JsStart
    \/ \E w \in Workers : WorkerStep(w) \/ JsonAcquire(w) \/ ClientStep(w)

Spec == Init /\ [][Next]_vars

(* Scheduling: the JS thread and the workers run.  A listener that was shut *)
(* stays readable, and each round begun outside the creation of UDP streams *)
(* serves it: before anything else, and in the creation of TCP streams      *)
(* after a message of the client, which ends that state.  So a worker that  *)
(* can fail to accept on it again and again does.  (In the creation of UDP  *)
(* streams AcceptShut is not enabled.)  A client need not speak or connect. *)
Fairness ==
    /\ WF_vars(JsStop \/ JsStart)
    /\ \A w \in Workers :
        /\ WF_vars(WorkerStep(w))
        /\ SF_vars(ServeStep(w) /\ AcceptShut(w))
        /\ SF_vars(ServeReturns(w))

FairSpec == Spec /\ Fairness

----------------------------------------------------------------------------
(* Safety.                                                                 *)

\* "Ensure previous instance is fully stopped": two workers never run at once,
\* although start() may be called while a worker starts, serves or dies.
OneServerAtATime ==
    \A v, w \in Workers : Live(v) /\ Live(w) => v = w

HasTest(w) ==
    worker[w] \in {"defaults", "loop", "serve", "returned", "failed", "log", "unset", "free"}

\* safe_interrupt_iperf works on a test that is published, not freed, and on
\* the port that test was given, whatever the worker does meanwhile.
InterruptTarget ==
    stateMutexHeld =>
        /\ g_test = local_test
        /\ local_test # None
        /\ HasTest(local_test)
        /\ g_server_port = port[local_test]

\* When stop() has returned there is no worker, no test and no callback left,
\* and no log line is on its way to the listener.
QuietAfterStop ==
    js = "idle" /\ op = "stop" =>
        /\ ~g_isRunning /\ ~g_threadValid
        /\ g_test = None /\ g_callbackObject = None
        /\ \A w \in Workers : ~Live(w) /\ inflight[w] = None

\* pthread_join is called on a thread that was created and not joined yet.
HandleIsJoinable ==
    js = "join" => g_thread # None /\ worker[g_thread] # "none"

Serving(w) ==
    worker[w] \in {"new", "publish", "defaults", "loop", "serve", "returned", "failed", "log",
                   "newfail", "newfaillog"}

\* Between two calls isRunning() tells the truth: TRUE exactly while a worker
\* has not decided to end.
RunningMeansServer ==
    js = "idle" =>
        (g_isRunning <=> \E w \in Workers : Serving(w) \/ worker[w] = "unset")

\* A log line goes to the listener of the start() that made the server.
OwnCallback == \A w \in Workers : inflight[w] \in {None, w}

CallNow == IF js = "idle" THEN "none" ELSE op
LiveWorkers == {w \in Workers : Live(w)}
LinesInFlight == {<<w, inflight[w]>> : w \in {v \in Workers : inflight[v] # None}}

Control == INSTANCE ServerControl
           WITH Servers <- Workers, StopWaits <- TRUE,
                call <- CallNow, running <- LiveWorkers, told <- g_isRunning,
                lines <- LinesInFlight

\* start(), stop(), isRunning() and the log listener are what ServerControl
\* promises, with a stop() that waits, at whatever step of the worker it comes.
ImplementsServerControl == Control!Spec

----------------------------------------------------------------------------
(* Liveness.                                                               *)

\* No UDP client falls silent between the parameters of its test and its streams.
StreamsAreMade == \A w \in Workers : []<>(state[w] # "UDP_STREAMS")

\* Once shutdown() has stopped the socket listening, the stop() returns,
\* whatever clients and the session do, on any port; unless a session comes to
\* replace the socket, which undoes it, or waits for ever for the streams of a
\* UDP test: its CREATE_STREAMS may overwrite IPERF_DONE, and it passes over the
\* listening socket, which yet keeps its select from timing out.
ShutListenerStops ==
    StreamsAreMade =>
        \A w \in Workers :
            (js = "nudge" /\ g_test = w /\ listener[w] = "shut")
            ~> (js = "idle" \/ at[w] = "relisten")

SessionsEnd ==
    \A w \in Workers : []<>(~session[w] /\ state[w] \notin Testing)

\* Even where shutdown() has no effect a stop() that finds the server listening
\* returns: the loopback connection is enough, provided the port is known and
\* every test of a client comes to an end.
NudgedServerStops ==
    SessionsEnd =>
        \A w \in Workers :
            (js = "mark" /\ g_test = w /\ listener[w] = "open" /\ port[w] > 0) ~> (js = "idle")

----------------------------------------------------------------------------
(* What the documentation and the comments say.                            *)

\* iperf_jni.cpp:130, "Deterministic wake": a stop() always returns.
StopAlwaysReturns == (js = "mark") ~> (js = "idle")

=============================================================================
