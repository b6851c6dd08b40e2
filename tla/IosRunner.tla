----------------------------- MODULE IosRunner -----------------------------
(***************************************************************************)
(* The iOS runner: ExpoIperfModule.swift calls the shared IperfRunner from *)
(* the JS thread; every start creates an NSThread that runs the iperf      *)
(* server; log lines and the end of a thread are posted to the main queue. *)
(*                                                                         *)
(* Unlike the Android bridge, stop does not wait: a worker may outlive the *)
(* stop that interrupted it and overlap with the next one.  Its fields are *)
(* shared by all workers.  Workers are never joined, so an identity is     *)
(* free again when its thread has ended and no queued block mentions it.   *)
(*                                                                         *)
(* Left out: _thread and _threadGroup, which nothing reads (the block that *)
(* waits for the group does nothing afterwards), and the text of the lines.*)
(***************************************************************************)
EXTENDS RunServer

CONSTANTS
    None,       \* no test, no listener
    Ports,      \* the ports start is called with
    MaxQueue    \* bound: main-queue blocks before JSON output is held back

ASSUME NoneAssumption == None \notin Workers
ASSUME PortsAssumption == Ports \subseteq Nat /\ Ports # {}

VARIABLES
    js, op,         \* the JS thread: its step, and its current or last operation
    local,          \* the test that stop interrupts
    port,           \* port[w]: the port captured by the block of worker w
    isRunning,      \* _isRunning
    test,           \* _test
    serverPort,     \* _serverPort
    onLog,          \* _onLog: the listener of the start that made worker onLog
    currentRunner,  \* s_currentRunner is not nil
    mainQueue,      \* the blocks on the main queue, in order
    worker          \* worker[w]: the step of worker w

jsVars == <<js, op, local>>
fields == <<isRunning, test, serverPort, onLog, currentRunner>>
vars == <<jsVars, port, fields, mainQueue, worker, serverVars>>

JsSteps == {"idle", "test", "unset", "mark", "nudge", "return",
            "onlog", "current", "run", "port", "create"}
WorkerSteps == {"none", "new", "publish", "defaults", "loop", "serve", "returned", "failed",
                "log", "newfail", "newfailed", "free", "unset", "end"}

\* "json": a line still to be posted; "line": a line to be handed to _onLog;
\* "end": the last block of a worker.
Blocks == [kind : {"json", "line", "end"}, from : Workers]

TypeOK ==
    /\ ServerTypeOK
    /\ js \in JsSteps
    /\ op \in {"start", "stop"}
    /\ local \in Workers \cup {None}
    /\ port \in [Workers -> Ports \cup {0}]
    /\ isRunning \in BOOLEAN
    /\ test \in Workers \cup {None}
    /\ serverPort \in Ports \cup {0}
    /\ onLog \in Workers \cup {None}
    /\ currentRunner \in BOOLEAN
    /\ mainQueue \in Seq(Blocks)
    /\ worker \in [Workers -> WorkerSteps]

Init ==
    /\ ServerInit
    /\ js = "idle" /\ op = "stop" /\ local = None
    /\ port = [w \in Workers |-> 0]
    /\ isRunning = FALSE /\ test = None /\ serverPort = 0
    /\ onLog = None /\ currentRunner = FALSE
    /\ mainQueue = <<>>
    /\ worker = [w \in Workers |-> "none"]

Live(w) == worker[w] # "none"

HasTest(w) ==
    worker[w] \in {"defaults", "loop", "serve", "returned", "failed", "log", "free"}

\* The JS thread is inside @synchronized (_stateLock) with a test to interrupt.
lockHeld == js = "nudge"

GoJs(from, to) == js = from /\ js' = to
GoWorker(w, from, to) == worker[w] = from /\ worker' = [worker EXCEPT ![w] = to]
Post(kind, w) == mainQueue' = Append(mainQueue, [kind |-> kind, from |-> w])

----------------------------------------------------------------------------
(* The JS thread                                                           *)

StartCalled ==
    /\ GoJs("idle", "test")
    /\ op' = "start"
    /\ UNCHANGED <<local, port, fields, mainQueue, worker, serverVars>>

StopCalled ==
    /\ GoJs("idle", "test")
    /\ op' = "stop"
    /\ UNCHANGED <<local, port, fields, mainQueue, worker, serverVars>>

\* stop: if (!self.isRunning) return.
TestRunning ==
    /\ js = "test"
    /\ js' = IF isRunning THEN "unset" ELSE "return"
    /\ UNCHANGED <<op, local, port, fields, mainQueue, worker, serverVars>>

UnsetRunning ==
    /\ GoJs("unset", "mark")
    /\ isRunning' = FALSE
    /\ UNCHANGED <<op, local, port, test, serverPort, onLog, currentRunner,
                   mainQueue, worker, serverVars>>

\* Under _stateLock: take _test and mark it done.
InterruptMark ==
    /\ js = "mark"
    /\ local' = test
    /\ IF test = None
       THEN js' = "return" /\ UNCHANGED serverVars
       ELSE js' = "nudge" /\ MarkDone(test)
    /\ UNCHANGED <<op, port, fields, mainQueue, worker>>

\* Mutant: no loopback connection.
InterruptNudgeSkipped ==
    /\ GoJs("nudge", "return")
    /\ UNCHANGED <<op, local, port, fields, mainQueue, worker, serverVars>>

\* Still under the lock: connect to _serverPort, whoever listens there.
InterruptNudge ==
    /\ GoJs("nudge", "return")
    /\ LET heard == {w \in Workers : port[w] = serverPort /\ listener[w] = "open"}
       IN  IF serverPort > 0 /\ heard # {}
           THEN \E w \in heard : Nudge(w)
           ELSE UNCHANGED serverVars
    /\ UNCHANGED <<op, local, port, fields, mainQueue, worker>>

LeaveStop ==
    /\ js = "return"
    /\ js' = IF op = "stop" THEN "idle" ELSE "onlog"
    /\ UNCHANGED <<op, local, port, fields, mainQueue, worker, serverVars>>

Unused(w) ==
    /\ ~Live(w)
    /\ \A i \in DOMAIN mainQueue : mainQueue[i].from # w

\* _onLog = the block of this start, named after the worker it will create.
SetOnLog(w) ==
    /\ GoJs("onlog", "current")
    /\ Unused(w)
    /\ onLog' = w
    /\ \E p \in Ports : port' = [port EXCEPT ![w] = p]
    /\ UNCHANGED <<op, local, isRunning, test, serverPort, currentRunner,
                   mainQueue, worker, serverVars>>

\* Mutant: the runner is not registered for the JSON callback.
SetCurrentRunnerForgotten ==
    /\ GoJs("current", "run")
    /\ UNCHANGED <<op, local, port, fields, mainQueue, worker, serverVars>>

SetCurrentRunner ==
    /\ GoJs("current", "run")
    /\ currentRunner' = TRUE
    /\ UNCHANGED <<op, local, port, isRunning, test, serverPort, onLog,
                   mainQueue, worker, serverVars>>

SetRunning ==
    /\ GoJs("run", "port")
    /\ isRunning' = TRUE
    /\ UNCHANGED <<op, local, port, test, serverPort, onLog, currentRunner,
                   mainQueue, worker, serverVars>>

SetServerPort ==
    /\ GoJs("port", "create")
    /\ serverPort' = port[onLog]
    /\ UNCHANGED <<op, local, port, isRunning, test, onLog, currentRunner,
                   mainQueue, worker, serverVars>>

CreateThread ==
    /\ GoJs("create", "idle")
    /\ worker' = [worker EXCEPT ![onLog] = "new"]
    /\ UNCHANGED <<op, local, port, fields, mainQueue, serverVars>>

JsStep ==
    \/ TestRunning \/ UnsetRunning \/ InterruptMark \/ InterruptNudge \/ LeaveStop
    \/ \E w \in Workers : SetOnLog(w)
    \/ SetCurrentRunner \/ SetRunning \/ SetServerPort \/ CreateThread

----------------------------------------------------------------------------
(* The block of the NSThread                                               *)

NewTestSucceeds(w) ==
    /\ GoWorker(w, "new", "publish")
    /\ UNCHANGED <<jsVars, port, fields, mainQueue, serverVars>>

NewTestFails(w) ==
    /\ GoWorker(w, "new", "newfail")
    /\ UNCHANGED <<jsVars, port, fields, mainQueue, serverVars>>

PublishTest(w) ==
    /\ ~lockHeld
    /\ GoWorker(w, "publish", "defaults")
    /\ test' = w
    /\ serverPort' = port[w]
    /\ UNCHANGED <<jsVars, port, isRunning, onLog, currentRunner, mainQueue, serverVars>>

SetDefaults(w) ==
    /\ GoWorker(w, "defaults", "loop")
    /\ Defaults(w)
    /\ UNCHANGED <<jsVars, port, fields, mainQueue>>

LoopAgain(w) ==
    /\ worker[w] = "loop"
    /\ IF isRunning
       THEN worker' = [worker EXCEPT ![w] = "serve"] /\ Call(w)
       ELSE worker' = [worker EXCEPT ![w] = "free"] /\ UNCHANGED serverVars
    /\ UNCHANGED <<jsVars, port, fields, mainQueue>>

\* netannounce: a port another worker listens on is in use.
PortTaken(w) ==
    \E v \in Workers \ {w} : port[v] = port[w] /\ port[w] > 0 /\ listener[v] = "open"

ServeStep(w) ==
    /\ worker[w] = "serve"
    /\ Advance(w)
    /\ Listen(w) \/ Reopen(w) => ~PortTaken(w)
    /\ UNCHANGED <<jsVars, port, fields, mainQueue, worker>>

ServeReturns(w) ==
    /\ worker[w] = "serve"
    /\ Return(w)
    /\ worker' = [worker EXCEPT ![w] = IF at[w] = "ok" THEN "returned" ELSE "failed"]
    /\ UNCHANGED <<jsVars, port, fields, mainQueue>>

AfterServe(w) ==
    /\ worker[w] \in {"returned", "failed"}
    /\ IF ~isRunning
       THEN worker' = [worker EXCEPT ![w] = "free"] /\ UNCHANGED serverVars
       ELSE IF worker[w] = "failed"
       THEN worker' = [worker EXCEPT ![w] = "log"] /\ UNCHANGED serverVars
       ELSE worker' = [worker EXCEPT ![w] = "loop"] /\ ResetTest(w)
    /\ UNCHANGED <<jsVars, port, fields, mainQueue>>

\* postLog: _onLog is never nil once a start was made.
PostLog(w) ==
    IF onLog # None THEN Post("line", w) ELSE UNCHANGED mainQueue

WorkerPostsError(w) ==
    /\ \/ GoWorker(w, "log", "free")
       \/ GoWorker(w, "newfail", "newfailed")
    /\ PostLog(w)
    /\ UNCHANGED <<jsVars, port, fields, serverVars>>

\* iperf_json_output_callback, anywhere in the run of a test.
JsonOutput(w) ==
    /\ worker[w] = "serve"
    /\ InTest(w) \/ at[w] = "ok"
    /\ Len(mainQueue) < MaxQueue
    /\ currentRunner
    /\ Post("json", w)
    /\ UNCHANGED <<jsVars, port, fields, worker, serverVars>>

NewTestFailedUnset(w) ==
    /\ GoWorker(w, "newfailed", "none")
    /\ isRunning' = FALSE
    /\ port' = [port EXCEPT ![w] = 0]
    /\ UNCHANGED <<jsVars, test, serverPort, onLog, currentRunner, mainQueue, serverVars>>

\* Mutant: only the free is guarded, the pointer is left behind.
FreeTestKeepingPointer(w) ==
    /\ ~lockHeld
    /\ GoWorker(w, "free", "unset")
    /\ FreeFields(w)
    /\ UNCHANGED <<jsVars, port, fields, mainQueue>>

\* Mutant: the test is freed without taking the lock.
FreeTestUnlocked(w) ==
    /\ GoWorker(w, "free", "unset")
    /\ FreeFields(w)
    /\ test' = None
    /\ UNCHANGED <<jsVars, port, isRunning, serverPort, onLog, currentRunner, mainQueue>>

\* Under _stateLock: free, and clear _test whosever it is.
FreeTest(w) ==
    /\ ~lockHeld
    /\ GoWorker(w, "free", "unset")
    /\ FreeFields(w)
    /\ test' = None
    /\ UNCHANGED <<jsVars, port, isRunning, serverPort, onLog, currentRunner, mainQueue>>

\* Mutant: the ending worker forgets the flag.
WorkerUnsetForgotten(w) ==
    /\ GoWorker(w, "unset", "end")
    /\ UNCHANGED <<jsVars, port, fields, mainQueue, serverVars>>

WorkerUnset(w) ==
    /\ GoWorker(w, "unset", "end")
    /\ isRunning' = FALSE
    /\ UNCHANGED <<jsVars, port, test, serverPort, onLog, currentRunner, mainQueue, serverVars>>

PostEnd(w) ==
    /\ GoWorker(w, "end", "none")
    /\ Post("end", w)
    /\ port' = [port EXCEPT ![w] = 0]
    /\ UNCHANGED <<jsVars, fields, serverVars>>

WorkerStep(w) ==
    \/ NewTestSucceeds(w) \/ NewTestFails(w) \/ PublishTest(w) \/ SetDefaults(w)
    \/ LoopAgain(w) \/ ServeStep(w) \/ ServeReturns(w) \/ AfterServe(w)
    \/ WorkerPostsError(w) \/ NewTestFailedUnset(w)
    \/ FreeTest(w) \/ WorkerUnset(w) \/ PostEnd(w)

----------------------------------------------------------------------------
(* The main queue                                                          *)

FirstBlock(kind) == mainQueue # <<>> /\ Head(mainQueue).kind = kind

\* The block of the JSON callback: postLog, which posts another block.
RunJson ==
    /\ FirstBlock("json")
    /\ mainQueue' = Append(Tail(mainQueue), [kind |-> "line", from |-> Head(mainQueue).from])
    /\ UNCHANGED <<jsVars, port, fields, worker, serverVars>>

\* The block of postLog: the line goes to whatever _onLog is now.
RunLine ==
    /\ FirstBlock("line")
    /\ mainQueue' = Tail(mainQueue)
    /\ UNCHANGED <<jsVars, port, fields, worker, serverVars>>

RunEnd ==
    /\ FirstBlock("end")
    /\ mainQueue' = Tail(mainQueue)
    /\ currentRunner' = FALSE
    /\ UNCHANGED <<jsVars, port, isRunning, test, serverPort, onLog, worker, serverVars>>

MainStep == RunJson \/ RunLine \/ RunEnd

ClientStep(w) ==
    /\ ClientConnects(w)
    /\ UNCHANGED <<jsVars, port, fields, mainQueue, worker>>

Next ==
    \/ StartCalled \/ StopCalled \/ JsStep \/ MainStep
    \/ \E w \in Workers : WorkerStep(w) \/ JsonOutput(w) \/ ClientStep(w)

Spec == Init /\ [][Next]_vars

(* The JS thread, the main queue and the worker threads are scheduled; a    *)
(* pending connection of an idle server is accepted at some time.           *)
Fairness ==
    /\ WF_vars(JsStep)
    /\ WF_vars(MainStep)
    /\ \A w \in Workers :
        /\ WF_vars(WorkerStep(w))
        /\ SF_vars(ServeReturns(w))

FairSpec == Spec /\ Fairness

\* An application that starts a server only when the last one has ended and
\* the main queue has said so.
Polite ==
    js = "idle" /\ js' # "idle" /\ op' = "start" =>
        mainQueue = <<>> /\ \A w \in Workers : ~Live(w)

PoliteSpec == Init /\ [][Next /\ Polite]_vars
PoliteFairSpec == PoliteSpec /\ Fairness

----------------------------------------------------------------------------
(* What holds however start and stop are called.                           *)

\* IperfRunner.m:198: the test being interrupted is not freed meanwhile, and
\* it is still the one that _test names.
InterruptTarget ==
    lockHeld => local # None /\ HasTest(local) /\ test = local

\* _test never outlives the test it points to, although every worker clears
\* it without looking whose test it is.
TestNeverDangles == test # None => HasTest(test)

----------------------------------------------------------------------------
(* What the documentation and the comments say.  None of it holds for an    *)
(* application that starts a server while the last one is still ending.     *)

Serving(w) ==
    worker[w] \in {"new", "publish", "defaults", "loop", "serve", "returned", "failed", "log",
                   "newfail", "newfailed", "free", "unset"}

\* README.md:67, isRunning() "Returns whether an iperf server is currently
\* running": no worker accepts clients behind a FALSE, once start has returned.
IsRunningTells ==
    js = "idle" /\ op = "start" =>
        /\ (\E w \in Workers : at[w] = "select" /\ state[w] = "IPERF_START") => isRunning
        /\ isRunning => \E w \in Workers : Serving(w)

\* IperfRunner.m:88, "Non-blocking stop of any previous run": the run of an
\* earlier start does not serve again.
PreviousRunStops ==
    [][\A w \in Workers : worker[w] = "loop" /\ worker'[w] = "serve" => w = onLog]_vars

\* README.md:71, the log listener "Subscribes to log output from the iperf
\* server": the JSON callback of the server of the last start has a runner.
OutputIsHeard ==
    \A w \in Workers : HasTest(w) /\ w = onLog /\ js = "idle" => currentRunner

CallNow == IF js = "idle" THEN "none" ELSE op
LiveWorkers == {w \in Workers : Live(w)}
LinesPosted ==
    {<<mainQueue[i].from, onLog>> : i \in {j \in DOMAIN mainQueue : mainQueue[j].kind # "end"}}

Control == INSTANCE ServerControl
           WITH Servers <- Workers, StopWaits <- FALSE,
                call <- CallNow, running <- LiveWorkers, told <- isRunning,
                lines <- LinesPosted

\* start, stop, isRunning and the log listener are what ServerControl promises,
\* with a stop that does not wait, to an application that starts a server only
\* when the last one has ended and all its blocks were run.
ImplementsServerControl == Control!Spec

SessionsEnd ==
    \A w \in Workers : []<>(~session[w] /\ state[w] \notin Testing)

\* A stop that finds the only server listening on a known port ends it,
\* unless the application starts another one meanwhile.
NudgedServerEnds ==
    SessionsEnd =>
        \A w \in Workers :
            (/\ js = "mark" /\ test = w /\ listener[w] = "open" /\ port[w] > 0
             /\ \A v \in Workers \ {w} : ~Live(v))
            ~> (~Live(w) \/ op = "start")
=============================================================================
