-------------------------- MODULE IosRunnerProofs --------------------------
(***************************************************************************)
(* Proofs about IosRunner, for any set of workers that overlap in any way. *)
(* Several workers share the one pointer _test; PointerInv is why it is    *)
(* nevertheless never used after a free: whoever frees a test nulls the    *)
(* pointer under the lock, and stop holds the lock while it uses it.       *)
(***************************************************************************)
EXTENDS IosRunner, RunServerProofs, TLAPS

PointerInv ==
    /\ test # None => HasTest(test)
    /\ lockHeld => local = test /\ test # None
    /\ js \in {"current", "run", "port", "create"} => onLog # None /\ ~Live(onLog)

Inv == TypeOK /\ PointerInv

\* Every step of the system leaves the servers alone or operates on one.
LEMMA ServerTypesStep ==
    ASSUME Inv, [Next]_vars
    PROVE  ServerTypeOK'
<1>1. (\E w \in Workers : ServerOperation(w)) \/ UNCHANGED serverVars
  <2> USE NoneAssumption DEF ServerOperation
  <2>1. CASE InterruptMark BY <2>1 DEF InterruptMark, Inv, TypeOK
  <2>2. CASE InterruptNudge BY <2>2 DEF InterruptNudge
  <2>3. ASSUME NEW w \in Workers,
              SetDefaults(w) \/ LoopAgain(w) \/ ServeStep(w) \/ ServeReturns(w)
                \/ AfterServe(w) \/ FreeTest(w) \/ ClientStep(w)
       PROVE  ServerOperation(w) \/ UNCHANGED serverVars
    BY <2>3 DEF SetDefaults, LoopAgain, ServeStep, ServeReturns, AfterServe, FreeTest, ClientStep
  <2> QED BY <2>1, <2>2, <2>3, Zenon
     DEF Next, JsStep, MainStep, WorkerStep, vars, StartCalled, StopCalled, TestRunning,
         UnsetRunning, LeaveStop, SetOnLog, SetCurrentRunner, SetRunning, SetServerPort,
         CreateThread, NewTestSucceeds, NewTestFails, PublishTest, WorkerPostsError, JsonOutput,
         NewTestFailedUnset, WorkerUnset, PostEnd, RunJson, RunLine, RunEnd
<1> QED BY <1>1, ServerTypes, ServerTypesUnchanged DEF Inv, TypeOK

\* The main queue holds blocks, whatever is posted and run.
LEMMA PostTypes ==
    ASSUME mainQueue \in Seq(Blocks), NEW w \in Workers,
           NEW k \in {"json", "line", "end"}, Post(k, w)
    PROVE  mainQueue' \in Seq(Blocks)
<1>1. [kind |-> k, from |-> w] \in Blocks BY DEF Blocks
<1> QED BY <1>1 DEF Post

LEMMA QueueTypesStep ==
    ASSUME Inv, [Next]_vars
    PROVE  mainQueue' \in Seq(Blocks)
<1> USE DEF Inv, TypeOK
<1>1. ASSUME NEW w \in Workers, WorkerPostsError(w) \/ JsonOutput(w) \/ PostEnd(w)
      PROVE  mainQueue' \in Seq(Blocks)
  BY <1>1, PostTypes DEF WorkerPostsError, JsonOutput, PostEnd, PostLog
<1>2. CASE MainStep
  <2>1. mainQueue # <<>> BY <1>2 DEF MainStep, RunJson, RunLine, RunEnd, FirstBlock
  <2>2. Head(mainQueue) \in Blocks /\ Tail(mainQueue) \in Seq(Blocks) BY <2>1
  <2>3. [kind |-> "line", from |-> Head(mainQueue).from] \in Blocks BY <2>2 DEF Blocks
  <2>4. CASE RunJson BY ONLY <2>2, <2>3, <2>4 DEF RunJson
  <2>5. CASE RunLine BY ONLY <2>2, <2>5 DEF RunLine
  <2>6. CASE RunEnd BY ONLY <2>2, <2>6 DEF RunEnd
  <2> QED BY <1>2, <2>4, <2>5, <2>6 DEF MainStep
<1>3. CASE UNCHANGED mainQueue BY <1>3
<1> QED BY <1>1, <1>2, <1>3, Zenon
     DEF Next, JsStep, WorkerStep, ClientStep, vars, StartCalled, StopCalled, TestRunning,
         UnsetRunning, InterruptMark, InterruptNudge, LeaveStop, SetOnLog, SetCurrentRunner,
         SetRunning, SetServerPort, CreateThread, NewTestSucceeds, NewTestFails, PublishTest,
         SetDefaults, LoopAgain, ServeStep, ServeReturns, AfterServe, NewTestFailedUnset,
         FreeTest, WorkerUnset

THEOREM InvStep == Inv /\ [Next]_vars => Inv'
<1> SUFFICES ASSUME Inv, [Next]_vars
             PROVE  Inv'
  OBVIOUS
<1>0. ServerTypeOK' /\ mainQueue' \in Seq(Blocks) BY ServerTypesStep, QueueTypesStep
<1> USE <1>0, NoneAssumption, PortsAssumption
    DEF Inv, TypeOK, PointerInv, JsSteps, WorkerSteps, Live, HasTest, lockHeld, GoJs, GoWorker,
        jsVars, fields
<1>1. CASE StartCalled BY <1>1 DEF StartCalled
<1>2. CASE StopCalled BY <1>2 DEF StopCalled
<1>3. CASE TestRunning BY <1>3 DEF TestRunning
<1>4. CASE UnsetRunning BY <1>4 DEF UnsetRunning
<1>5. CASE InterruptMark BY <1>5 DEF InterruptMark
<1>6. CASE InterruptNudge BY <1>6 DEF InterruptNudge
<1>7. CASE LeaveStop BY <1>7 DEF LeaveStop
<1>8. ASSUME NEW w \in Workers, SetOnLog(w) PROVE Inv' BY <1>8 DEF SetOnLog, Unused
<1>9. CASE SetCurrentRunner BY <1>9 DEF SetCurrentRunner
<1>10. CASE SetRunning BY <1>10 DEF SetRunning
<1>11. CASE SetServerPort BY <1>11 DEF SetServerPort
<1>12. CASE CreateThread BY <1>12 DEF CreateThread
<1>13. CASE RunJson BY <1>13 DEF RunJson
<1>14. CASE RunLine BY <1>14 DEF RunLine
<1>15. CASE RunEnd
  <2>1. currentRunner' \in BOOLEAN BY <1>15 DEF RunEnd
  <2>2. UNCHANGED <<jsVars, port, isRunning, test, serverPort, onLog, worker, serverVars>>
    BY <1>15 DEF RunEnd
  <2> QED BY <2>1, <2>2
<1>16. ASSUME NEW w \in Workers, NewTestSucceeds(w) PROVE Inv' BY <1>16 DEF NewTestSucceeds
<1>17. ASSUME NEW w \in Workers, NewTestFails(w) PROVE Inv' BY <1>17 DEF NewTestFails
<1>18. ASSUME NEW w \in Workers, PublishTest(w) PROVE Inv' BY <1>18 DEF PublishTest
<1>19. ASSUME NEW w \in Workers, SetDefaults(w) PROVE Inv' BY <1>19 DEF SetDefaults
<1>20. ASSUME NEW w \in Workers, LoopAgain(w) PROVE Inv' BY <1>20 DEF LoopAgain
<1>21. ASSUME NEW w \in Workers, ServeStep(w) PROVE Inv' BY <1>21 DEF ServeStep
<1>22. ASSUME NEW w \in Workers, ServeReturns(w) PROVE Inv' BY <1>22 DEF ServeReturns
<1>23. ASSUME NEW w \in Workers, AfterServe(w) PROVE Inv' BY <1>23 DEF AfterServe
<1>24. ASSUME NEW w \in Workers, WorkerPostsError(w) PROVE Inv' BY <1>24 DEF WorkerPostsError
<1>25. ASSUME NEW w \in Workers, NewTestFailedUnset(w) PROVE Inv'
  <2>1. isRunning' \in BOOLEAN BY <1>25 DEF NewTestFailedUnset
  <2>2. worker' \in [Workers -> WorkerSteps] BY <1>25 DEF NewTestFailedUnset
  <2>3. port' \in [Workers -> Ports \cup {0}] BY <1>25 DEF NewTestFailedUnset
  <2>4. UNCHANGED <<js, op, local, test, serverPort, onLog, currentRunner>>
    BY <1>25 DEF NewTestFailedUnset
  <2>5. \A v \in Workers : (Live(v)' => Live(v)) /\ (HasTest(v) => HasTest(v)')
    BY <1>25 DEF NewTestFailedUnset
  <2>6. TypeOK' BY ONLY TypeOK, <1>0, <2>1, <2>2, <2>3, <2>4 DEF TypeOK
  <2>7. PointerInv' BY ONLY NoneAssumption, TypeOK, PointerInv, <2>4, <2>5 DEF PointerInv, TypeOK, lockHeld
  <2> QED BY <2>6, <2>7
<1>26. ASSUME NEW w \in Workers, FreeTest(w) PROVE Inv' BY <1>26 DEF FreeTest
<1>27. ASSUME NEW w \in Workers, WorkerUnset(w) PROVE Inv'
  <2>1. isRunning' \in BOOLEAN BY <1>27 DEF WorkerUnset
  <2>2. worker' \in [Workers -> WorkerSteps] BY <1>27 DEF WorkerUnset
  <2>3. port' \in [Workers -> Ports \cup {0}] BY <1>27 DEF WorkerUnset
  <2>4. UNCHANGED <<js, op, local, test, serverPort, onLog, currentRunner>>
    BY <1>27 DEF WorkerUnset
  <2>5. \A v \in Workers : (Live(v)' => Live(v)) /\ (HasTest(v) => HasTest(v)')
    BY <1>27 DEF WorkerUnset
  <2>6. TypeOK' BY ONLY TypeOK, <1>0, <2>1, <2>2, <2>3, <2>4 DEF TypeOK
  <2>7. PointerInv' BY ONLY NoneAssumption, TypeOK, PointerInv, <2>4, <2>5 DEF PointerInv, TypeOK, lockHeld
  <2> QED BY <2>6, <2>7
<1>28. ASSUME NEW w \in Workers, PostEnd(w) PROVE Inv' BY <1>28 DEF PostEnd
<1>29. ASSUME NEW w \in Workers, JsonOutput(w) PROVE Inv' BY <1>29 DEF JsonOutput
<1>30. ASSUME NEW w \in Workers, ClientStep(w) PROVE Inv' BY <1>30 DEF ClientStep
<1>31. CASE UNCHANGED vars BY <1>31 DEF vars
<1> QED BY <1>1, <1>2, <1>3, <1>4, <1>5, <1>6, <1>7, <1>8, <1>9, <1>10, <1>11, <1>12, <1>13,
       <1>14, <1>15, <1>16, <1>17, <1>18, <1>19, <1>20, <1>21, <1>22, <1>23, <1>24, <1>25,
       <1>26, <1>27, <1>28, <1>29, <1>30, <1>31 DEF Next, JsStep, MainStep, WorkerStep

THEOREM InvInit == Init => Inv
<1> SUFFICES ASSUME Init PROVE Inv
  OBVIOUS
<1>1. ServerTypeOK
  BY ONLY Init DEF Init, ServerInit, ServerTypeOK, Places, States, Listeners, Connections
<1>2. mainQueue \in Seq(Blocks) BY DEF Init
<1>3. TypeOK
  BY <1>1, <1>2, NoneAssumption, PortsAssumption DEF Init, TypeOK, JsSteps, WorkerSteps
<1>4. PointerInv BY DEF Init, PointerInv, lockHeld
<1> QED BY <1>3, <1>4 DEF Inv

\* The strengthened invariant holds in every reachable state.
THEOREM InvInvariant == Spec => []Inv
<1> QED BY InvInit, InvStep, PTL DEF Spec

\* Every field of the runner, the main queue and the servers keep their types.
THEOREM TypeCorrect == Spec => []TypeOK
<1>1. Inv => TypeOK BY DEF Inv
<1> QED BY <1>1, InvInvariant, PTL

\* _test is null or a test that is published and not freed, however many
\* workers overlap and clear it.
THEOREM PointerIsSafe == Spec => []TestNeverDangles
<1>1. Inv => TestNeverDangles BY DEF Inv, PointerInv, TestNeverDangles
<1> QED BY <1>1, InvInvariant, PTL

\* The test that stop interrupts is not freed while it does.
THEOREM InterruptSafe == Spec => []InterruptTarget
<1>1. Inv => InterruptTarget BY DEF Inv, PointerInv, InterruptTarget
<1> QED BY <1>1, InvInvariant, PTL

----------------------------------------------------------------------------
(* An application that waits for the end of the last server.               *)

\* Nothing of an earlier run is left while start works, so the only worker is that
\* of the last start, and no block that ends a run waits behind its back.
AloneInv ==
    /\ js \in {"onlog", "current", "run", "port", "create"} => op = "start"
    /\ js # "idle" /\ op = "start" => mainQueue = <<>> /\ \A w \in Workers : ~Live(w)
    /\ \A w \in Workers : Live(w) =>
          w = onLog /\ \A i \in DOMAIN mainQueue : mainQueue[i].kind # "end"

\* The runner is registered from start to the last block of its worker.
RunnerInv ==
    /\ js \in {"run", "port", "create"} => currentRunner = TRUE
    /\ \A w \in Workers : Live(w) => currentRunner = TRUE

\* _isRunning at the steps of the JS thread, against the worker.
RunningInv ==
    /\ js \in {"port", "create"} => isRunning = TRUE
    /\ js \in {"mark", "nudge", "return", "onlog", "current", "run"} => isRunning = FALSE
    /\ js = "idle" /\ op = "stop" => isRunning = FALSE
    /\ js = "idle" /\ op = "start" => \A w \in Workers : Serving(w) => isRunning = TRUE
    /\ js \notin {"port", "create"} /\ isRunning = TRUE => \E w \in Workers : Serving(w)

\* A worker is inside iperf_run_server at one step only.
PlaceInv == \A w \in Workers : at[w] # "out" => worker[w] = "serve"

PoliteInv == Inv /\ AloneInv /\ RunnerInv /\ RunningInv /\ PlaceInv

LEMMA AloneStep ==
    ASSUME PoliteInv, [Next /\ Polite]_vars
    PROVE  AloneInv'
<1> USE NoneAssumption
    DEF PoliteInv, AloneInv, Inv, TypeOK, PointerInv, WorkerSteps, Live, GoJs, GoWorker, Post,
        PostLog, FirstBlock, Polite, jsVars, fields
<1>1. CASE StartCalled
  <2>1. Polite BY <1>1 DEF StartCalled, vars
  <2> QED BY <1>1, <2>1 DEF StartCalled
<1>2. CASE StopCalled BY <1>2 DEF StopCalled
<1>3. CASE TestRunning BY <1>3 DEF TestRunning
<1>4. CASE UnsetRunning BY <1>4 DEF UnsetRunning
<1>5. CASE InterruptMark BY <1>5 DEF InterruptMark
<1>6. CASE InterruptNudge BY <1>6 DEF InterruptNudge
<1>7. CASE LeaveStop BY <1>7 DEF LeaveStop
<1>8. ASSUME NEW w \in Workers, SetOnLog(w) PROVE AloneInv' BY <1>8 DEF SetOnLog
<1>9. CASE SetCurrentRunner BY <1>9 DEF SetCurrentRunner
<1>10. CASE SetRunning BY <1>10 DEF SetRunning
<1>11. CASE SetServerPort BY <1>11 DEF SetServerPort
<1>12. CASE CreateThread BY <1>12 DEF CreateThread
<1>13. CASE RunJson BY <1>13 DEF RunJson
<1>14. CASE RunLine BY <1>14 DEF RunLine
<1>15. CASE RunEnd BY <1>15 DEF RunEnd
<1>16. ASSUME NEW w \in Workers, NewTestSucceeds(w) PROVE AloneInv' BY <1>16 DEF NewTestSucceeds
<1>17. ASSUME NEW w \in Workers, NewTestFails(w) PROVE AloneInv' BY <1>17 DEF NewTestFails
<1>18. ASSUME NEW w \in Workers, PublishTest(w) PROVE AloneInv' BY <1>18 DEF PublishTest
<1>19. ASSUME NEW w \in Workers, SetDefaults(w) PROVE AloneInv' BY <1>19 DEF SetDefaults
<1>20. ASSUME NEW w \in Workers, LoopAgain(w) PROVE AloneInv' BY <1>20 DEF LoopAgain
<1>21. ASSUME NEW w \in Workers, ServeStep(w) PROVE AloneInv' BY <1>21 DEF ServeStep
<1>22. ASSUME NEW w \in Workers, ServeReturns(w) PROVE AloneInv' BY <1>22 DEF ServeReturns
<1>23. ASSUME NEW w \in Workers, AfterServe(w) PROVE AloneInv' BY <1>23 DEF AfterServe
<1>24. ASSUME NEW w \in Workers, WorkerPostsError(w) PROVE AloneInv'
  <2>1. mainQueue' = mainQueue \/ mainQueue' = Append(mainQueue, [kind |-> "line", from |-> w])
    BY <1>24 DEF WorkerPostsError
  <2>2. \A v \in Workers : Live(v)' => Live(v) BY <1>24 DEF WorkerPostsError
  <2>3. Live(w) BY <1>24 DEF WorkerPostsError
  <2>4. \A i \in DOMAIN mainQueue' : mainQueue'[i].kind # "end"
    BY <2>1, <2>3
  <2>5. UNCHANGED <<js, op, onLog>> BY <1>24 DEF WorkerPostsError
  <2>6. js # "idle" => op # "start" BY <2>3
  <2> QED BY <2>2, <2>4, <2>5, <2>6
<1>25. ASSUME NEW w \in Workers, NewTestFailedUnset(w) PROVE AloneInv' BY <1>25 DEF NewTestFailedUnset
<1>26. ASSUME NEW w \in Workers, FreeTest(w) PROVE AloneInv' BY <1>26 DEF FreeTest
<1>27. ASSUME NEW w \in Workers, WorkerUnset(w) PROVE AloneInv' BY <1>27 DEF WorkerUnset
<1>28. ASSUME NEW w \in Workers, PostEnd(w) PROVE AloneInv' BY <1>28 DEF PostEnd
<1>29. ASSUME NEW w \in Workers, JsonOutput(w) PROVE AloneInv' BY <1>29 DEF JsonOutput
<1>30. ASSUME NEW w \in Workers, ClientStep(w) PROVE AloneInv' BY <1>30 DEF ClientStep
<1>31. CASE UNCHANGED vars BY <1>31 DEF vars
<1> QED BY <1>1, <1>2, <1>3, <1>4, <1>5, <1>6, <1>7, <1>8, <1>9, <1>10, <1>11, <1>12,
       <1>13, <1>14, <1>15, <1>16, <1>17, <1>18, <1>19, <1>20, <1>21, <1>22, <1>23, <1>24,
       <1>25, <1>26, <1>27, <1>28, <1>29, <1>30, <1>31
     DEF Next, JsStep, MainStep, WorkerStep

LEMMA RunnerStep ==
    ASSUME PoliteInv, [Next /\ Polite]_vars
    PROVE  RunnerInv'
<1> USE NoneAssumption
    DEF PoliteInv, AloneInv, RunnerInv, Inv, TypeOK, PointerInv, WorkerSteps, Live, GoJs, GoWorker,
        FirstBlock, jsVars, fields
<1>1. CASE StartCalled BY <1>1 DEF StartCalled
<1>2. CASE StopCalled BY <1>2 DEF StopCalled
<1>3. CASE TestRunning BY <1>3 DEF TestRunning
<1>4. CASE UnsetRunning BY <1>4 DEF UnsetRunning
<1>5. CASE InterruptMark BY <1>5 DEF InterruptMark
<1>6. CASE InterruptNudge BY <1>6 DEF InterruptNudge
<1>7. CASE LeaveStop BY <1>7 DEF LeaveStop
<1>8. ASSUME NEW w \in Workers, SetOnLog(w) PROVE RunnerInv' BY <1>8 DEF SetOnLog
<1>9. CASE SetCurrentRunner BY <1>9 DEF SetCurrentRunner
<1>10. CASE SetRunning BY <1>10 DEF SetRunning
<1>11. CASE SetServerPort BY <1>11 DEF SetServerPort
<1>12. CASE CreateThread BY <1>12 DEF CreateThread
<1>13. CASE RunJson BY <1>13 DEF RunJson
<1>14. CASE RunLine BY <1>14 DEF RunLine
<1>15. CASE RunEnd BY <1>15 DEF RunEnd
<1>16. ASSUME NEW w \in Workers, NewTestSucceeds(w) PROVE RunnerInv' BY <1>16 DEF NewTestSucceeds
<1>17. ASSUME NEW w \in Workers, NewTestFails(w) PROVE RunnerInv' BY <1>17 DEF NewTestFails
<1>18. ASSUME NEW w \in Workers, PublishTest(w) PROVE RunnerInv' BY <1>18 DEF PublishTest
<1>19. ASSUME NEW w \in Workers, SetDefaults(w) PROVE RunnerInv' BY <1>19 DEF SetDefaults
<1>20. ASSUME NEW w \in Workers, LoopAgain(w) PROVE RunnerInv' BY <1>20 DEF LoopAgain
<1>21. ASSUME NEW w \in Workers, ServeStep(w) PROVE RunnerInv' BY <1>21 DEF ServeStep
<1>22. ASSUME NEW w \in Workers, ServeReturns(w) PROVE RunnerInv' BY <1>22 DEF ServeReturns
<1>23. ASSUME NEW w \in Workers, AfterServe(w) PROVE RunnerInv' BY <1>23 DEF AfterServe
<1>24. ASSUME NEW w \in Workers, WorkerPostsError(w) PROVE RunnerInv' BY <1>24 DEF WorkerPostsError
<1>25. ASSUME NEW w \in Workers, NewTestFailedUnset(w) PROVE RunnerInv' BY <1>25 DEF NewTestFailedUnset
<1>26. ASSUME NEW w \in Workers, FreeTest(w) PROVE RunnerInv' BY <1>26 DEF FreeTest
<1>27. ASSUME NEW w \in Workers, WorkerUnset(w) PROVE RunnerInv' BY <1>27 DEF WorkerUnset
<1>28. ASSUME NEW w \in Workers, PostEnd(w) PROVE RunnerInv' BY <1>28 DEF PostEnd
<1>29. ASSUME NEW w \in Workers, JsonOutput(w) PROVE RunnerInv' BY <1>29 DEF JsonOutput
<1>30. ASSUME NEW w \in Workers, ClientStep(w) PROVE RunnerInv' BY <1>30 DEF ClientStep
<1>31. CASE UNCHANGED vars BY <1>31 DEF vars
<1> QED BY <1>1, <1>2, <1>3, <1>4, <1>5, <1>6, <1>7, <1>8, <1>9, <1>10, <1>11, <1>12,
       <1>13, <1>14, <1>15, <1>16, <1>17, <1>18, <1>19, <1>20, <1>21, <1>22, <1>23, <1>24,
       <1>25, <1>26, <1>27, <1>28, <1>29, <1>30, <1>31
     DEF Next, JsStep, MainStep, WorkerStep

LEMMA RunningStep ==
    ASSUME PoliteInv, [Next /\ Polite]_vars
    PROVE  RunningInv'
<1> USE NoneAssumption
    DEF PoliteInv, AloneInv, RunningInv, Inv, TypeOK, PointerInv, WorkerSteps, Live, Serving, GoJs,
        GoWorker, jsVars, fields
<1>1. CASE StartCalled BY <1>1 DEF StartCalled
<1>2. CASE StopCalled BY <1>2 DEF StopCalled
<1>3. CASE TestRunning BY <1>3 DEF TestRunning
<1>4. CASE UnsetRunning BY <1>4 DEF UnsetRunning
<1>5. CASE InterruptMark BY <1>5 DEF InterruptMark
<1>6. CASE InterruptNudge BY <1>6 DEF InterruptNudge
<1>7. CASE LeaveStop BY <1>7 DEF LeaveStop
<1>8. ASSUME NEW w \in Workers, SetOnLog(w) PROVE RunningInv' BY <1>8 DEF SetOnLog
<1>9. CASE SetCurrentRunner BY <1>9 DEF SetCurrentRunner
<1>10. CASE SetRunning BY <1>10 DEF SetRunning
<1>11. CASE SetServerPort BY <1>11 DEF SetServerPort
<1>12. CASE CreateThread BY <1>12 DEF CreateThread
<1>13. CASE RunJson BY <1>13 DEF RunJson
<1>14. CASE RunLine BY <1>14 DEF RunLine
<1>15. CASE RunEnd BY <1>15 DEF RunEnd
<1>16. ASSUME NEW w \in Workers, NewTestSucceeds(w) PROVE RunningInv' BY <1>16 DEF NewTestSucceeds
<1>17. ASSUME NEW w \in Workers, NewTestFails(w) PROVE RunningInv' BY <1>17 DEF NewTestFails
<1>18. ASSUME NEW w \in Workers, PublishTest(w) PROVE RunningInv' BY <1>18 DEF PublishTest
<1>19. ASSUME NEW w \in Workers, SetDefaults(w) PROVE RunningInv' BY <1>19 DEF SetDefaults
<1>20. ASSUME NEW w \in Workers, LoopAgain(w) PROVE RunningInv' BY <1>20 DEF LoopAgain
<1>21. ASSUME NEW w \in Workers, ServeStep(w) PROVE RunningInv' BY <1>21 DEF ServeStep
<1>22. ASSUME NEW w \in Workers, ServeReturns(w) PROVE RunningInv' BY <1>22 DEF ServeReturns
<1>23. ASSUME NEW w \in Workers, AfterServe(w) PROVE RunningInv' BY <1>23 DEF AfterServe
<1>24. ASSUME NEW w \in Workers, WorkerPostsError(w) PROVE RunningInv' BY <1>24 DEF WorkerPostsError
<1>25. ASSUME NEW w \in Workers, NewTestFailedUnset(w) PROVE RunningInv' BY <1>25 DEF NewTestFailedUnset
<1>26. ASSUME NEW w \in Workers, FreeTest(w) PROVE RunningInv' BY <1>26 DEF FreeTest
<1>27. ASSUME NEW w \in Workers, WorkerUnset(w) PROVE RunningInv' BY <1>27 DEF WorkerUnset
<1>28. ASSUME NEW w \in Workers, PostEnd(w) PROVE RunningInv' BY <1>28 DEF PostEnd
<1>29. ASSUME NEW w \in Workers, JsonOutput(w) PROVE RunningInv' BY <1>29 DEF JsonOutput
<1>30. ASSUME NEW w \in Workers, ClientStep(w) PROVE RunningInv' BY <1>30 DEF ClientStep
<1>31. CASE UNCHANGED vars BY <1>31 DEF vars
<1> QED BY <1>1, <1>2, <1>3, <1>4, <1>5, <1>6, <1>7, <1>8, <1>9, <1>10, <1>11, <1>12,
       <1>13, <1>14, <1>15, <1>16, <1>17, <1>18, <1>19, <1>20, <1>21, <1>22, <1>23, <1>24,
       <1>25, <1>26, <1>27, <1>28, <1>29, <1>30, <1>31
     DEF Next, JsStep, MainStep, WorkerStep

LEMMA PlaceStep ==
    ASSUME PoliteInv, [Next /\ Polite]_vars
    PROVE  PlaceInv'
<1> USE NoneAssumption DEF PoliteInv, PlaceInv, Inv, TypeOK, ServerTypeOK, GoJs, GoWorker
<1>1. ASSUME NEW w \in Workers, ServeStep(w) PROVE PlaceInv'
  <2>1. \A v \in Workers \ {w} : at'[v] = at[v]
    BY <1>1
    DEF ServeStep, Advance, Listen, ListenFails, Arm, LoopTest, AcceptShut, AcceptClient, PassOverListener,
        AcceptFails, AcceptDenied, SessionStores, SessionMessage, SessionFails, SelectTimeout,
        CloseListener, Reopen, ReopenFails
  <2> QED BY <1>1, <2>1 DEF ServeStep
<1>2. ASSUME NEW w \in Workers, ServeReturns(w) PROVE PlaceInv'
  BY <1>2 DEF ServeReturns, Return
<1>3. ASSUME NEW w \in Workers, LoopAgain(w) PROVE PlaceInv' BY <1>3 DEF LoopAgain, Call, serverVars
<1>4. ASSUME at' = at, \A v \in Workers : worker[v] = "serve" => worker'[v] = "serve"
      PROVE  PlaceInv'
  BY <1>4
<1>5. CASE StartCalled \/ StopCalled \/ JsStep \/ MainStep
  <2>1. at' = at
    BY <1>5 DEF serverVars, JsStep, MainStep, StartCalled, StopCalled, TestRunning, UnsetRunning,
         InterruptMark, MarkDone, InterruptNudge, Nudge, LeaveStop, SetOnLog, SetCurrentRunner,
         SetRunning, SetServerPort, CreateThread, RunJson, RunLine, RunEnd
  <2>2. worker' = worker \/ CreateThread
    BY <1>5 DEF JsStep, MainStep, StartCalled, StopCalled, TestRunning, UnsetRunning,
         InterruptMark, InterruptNudge, LeaveStop, SetOnLog, SetCurrentRunner,
         SetRunning, SetServerPort, RunJson, RunLine, RunEnd
  <2>3. CASE CreateThread BY <2>1, <2>3 DEF CreateThread, PointerInv, Live
  <2> QED BY <1>4, <2>1, <2>2, <2>3
<1>6. ASSUME NEW w \in Workers, WorkerStep(w) \/ JsonOutput(w) \/ ClientStep(w),
             ~ServeStep(w), ~ServeReturns(w), ~LoopAgain(w)
      PROVE  PlaceInv'
  <2>1. at' = at
    BY <1>6 DEF serverVars, WorkerStep, JsonOutput, ClientStep, ClientConnects, NewTestSucceeds,
         NewTestFails, PublishTest, SetDefaults, Defaults, AfterServe, ResetTest,
         WorkerPostsError, NewTestFailedUnset, FreeTest, FreeFields, WorkerUnset, PostEnd
  <2>2. worker' = worker \/ (worker[w] # "serve" /\ \A v \in Workers \ {w} : worker'[v] = worker[v])
    BY <1>6 DEF WorkerStep, JsonOutput, ClientStep, NewTestSucceeds,
         NewTestFails, PublishTest, SetDefaults, AfterServe,
         WorkerPostsError, NewTestFailedUnset, FreeTest, WorkerUnset, PostEnd
  <2> QED BY <1>4, <2>1, <2>2
<1>7. CASE UNCHANGED vars BY <1>7 DEF vars, serverVars
<1> QED BY <1>1, <1>2, <1>3, <1>5, <1>6, <1>7 DEF Next

LEMMA PoliteInvariant == PoliteSpec => []PoliteInv
<1>1. ASSUME Init PROVE PoliteInv
  <2>1. Inv BY <1>1, InvInit
  <2> QED BY <1>1, <2>1 DEF Init, ServerInit, PoliteInv, AloneInv, RunnerInv, RunningInv, PlaceInv,
                            Live, Serving
<1>2. ASSUME PoliteInv, [Next /\ Polite]_vars PROVE PoliteInv'
  <2>1. Inv' BY <1>2, InvStep DEF PoliteInv
  <2> QED BY <1>2, <2>1, AloneStep, RunnerStep, RunningStep, PlaceStep DEF PoliteInv
<1> QED BY <1>1, <1>2, PTL DEF PoliteSpec

\* isRunning() tells an application that starts a server only after the end of the
\* last one whether a server accepts its clients.
THEOREM IsRunningIsTrue == PoliteSpec => []IsRunningTells
<1>1. ASSUME PoliteInv PROVE IsRunningTells
  <2>1. \A w \in Workers : at[w] = "select" => Serving(w)
    BY <1>1 DEF PoliteInv, PlaceInv, Serving
  <2>2. isRunning \in BOOLEAN BY <1>1 DEF PoliteInv, Inv, TypeOK
  <2> QED BY <1>1, <2>1, <2>2 DEF PoliteInv, RunningInv, IsRunningTells
<1> QED BY <1>1, PoliteInvariant, PTL

\* The output of such an application's server reaches its listener: the last block
\* of the run before does not unregister the runner that start has just registered.
THEOREM OutputReachesListener == PoliteSpec => []OutputIsHeard
<1>1. ASSUME PoliteInv PROVE OutputIsHeard
  <2>1. \A w \in Workers : HasTest(w) => Live(w) BY DEF HasTest, Live
  <2> QED BY <1>1, <2>1 DEF PoliteInv, RunnerInv, OutputIsHeard
<1> QED BY <1>1, PoliteInvariant, PTL

----------------------------------------------------------------------------
(* For such an application the runner implements ServerControl.            *)

\* What the application can see of a step.
SameCall == CallNow' = CallNow
SameServers == LiveWorkers' = LiveWorkers
SameLines == LinesPosted' = LinesPosted
ControlVars == <<CallNow, LiveWorkers, isRunning, LinesPosted>>

\* A step that the application does not see is a stutter.
LEMMA Unseen ==
    ASSUME SameCall, SameServers, UNCHANGED isRunning, SameLines
    PROVE  [Control!Next]_ControlVars
BY DEF SameCall, SameServers, SameLines, ControlVars

LEMMA ServersUnchanged ==
    ASSUME \A w \in Workers : Live(w)' <=> Live(w)
    PROVE  SameServers
<1>1. LiveWorkers' = {w \in Workers : Live(w)'} BY DEF LiveWorkers
<1> QED BY <1>1 DEF SameServers, LiveWorkers

LEMMA LinesUnchanged == ASSUME UNCHANGED mainQueue, UNCHANGED onLog PROVE SameLines
BY DEF SameLines, LinesPosted

\* A worker whose thread ends leaves the set of servers.
LEMMA ServerEnds ==
    ASSUME NEW w \in Workers, Live(w), \A v \in Workers : Live(v)' <=> Live(v) /\ v # w
    PROVE  w \in LiveWorkers /\ LiveWorkers' = LiveWorkers \ {w}
<1>1. LiveWorkers' = {v \in Workers : Live(v)'} BY DEF LiveWorkers
<1> QED BY <1>1 DEF LiveWorkers

\* What posting a block, and taking the first one, do to the lines that wait.
LEMMA PostAddsLine ==
    ASSUME mainQueue \in Seq(Blocks), UNCHANGED onLog, NEW w \in Workers, NEW k \in {"json", "line"},
           Post(k, w)
    PROVE  LinesPosted' = LinesPosted \cup {<<w, onLog>>}
<1> DEFINE b == [kind |-> k, from |-> w]
           N == Len(mainQueue)
<1>1. b \in Blocks /\ b.kind # "end" /\ b.from = w BY DEF Blocks
<1>2. /\ mainQueue' = Append(mainQueue, b) /\ N \in Nat
      /\ DOMAIN mainQueue = 1..N /\ DOMAIN mainQueue' = 1..(N + 1)
      /\ mainQueue'[N + 1] = b /\ \A i \in 1..N : mainQueue'[i] = mainQueue[i]
  BY <1>1 DEF Post
<1> HIDE DEF b, N
<1>3. LinesPosted' = {<<mainQueue'[i].from, onLog>> :
                          i \in {j \in 1..(N + 1) : mainQueue'[j].kind # "end"}}
  BY <1>2 DEF LinesPosted
<1>4. LinesPosted = {<<mainQueue[i].from, onLog>> : i \in {j \in 1..N : mainQueue[j].kind # "end"}}
  BY <1>2 DEF LinesPosted
<1>5. 1..(N + 1) = 1..N \cup {N + 1} BY <1>2
<1> QED BY <1>1, <1>2, <1>3, <1>4, <1>5

LEMMA PostEndAddsNone ==
    ASSUME mainQueue \in Seq(Blocks), UNCHANGED onLog, NEW w \in Workers, Post("end", w)
    PROVE  SameLines
<1> DEFINE b == [kind |-> "end", from |-> w]
           N == Len(mainQueue)
<1>1. b \in Blocks /\ b.kind = "end" BY DEF Blocks
<1>2. /\ mainQueue' = Append(mainQueue, b) /\ N \in Nat
      /\ DOMAIN mainQueue = 1..N /\ DOMAIN mainQueue' = 1..(N + 1)
      /\ mainQueue'[N + 1] = b /\ \A i \in 1..N : mainQueue'[i] = mainQueue[i]
  BY <1>1 DEF Post
<1> HIDE DEF b, N
<1>3. LinesPosted' = {<<mainQueue'[i].from, onLog>> :
                          i \in {j \in 1..(N + 1) : mainQueue'[j].kind # "end"}}
  BY <1>2 DEF LinesPosted
<1>4. LinesPosted = {<<mainQueue[i].from, onLog>> : i \in {j \in 1..N : mainQueue[j].kind # "end"}}
  BY <1>2 DEF LinesPosted
<1>5. 1..(N + 1) = 1..N \cup {N + 1} BY <1>2
<1> QED BY <1>1, <1>2, <1>3, <1>4, <1>5 DEF SameLines

\* Another line of the same worker may still wait: then nothing is seen of it.
LEMMA RunTakesLine ==
    ASSUME mainQueue \in Seq(Blocks), mainQueue # <<>>, mainQueue' = Tail(mainQueue), UNCHANGED onLog
    PROVE  \/ SameLines
           \/ \E line \in LinesPosted : LinesPosted' = LinesPosted \ {line}
<1> DEFINE N == Len(mainQueue)
           line == <<mainQueue[1].from, onLog>>
<1>1. /\ N \in Nat \ {0} /\ DOMAIN mainQueue = 1..N /\ DOMAIN mainQueue' = 1..(N - 1)
      /\ \A i \in 1..(N - 1) : mainQueue'[i] = mainQueue[i + 1]
  OBVIOUS
<1> HIDE DEF N
<1>2. LinesPosted' = {<<mainQueue'[i].from, onLog>> :
                          i \in {j \in 1..(N - 1) : mainQueue'[j].kind # "end"}}
  BY <1>1 DEF LinesPosted
<1>3. LinesPosted = {<<mainQueue[i].from, onLog>> : i \in {j \in 1..N : mainQueue[j].kind # "end"}}
  BY <1>1 DEF LinesPosted
<1>4. LinesPosted' \subseteq LinesPosted
  <2>1. ASSUME NEW i \in 1..(N - 1), mainQueue'[i].kind # "end"
        PROVE  <<mainQueue'[i].from, onLog>> \in LinesPosted
    <3>1. i + 1 \in 1..N /\ mainQueue'[i] = mainQueue[i + 1] BY <1>1
    <3> QED BY <2>1, <3>1, <1>3
  <2> QED BY <2>1, <1>2
<1>5. LinesPosted \ {line} \subseteq LinesPosted'
  <2>1. ASSUME NEW i \in 1..N, mainQueue[i].kind # "end", i # 1
        PROVE  <<mainQueue[i].from, onLog>> \in LinesPosted'
    <3>1. i - 1 \in 1..(N - 1) /\ mainQueue'[i - 1] = mainQueue[i] BY <1>1, <2>1
    <3> QED BY <2>1, <3>1, <1>2
  <2> QED BY <2>1, <1>3
<1>6. CASE line \in LinesPosted' BY <1>4, <1>5, <1>6 DEF SameLines
<1>7. CASE line \notin LinesPosted'
  <2>1. LinesPosted' = LinesPosted \ {line} BY <1>4, <1>5, <1>7
  <2> QED BY <2>1, <1>6 DEF SameLines
<1> QED BY <1>6, <1>7

\* The first block holds no line when it ends a run.
LEMMA RunEndTakesNone ==
    ASSUME mainQueue \in Seq(Blocks), mainQueue # <<>>, Head(mainQueue).kind = "end",
           mainQueue' = Tail(mainQueue), UNCHANGED onLog
    PROVE  SameLines
<1> DEFINE N == Len(mainQueue)
<1>1. /\ N \in Nat \ {0} /\ DOMAIN mainQueue = 1..N /\ DOMAIN mainQueue' = 1..(N - 1)
      /\ mainQueue[1].kind = "end"
      /\ \A i \in 1..(N - 1) : mainQueue'[i] = mainQueue[i + 1]
  OBVIOUS
<1> HIDE DEF N
<1>2. LinesPosted' = {<<mainQueue'[i].from, onLog>> :
                          i \in {j \in 1..(N - 1) : mainQueue'[j].kind # "end"}}
  BY <1>1 DEF LinesPosted
<1>3. LinesPosted = {<<mainQueue[i].from, onLog>> : i \in {j \in 1..N : mainQueue[j].kind # "end"}}
  BY <1>1 DEF LinesPosted
<1>4. ASSUME NEW i \in 1..(N - 1), mainQueue'[i].kind # "end"
      PROVE  <<mainQueue'[i].from, onLog>> \in LinesPosted
  <2>1. i + 1 \in 1..N /\ mainQueue'[i] = mainQueue[i + 1] BY <1>1
  <2> QED BY <1>4, <2>1, <1>3
<1>5. ASSUME NEW i \in 1..N, mainQueue[i].kind # "end"
      PROVE  <<mainQueue[i].from, onLog>> \in LinesPosted'
  <2>1. i # 1 BY <1>1, <1>5
  <2>2. i - 1 \in 1..(N - 1) /\ mainQueue'[i - 1] = mainQueue[i] BY <1>1, <2>1
  <2> QED BY <1>5, <2>2, <1>2
<1> QED BY <1>2, <1>3, <1>4, <1>5 DEF SameLines

\* The block of the JSON callback hands its line on.
LEMMA RunJsonKeepsLine ==
    ASSUME mainQueue \in Seq(Blocks), RunJson
    PROVE  SameLines
<1> DEFINE N == Len(mainQueue)
           b == [kind |-> "line", from |-> mainQueue[1].from]
<1>0. mainQueue # <<>> /\ Head(mainQueue) = mainQueue[1] /\ Head(mainQueue) \in Blocks
      /\ UNCHANGED onLog /\ Head(mainQueue).kind = "json" /\ mainQueue' = Append(Tail(mainQueue), b)
  BY DEF RunJson, FirstBlock, fields
<1>1. b \in Blocks /\ b.kind # "end" /\ b.from = mainQueue[1].from /\ mainQueue[1].kind # "end"
  BY <1>0 DEF Blocks
<1>2. /\ N \in Nat \ {0} /\ DOMAIN mainQueue = 1..N /\ DOMAIN mainQueue' = 1..N
      /\ \A i \in 1..(N - 1) : mainQueue'[i] = mainQueue[i + 1]
      /\ mainQueue'[N] = b
  BY <1>0, <1>1
<1> HIDE DEF N, b
<1>3. LinesPosted' = {<<mainQueue'[i].from, onLog>> : i \in {j \in 1..N : mainQueue'[j].kind # "end"}}
  BY <1>0, <1>2 DEF LinesPosted
<1>4. LinesPosted = {<<mainQueue[i].from, onLog>> : i \in {j \in 1..N : mainQueue[j].kind # "end"}}
  BY <1>2 DEF LinesPosted
<1>5. ASSUME NEW i \in 1..N, mainQueue'[i].kind # "end"
      PROVE  <<mainQueue'[i].from, onLog>> \in LinesPosted
  <2>1. CASE i = N
    <3>1. 1 \in 1..N BY <1>2
    <3> QED BY <2>1, <3>1, <1>1, <1>2, <1>4
  <2>2. CASE i # N
    <3>1. i \in 1..(N - 1) /\ i + 1 \in 1..N BY <1>2, <2>2
    <3> QED BY <1>5, <3>1, <1>2, <1>4
  <2> QED BY <2>1, <2>2
<1>6. ASSUME NEW i \in 1..N, mainQueue[i].kind # "end"
      PROVE  <<mainQueue[i].from, onLog>> \in LinesPosted'
  <2>1. CASE i = 1
    <3>1. N \in 1..N BY <1>2
    <3> QED BY <2>1, <3>1, <1>1, <1>2, <1>3
  <2>2. CASE i # 1
    <3>1. i - 1 \in 1..(N - 1) /\ i - 1 \in 1..N BY <1>2, <2>2
    <3>2. mainQueue'[i - 1] = mainQueue[i] BY <3>1, <1>2
    <3> QED BY <1>6, <3>1, <3>2, <1>3
  <2> QED BY <2>1, <2>2
<1> QED BY <1>3, <1>4, <1>5, <1>6 DEF SameLines

\* The steps of the JS thread, of which the last one of start makes the worker.
LEMMA JsImplements ==
    ASSUME PoliteInv, StartCalled \/ StopCalled \/ JsStep
    PROVE  [Control!Next]_ControlVars
<1> USE NoneAssumption
<1>1. ASSUME NEW o \in {"start", "stop"}, js = "idle", js' # "idle", op' = o,
             UNCHANGED <<isRunning, onLog, mainQueue, worker>>
      PROVE  Control!Calls(o)
  BY <1>1, ServersUnchanged, LinesUnchanged
  DEF Control!Calls, CallNow, SameServers, SameLines, Live
<1>2. ASSUME js # "idle", js' # "idle", UNCHANGED <<op, onLog, mainQueue, worker>>
      PROVE  /\ SameCall /\ SameServers /\ SameLines
             /\ isRunning' = isRunning => [Control!Next]_ControlVars
  BY <1>2, ServersUnchanged, LinesUnchanged, Unseen DEF CallNow, SameCall, Live
<1>3. CASE CreateThread
  <2>1. op = "start" /\ mainQueue = <<>> /\ (\A v \in Workers : ~Live(v)) /\ onLog \in Workers
    BY <1>3 DEF CreateThread, GoJs, PoliteInv, AloneInv, Inv, TypeOK, PointerInv
  <2>2. LiveWorkers = {} /\ LinesPosted = {} BY <2>1 DEF LiveWorkers, LinesPosted
  <2>3. \A v \in Workers : Live(v)' <=> v = onLog
    BY <1>3, <2>1 DEF CreateThread, Live, PoliteInv, Inv, TypeOK
  <2>4. LiveWorkers' = {onLog}
    <3>1. LiveWorkers' = {v \in Workers : Live(v)'} BY DEF LiveWorkers
    <3> QED BY <3>1, <2>1, <2>3
  <2>5. CallNow = "start" /\ CallNow' = "none" /\ LinesPosted' = LinesPosted
    BY <1>3, <2>1, LinesUnchanged DEF CreateThread, GoJs, CallNow, SameLines, fields
  <2>6. isRunning = TRUE /\ UNCHANGED isRunning
    BY <1>3 DEF CreateThread, GoJs, PoliteInv, RunningInv, fields
  <2>7. Control!Begins(onLog) BY <2>2, <2>4, <2>5, <2>6 DEF Control!Begins, Control!Gone
  <2> QED BY <2>1, <2>7 DEF Control!Next
<1>4. CASE LeaveStop
  <2>1. /\ js # "idle" /\ UNCHANGED <<op, isRunning, onLog, mainQueue, worker>>
        /\ isRunning = FALSE
    BY <1>4 DEF LeaveStop, PoliteInv, RunningInv, fields
  <2>2. CASE js' = "idle"
    <3>1. SameServers /\ SameLines BY <2>1, ServersUnchanged, LinesUnchanged DEF Live
    <3>2. CallNow # "none" /\ CallNow' = "none"
      BY <2>1, <2>2 DEF CallNow, PoliteInv, Inv, TypeOK
    <3>3. Control!Returns BY <2>1, <3>1, <3>2 DEF Control!Returns, SameServers, SameLines
    <3> QED BY <3>3 DEF Control!Next
  <2> QED BY <1>2, <2>1, <2>2
<1>5. CASE StartCalled BY <1>5, <1>1 DEF StartCalled, GoJs, Control!Next, fields
<1>6. CASE StopCalled BY <1>6, <1>1 DEF StopCalled, GoJs, Control!Next, fields
<1>7. ASSUME NEW w \in Workers, SetOnLog(w)
      PROVE  [Control!Next]_ControlVars
  <2>1. op = "start" /\ mainQueue = <<>> BY <1>7 DEF SetOnLog, GoJs, PoliteInv, AloneInv
  <2>2. LinesPosted = {} /\ LinesPosted' = {} BY <1>7, <2>1 DEF SetOnLog, LinesPosted
  <2> QED BY <1>7, <2>2, ServersUnchanged, Unseen
      DEF SetOnLog, GoJs, CallNow, SameCall, SameLines, Live
<1>8. CASE TestRunning \/ InterruptMark \/ InterruptNudge \/ SetCurrentRunner \/ SetServerPort
  <2>1. js # "idle" /\ js' # "idle" /\ UNCHANGED <<op, isRunning, onLog, mainQueue, worker>>
    BY <1>8 DEF TestRunning, InterruptMark, InterruptNudge, SetCurrentRunner, SetServerPort,
       GoJs, fields
  <2> QED BY <1>2, <2>1
<1>9. CASE UnsetRunning
  <2>1. js # "idle" /\ js' # "idle" /\ UNCHANGED <<op, onLog, mainQueue, worker>> /\ isRunning' = FALSE
    BY <1>9 DEF UnsetRunning, GoJs
  <2>2. Control!Denies BY <2>1, <1>2 DEF Control!Denies, SameCall, SameServers, SameLines
  <2> QED BY <2>2 DEF Control!Next
<1>10. CASE SetRunning
  <2>1. /\ js = "run" /\ js' = "port" /\ op = "start" /\ UNCHANGED <<op, onLog, mainQueue, worker>>
        /\ isRunning' = TRUE /\ mainQueue = <<>> /\ \A w \in Workers : ~Live(w)
    BY <1>10 DEF SetRunning, GoJs, PoliteInv, AloneInv
  <2>2. LiveWorkers = {} /\ LinesPosted = {} /\ CallNow = "start"
    BY <2>1 DEF LiveWorkers, LinesPosted, CallNow
  <2>3. SameCall /\ SameServers /\ SameLines BY <2>1, <1>2
  <2>4. Control!Tells
    BY <2>1, <2>2, <2>3 DEF Control!Tells, Control!Gone, SameCall, SameServers, SameLines
  <2> QED BY <2>4 DEF Control!Next
<1> QED BY <1>3, <1>4, <1>5, <1>6, <1>7, <1>8, <1>9, <1>10 DEF JsStep

\* The steps of a worker: it posts a line, ends, or is not seen.
LEMMA WorkerImplements ==
    ASSUME PoliteInv, NEW w \in Workers, WorkerStep(w) \/ JsonOutput(w)
    PROVE  [Control!Next]_ControlVars
<1> USE NoneAssumption
<1>0. worker \in [Workers -> WorkerSteps] /\ mainQueue \in Seq(Blocks)
  BY DEF PoliteInv, Inv, TypeOK
<1>1. SameCall /\ UNCHANGED onLog
  <2>1. UNCHANGED jsVars /\ UNCHANGED onLog
    BY DEF WorkerStep, NewTestSucceeds, NewTestFails, PublishTest, SetDefaults, LoopAgain, ServeStep,
       ServeReturns, AfterServe, WorkerPostsError, NewTestFailedUnset, FreeTest, WorkerUnset, PostEnd,
       JsonOutput, fields
  <2> QED BY <2>1 DEF jsVars, SameCall, CallNow
<1>2. Live(w)
  BY <1>0 DEF WorkerStep, NewTestSucceeds, NewTestFails, PublishTest, SetDefaults, LoopAgain, ServeStep,
     ServeReturns, AfterServe, WorkerPostsError, NewTestFailedUnset, FreeTest, WorkerUnset, PostEnd,
     JsonOutput, GoWorker, Live
<1>3. w = onLog BY <1>2 DEF PoliteInv, AloneInv
<1>4. CASE WorkerPostsError(w) \/ JsonOutput(w)
  <2>1. \A v \in Workers : Live(v)' <=> Live(v)
    BY <1>0, <1>4 DEF WorkerPostsError, JsonOutput, GoWorker, Live
  <2>2. Post("line", w) \/ Post("json", w)
    BY <1>3, <1>4 DEF WorkerPostsError, JsonOutput, PostLog
  <2>3. LinesPosted' = LinesPosted \cup {<<w, w>>} BY <1>0, <1>1, <1>3, <2>2, PostAddsLine
  <2>4. w \in LiveWorkers BY <1>2 DEF LiveWorkers
  <2>5. UNCHANGED isRunning BY <1>4 DEF WorkerPostsError, JsonOutput, fields
  <2>6. Control!Prints(w)
    BY <1>1, <2>1, <2>3, <2>4, <2>5, ServersUnchanged DEF Control!Prints, SameCall, SameServers
  <2> QED BY <2>6 DEF Control!Next
<1>5. CASE PostEnd(w) \/ NewTestFailedUnset(w)
  <2>1. \A v \in Workers : Live(v)' <=> Live(v) /\ v # w
    BY <1>0, <1>2, <1>5 DEF PostEnd, NewTestFailedUnset, GoWorker, Live
  <2>2. SameLines
    BY <1>0, <1>1, <1>5, PostEndAddsNone, LinesUnchanged DEF PostEnd, NewTestFailedUnset
  <2>3. isRunning' = FALSE
    <3>1. CASE NewTestFailedUnset(w) BY <3>1 DEF NewTestFailedUnset
    <3>2. CASE PostEnd(w)
      <4>1. \A v \in Workers : Serving(v) => v = w
        BY <1>3 DEF PoliteInv, AloneInv, Serving, Live
      <4>2. ~Serving(w) BY <3>2 DEF PostEnd, GoWorker, Serving
      <4>3. js \notin {"port", "create"} BY <1>2 DEF PoliteInv, AloneInv
      <4>4. isRunning \in BOOLEAN /\ UNCHANGED isRunning
        BY <3>2 DEF PostEnd, PoliteInv, Inv, TypeOK, fields
      <4> QED BY <4>1, <4>2, <4>3, <4>4 DEF PoliteInv, RunningInv
    <3> QED BY <1>5, <3>1, <3>2
  <2>4. Control!Ends(w)
    BY <1>1, <1>2, <2>1, <2>2, <2>3, ServerEnds DEF Control!Ends, SameCall, SameLines
  <2> QED BY <2>4 DEF Control!Next
<1>6. ASSUME WorkerStep(w), ~WorkerPostsError(w), ~PostEnd(w), ~NewTestFailedUnset(w)
      PROVE  [Control!Next]_ControlVars
  <2>1. UNCHANGED mainQueue
    BY <1>6 DEF WorkerStep, NewTestSucceeds, NewTestFails, PublishTest, SetDefaults, LoopAgain,
       ServeStep, ServeReturns, AfterServe, FreeTest, WorkerUnset
  <2>2. \A v \in Workers : Live(v)' <=> Live(v)
    BY <1>0, <1>6 DEF WorkerStep, NewTestSucceeds, NewTestFails, PublishTest, SetDefaults, LoopAgain,
       ServeStep, ServeReturns, AfterServe, FreeTest, WorkerUnset, GoWorker, Live
  <2>3. SameServers /\ SameLines BY <1>1, <2>1, <2>2, LinesUnchanged, ServersUnchanged
  <2>4. CASE UNCHANGED isRunning BY <1>1, <2>3, <2>4, Unseen
  <2>5. CASE isRunning' = FALSE
    <3>1. Control!Denies BY <1>1, <2>3, <2>5 DEF Control!Denies, SameCall, SameServers, SameLines
    <3> QED BY <3>1 DEF Control!Next
  <2>6. UNCHANGED isRunning \/ isRunning' = FALSE
    BY <1>6 DEF WorkerStep, NewTestSucceeds, NewTestFails, PublishTest, SetDefaults, LoopAgain,
       ServeStep, ServeReturns, AfterServe, FreeTest, WorkerUnset, fields
  <2> QED BY <2>4, <2>5, <2>6
<1> QED BY <1>4, <1>5, <1>6 DEF WorkerStep

\* The blocks of the main queue: a line is handed on, then delivered.
LEMMA MainImplements ==
    ASSUME PoliteInv, MainStep
    PROVE  [Control!Next]_ControlVars
<1>1. mainQueue \in Seq(Blocks) BY DEF PoliteInv, Inv, TypeOK
<1>2. SameCall /\ SameServers /\ UNCHANGED <<isRunning, onLog>>
  <2>1. UNCHANGED <<js, op, isRunning, onLog, worker>>
    BY DEF MainStep, RunJson, RunLine, RunEnd, jsVars, fields
  <2> QED BY <2>1, ServersUnchanged DEF SameCall, CallNow, Live
<1>3. CASE RunJson BY <1>1, <1>2, <1>3, RunJsonKeepsLine, Unseen
<1>4. CASE RunEnd BY <1>1, <1>2, <1>4, RunEndTakesNone, Unseen DEF RunEnd, FirstBlock
<1>5. CASE RunLine
  <2>1. SameLines \/ \E line \in LinesPosted : LinesPosted' = LinesPosted \ {line}
    BY <1>1, <1>2, <1>5, RunTakesLine DEF RunLine, FirstBlock
  <2>2. ASSUME NEW line \in LinesPosted, LinesPosted' = LinesPosted \ {line}
        PROVE  Control!Delivered
    BY <1>2, <2>2 DEF Control!Delivered, SameCall, SameServers
  <2> QED BY <1>2, <2>1, <2>2, Unseen DEF Control!Next
<1> QED BY <1>3, <1>4, <1>5 DEF MainStep

\* start, stop and the log listener keep the promise of ServerControl to an
\* application that starts a server only after the end of the last one.
THEOREM ServerIsControlled == PoliteSpec => ImplementsServerControl
<1>1. Init => Control!Init
  <2> SUFFICES ASSUME Init PROVE Control!Init
    OBVIOUS
  <2>1. LiveWorkers = {} BY DEF Init, LiveWorkers, Live
  <2>2. LinesPosted = {} BY DEF Init, LinesPosted
  <2> QED BY <2>1, <2>2 DEF Init, Control!Init, Control!Gone, CallNow
<1>2. PoliteInv /\ [Next /\ Polite]_vars => [Control!Next]_ControlVars
  <2> SUFFICES ASSUME PoliteInv, [Next /\ Polite]_vars
               PROVE  [Control!Next]_ControlVars
    OBVIOUS
  <2>1. ASSUME NEW w \in Workers, ClientStep(w)
        PROVE  [Control!Next]_ControlVars
    BY <2>1, ServersUnchanged, LinesUnchanged, Unseen
    DEF ClientStep, jsVars, fields, CallNow, SameCall, Live
  <2>2. CASE UNCHANGED vars
    BY <2>2, ServersUnchanged, LinesUnchanged, Unseen DEF vars, jsVars, fields, CallNow, SameCall, Live
  <2> QED BY <2>1, <2>2, JsImplements, WorkerImplements, MainImplements DEF Next
<1> QED BY <1>1, <1>2, PoliteInvariant, PTL
     DEF PoliteSpec, ImplementsServerControl, Control!Spec, Control!vars, ControlVars
=============================================================================
