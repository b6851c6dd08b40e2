# expo-iperf in TLA+

expo-iperf is an Expo module that runs an iperf3 server inside a mobile
application. JavaScript calls `start`, `stop` and `isRunning`; on Android a JNI
bridge and on iOS an Objective-C runner put `iperf_run_server` on a thread of
its own, wake it up when it is to stop, and carry its output back to a listener.
iperf3 itself (C, about 17 000 lines) is vendored twice, with identical sources
apart from `iperf_config.h`, so a definition may name its lines in either copy: the
session and the timers name the Android one, what the two builds share with the iOS
runner and the data path the iOS one.

This directory holds TLA+ modules for those parts whose correctness depends on
the order of things, TLC configurations that check them on small instances, and
TLAPS proofs of what matters most.

    tlc -workers 2 -config AndroidBridge.cfg MCAndroidRunner
    tlapm AndroidRunnerProofs.tla

Line numbers refer to `src/`. `SRV`, `CLI`, `API`, `TMR`, `UDP` stand for
`iperf_server_api.c`, `iperf_client_api.c`, `iperf_api.c`, `timer.c` and
`iperf_udp.c` under `android/src/main/cpp/iperf3/src/` or, with the same line
numbers, `ios/iperf3/src/`.

## 1. Inventory

| Part | State it keeps | Operations | Talks to |
|---|---|---|---|
| JavaScript API (`src/src/*.ts`) | none | start, stop, isRunning, listeners | the native module, on one JS thread |
| Android bridge (`iperf_jni.cpp`, `IperfRunner.kt`, `ExpoIperfModule.kt`) | the globals `g_isRunning`, `g_test`, `g_thread`, `g_threadValid`, `g_callback`, `g_server_port`; two mutexes | start (stop + join first), stop (interrupt, join), the worker | iperf3, the log and state listeners |
| iOS runner (`IperfRunner.m`, `ExpoIperfModule.swift`) | `_isRunning`, `_test`, `_serverPort`, `_onLog`, `s_currentRunner`; one lock; the main queue | start, stop (does not wait), the worker | iperf3, the main queue, the log listener |
| iperf server (`SRV`) | `struct iperf_test`: `state`, `done`, `listener`, `ctrl_sck`, `read_set`, the stream list, timers | `iperf_run_server`: listen, accept, handshake, control messages, stream creation, test, cleanup | clients, the stream threads, the timers, and the embedder that interrupts it |
| iperf client (`CLI`) | the same struct at the other end | `iperf_run_client` | the server; not run by the two apps, but the only program their server serves |
| Control channel (`API` 1923-2912, `net.c`) | two byte streams per client | one-byte states, length-prefixed JSON | both ends |
| Test parameters (`API` 2227-2522, 3086-3486) | the fields of `struct iperf_test` and its settings, kept from test to test | defaults, send, get, reset | the control channel, stream creation |
| Timers (`TMR`, `SRV` 319-445, 506-526) | two process-wide linked lists; four handles in the test | create, run, reset, cancel | the server's loop |
| Streams and statistics (`API` 3466-3649, 4575-4837) | `struct iperf_stream`, its results and interval list | create, count, report, reset, free | stream threads, results exchange |
| Rate limit, throttle (`API` 1942-2054) | a ring buffer of intervals; green lights | check | statistics callback, stream threads |
| TCP and UDP streams (`iperf_tcp.c`, `iperf_udp.c`) | sockets; packet counters | listen, accept, connect, send, recv | stream creation and threads |

Printing, conversion (units, DSCP, locale, errors), the JSON library, `main.c`
and the `t_*.c` programs keep no state of interest or are not built;
`iperf_sctp.c` and `iperf_auth.c` are compiled to nothing because neither
`iperf_config.h` enables SCTP or OpenSSL. `PROJECT.json` lists every part with
its status.

What is hard here:

* **The stop.** `iperf_run_server` has no cancellation. The bridge writes
  `done` and `state` from another thread, shuts the listening socket, and
  connects to it over the loopback interface. `state` is also where the server
  keeps the protocol phase, so the stop can be overwritten: by `IPERF_START`
  before the loop and by every control message after that.
* **Lifetimes.** A test is freed by its worker while `stop` may be using it; a
  thread handle is copied, then joined without a lock; a callback is replaced
  while lines are on the way to it. On iOS nothing is joined at all, so several
  workers share one runner.
* **The protocol.** Both ends write the state; states and JSON share a
  connection with nothing to tell them apart; streams are paired by the order in
  which they connect; a second client may come at any time; any peer may die.
* **The timers.** Callbacks cancel and reset timers of the list that is being
  walked; handles go stale when a one-shot timer frees itself; the list outlives
  the test its timers point to.
* **Counting.** Stream threads add to counters that the reporting thread reads
  and zeroes without a lock; lost and late datagrams correct each other; the four
  numbers of a stream's report are taken at four moments.
* **Successive tests.** One struct serves client after client. What a test that was
  aborted leaves in it, or on the network, meets the next one.
* **UDP streams.** They are made by one datagram each way, and neither is repeated.

What makes each part correct, in words (the names of the properties follow in
section 4): at most one Android server, no use of a freed test, nothing left
after `stop` has returned, `isRunning` truthful; on iOS no dangling `_test` and,
for an application that waits between runs, the same promises; in a session, two
ends that agree on what comes next, on the state, on the pairing of streams and
on the result, one client at a time, and no wait without end; for the timers, a
sorted list, every cell in one place, no stale handle, nothing left after a test;
for a stream, losses that happened and no others, intervals that list nothing twice,
reports of the two ends that agree; for a test among others, its own client's
settings and streams, and texts that arrive whole.

## 2. Modules

                        ServerControl
                          | (implemented by)
    RunServer ----------- AndroidRunner -- AndroidRunnerProofs, MCAndroidRunner
       |    \             IosRunner ------ IosRunnerProofs, MCIosRunner
       |     RunServerProofs
       | (implemented by)
    IperfSession -- MCIperfSession,         Timers -- MCTimers, TimersProofs
       |      |                             StreamStats -- MCStreamStats, StreamStatsProofs
    IperfServer  IperfClient
           \      /                         MessageChannel
         ControlChannel                       | (implemented by)
                                            TestSetup -- MCTestSetup, TestSetupProofs,
                                             |     |                  UdpStreamsProofs
                                       JsonChannel UdpStreams

**RunServer** is `iperf_run_server` as its callers see it. For each worker it has
the place inside the call (`at`), the fields that others touch (`state`,
`listener`), whether a control connection is watched (`session`), and the accept
backlog. Its actions are the steps between which another thread can come:
`Listen` or `ListenFails` (SRV 113-150), `Arm` (the store of `IPERF_START`,
590), `LoopTest` (595), the accepts (`AcceptShut`, `AcceptClient`,
`AcceptFails`, `AcceptDenied`, SRV 153-235), `SessionMessage`, `SessionStores`
(stores to `state` in a session), `SessionFails`, `SelectTimeout`, and `Return`
(cleanup). A test with an MSS, a window size or no-delay closes the listening socket
and opens another, and every TCP test does so after its streams (SRV 851-864,
`iperf_tcp.c` 195-332): `CloseListener`, `Reopen`, `ReopenFails`, with the place
`relisten` in between. A round serves the listening socket (`LooksAtListener`) unless
the server waits for the streams of a UDP test (state `UDP_STREAMS`: 698, where
`prot_listener` is another socket); `PassOverListener` is the round that finds the
listening socket readable and leaves it so. `MarkDone`, `Shutdown` and `Nudge` are the three statements of
`safe_interrupt_iperf`; `Defaults`, `ResetTest` and `FreeFields` are what the
bridges call on a test. Any conversation with a client is allowed: it is the
*abstract specification* of the server.

**AndroidRunner** extends it with the JS thread (`JsStart`, `JsStop`: one action
per shared access or critical section of `stop_if_running_and_join` and
`nativeStart`) and the worker threads (`WorkerStep`: `iperf_thread_func`;
`LogAcquire`, `JsonAcquire`, `Deliver`: the two output paths). The mutexes are
the atomicity of the actions, except that the interrupt holds `g_stateMutex` over
three actions: `stateMutexHeld` then excludes `FreeTest` and `PublishTest`.
A worker identity is used for one thread at a time.

**IosRunner** extends it likewise with the JS thread, overlapping workers, and the
main queue as a sequence of blocks (`PostLog`, `JsonOutput`, `PostEnd` append;
`RunJson`, `RunLine`, `RunEnd` execute). `PortTaken` makes the second of two
servers on one port fail.

**ServerControl** is the other abstract specification: what the functions of
`src/src/index.ts` promise to an application, on either platform. Its state is the call
that is being executed, the servers that exist, the answer of `isRunning()` and the log
lines on their way. A server begins only inside a `start()`, after `isRunning()` has been
set and when the last server and its lines are gone; it prints to its own listener; when
it is gone `isRunning()` is false; and a `stop()` that waits leaves neither server nor
line. `ImplementsServerControl` of `AndroidRunner` maps to it the live workers,
`g_isRunning` and the callback references that are held, with `StopWaits` true. That of
`IosRunner` maps the live workers, `_isRunning` and the blocks of the main queue with the
listener they would reach now, with `StopWaits` false; it holds for an application that is
`Polite`. State events are not part of it.

**ControlChannel** is what a server and its clients share: the accept queue and
for each client two sequences of tokens. A one-byte state is a token; so is a
whole JSON text (`PARAMS`, `RESULTS`), the cookie, and the end of the stream
(`FIN`). Nothing in the sequence says how a token is to be read.

**IperfServer** is one call of `iperf_run_server` in detail. `pc = "select"` is
the top of a round; `cookie`, `params`, `control`, `handle`, `results`, `start`
and `running` are the places inside a round where it blocks or where a stop can
overwrite `state` between two stores; `listening`, `relisten` and `renew` are those
around the re-opening of the listener. It has the whole handshake, the order in
which a round serves listener and control connection, the counting of streams
(819-846), the start of the test (882-930), both ways a client ends it, the server
timer with its closed-but-still-watched descriptor (`dead`), the receive
timeout, and `cleanup_server`. `stale` records fields that hold the number of
a descriptor that is closed already.

**IperfClient** is `iperf_run_client`: connect, cookie, every message, stream
creation, end of test by time or by count, result exchange, and termination by a
signal (`Killed`, `iperf_got_sigend`) or silence (`GoesSilent`).

**IperfSession** composes them with the embedder's stop and says when time and
the network let the server's timeouts pass. `ImplementsRunServer` states, with a
refinement mapping, that the detailed call is a call of `RunServer`: what the
bridges were verified against is what the server does. Places outside a round
map to themselves and those inside one to `select`; all protocol states map to
`ACTIVE`, since the tests of the session are TCP tests.

**Timers** has `timer.c` with its active and free lists as sequences of cells, and
the server code that uses it over successive tests. `tmr_run` is not atomic: its
saved `next` (`cursor`) is a variable, each fired timer a step, each callback a
part of that step (`ServerTimer`, `OmitTimer`, `PeriodicTimer`).

**StreamStats** is one stream from the first block to the reports of both ends:
`iperf_udp_send`, `iperf_udp_recv`, `iperf_tcp_send`, `iperf_tcp_recv` split at each
access to a counter another thread touches (`Stamp` ... `CountSent`, `Receive` ...
`Backward`), the main threads' statistics callback (`StatsRead`, `StatsAppend`), the
statements of `iperf_reset_stats` (`OmitOver` ... `OmitInterval`), and the end:
`EndTest`, `SendTestEnd`, `HearTestEnd`, `CloseStreams`, the two exchanges and the
two reports. Where the build has no `stdatomic.h` an addition is a load and a store
(`LoadTotal`, `StoreTotal`, ...). The model names a datagram by the sender's count when
it was written; what the receiver reads from it is `pcount`, the count modulo the
numbers a datagram has room for: 2^32, or 2^64 with `--udp-counters-64bit`
(UDP 98-117, 237-241). The sets `accounted` and `counted` are history
variables: what really happened, against which the counters are judged.

**JsonChannel** is `JSON_write` and `JSON_read` over `Nwrite` and `Nread`: a text is a
length word and its bytes, written and read in pieces of any size. `ReadEnds` is
every way `Nrecv` stops short (10 s without data, 30 s in all, a closed peer, an
error), `LengthRefused` a length of 0 or over `MAX_PARAMS_JSON_STRING`.
**MessageChannel** is the promise it keeps.

**UdpStreams** makes the streams of a UDP test: `Dial`, `Answered`, `ReadEarly` and
`GivesUp` are `iperf_udp_connect`; `UdpListen`, `TakeHello` and `AcceptStream` are
`iperf_udp_listen` and `iperf_udp_accept` with its close and re-creation of
`prot_listener`; `Deliver` is the network and the kernel's choice of a socket.

**TestSetup** composes the two over tests in succession: parameters (`SentFields` and
`Apply` are `send_parameters` and `get_parameters` field by field), streams, results,
and between tests `ResetTest` (`iperf_reset_test`), after a failed call `StartAgain`
(`iperf_new_test`, `iperf_defaults`). The one-byte states, which IperfSession models,
are joint steps here.

The `*Proofs` modules hold the theorems, the `MC*` modules the instances.
Definitions whose comment begins with "Mutant:" are altered forms of the
definition that follows them. They are used nowhere in the specifications: each
shows that some property fails when the code is changed that way.

## 3. Bounds, and why they are enough

| Constant | Value | Why |
|---|---|---|
| `Workers` (Android) | 2 | a third thread could exist only if two were alive, which `OneServerAtATime` excludes; identities are reused without end |
| `Workers` (iOS) | 2 | one run and the next one it overlaps with; identities are reused when nothing refers to them |
| `Ports` | {0, 5201} or {5201} | 0 is the port that is not dialled; two servers share a port or not |
| `MaxClients`, `MaxNudges` | 0 or 1, 1 | a connection before, after or instead of the nudge in one backlog |
| `MaxQueue` | 1 | JSON blocks waiting on the main queue; log lines and thread ends are not bounded by it |
| `ShutdownOutcomes` | {TRUE, FALSE}; {FALSE} on iOS | `shutdown` on a listening socket wakes `accept` on Linux and does not on Darwin; the iOS runner does not call it |
| `Clients` | 2, or 1 where the defect needs one | one that is served and one that comes between |
| `NumStreams` | 1 | a bidirectional test has then two streams, one each way, which is what their order is about |
| `TestSetups` | all three modes with a duration, an upload that ends by count, and one that re-opens the listener; two of them, one re-opening, for liveness | the timer exists only for tests with a duration; the listener changes only for tests that tune it |
| `MaxFaults`, `MaxStops` | 1, 1 | a client that dies or falls silent at any point, and a stop at any point |
| `Cells`, `MaxTime`, `MaxTests` | 4, 5, 2 | the server has four timers; two tests show what the first leaves behind; the durations 0 and 1, intervals 0, 1 and 2 and the grace 1 make every pair of timers coincide or come in either order |
| `Tests` (streams) | nine kinds: 2 or 3 blocks, at most one repeat, at most 2 callbacks; three of them are UDP tests with room for 2 or 3 numbers, which wrap | three datagrams can be lost, overtake each other and come twice; two blocks are one on each side of any single access of the main thread; two callbacks give an interval between two others |
| `LengthSize` | 2 | the smallest word that can be read in two pieces; the code's 4 adds more of the same cuts |
| `Requests`, `MaxParams` | four requests, 3 | nothing set, two streams with a window, a reverse test with a kept setting, and one whose text is too long |
| `MaxTests` (setup) | 3 | a late datagram or setting of one test in the next, with one that fails between |
| `MaxRepeats`, `EarlyReads` | 1, 1 | one repeat meets every step of the server; the limit of early reads is reached and not reached |

Each of these bounds is met: the case it leaves room for occurs in the runs, and each
property has an altered definition (below) that breaks it within them.

The clients of `Session.cfg` and the workers of `IosSafety.cfg` are interchangeable
and are declared symmetric; no liveness property is checked under symmetry.

## 4. Runs

| Run | Checks | Shows |
|---|---|---|
| `AndroidBridge` | `OneServerAtATime`, `InterruptTarget`, `QuietAfterStop`, `HandleIsJoinable`, `RunningMeansServer`; `ImplementsServerControl`, `ShutListenerStops`, `NudgedServerStops` | the lifecycle is safe under every interleaving and is what the package (`ServerControl`), and a stop that finds the server listening ends it: where `shutdown` works, unless a session re-opens the socket or waits for ever for the streams of a UDP test; otherwise if the port is known and every client's test ends |
| `AndroidLostStop` | `StopAlwaysReturns` fails | a stop between the worker's loop test and `IPERF_START` is lost and the join never returns |
| `IosSafety` | `InterruptTarget`, `TestNeverDangles` | however starts and stops overlap, `_test` is never used after the test was freed |
| `IosPolite` | `IsRunningTells`, `OutputIsHeard`; `ImplementsServerControl`, `NudgedServerEnds` | the promises of `ServerControl`, but for the wait in `stop`, and what the README of the package says holds for an application that starts only after the last worker has gone and the main queue has said so |
| `IosPreviousRun` | `PreviousRunStops` fails | a start revives the run it stopped |
| `Session` | `NobodyWaitsInVain`, `FramingAgrees`, `StatesAgree`, `StreamsPair`, `DataNeedsBothEnds`, `OneClient`, `FinishedOnBothEnds`; `ImplementsRunServer` | both ends of the protocol agree throughout, with a second client, a fault and a stop at any point; every step is one that `RunServer` allows |
| `SessionLive` | `ClientEnds`, `StopEndsCall`, `SilentClientDetected` | nobody waits for ever, except the server for a silent client it has no timeout for |
| `SessionOrphans` | `AllThreadsStopped` fails | the server's test timer frees streams whose threads run on |
| `Timers` | `ListIsSorted`, `CellsAreInOnePlace`, `HandlesAreActive`, `NoTimerOutlivesItsTest`, `CursorIsActive`; `DueTimersFire` | the lists stay in order while callbacks change them, and nothing survives a test |
| `Streams` | `LossIsExact`, `LossWithinPackets`, `IntervalsWithinTotal`, `ReportsAgree`, `ReportIsPlausible` | whatever the network does with datagrams and however threads interleave, counters, intervals and both reports are right to within the block in flight; the losses are exact as long as no number has wrapped |
| `StreamsAndroid` | `ListedOnce` fails | without atomic counters an interval can be listed twice |
| `Setup` | `ServedAsAsked`, `StreamsPaired`, `SetupEnds`; `ImplementsMessageChannel` | one server serves test after test, aborted ones included, each with its own settings and streams; no end waits for ever; no text is taken in half |

Deadlock is checked where `CHECK_DEADLOCK FALSE` is absent. `AndroidLostStop` and the
stream runs have it: they end where the application makes no further call, or where
both ends have reported. `Over` in `IperfSession`, `Timers` and `TestSetup` is an
explicit stutter for the states in which everything has ended or waits for the
outside.

### What the failing runs mean

* **Lost stop** (`iperf_jni.cpp:311`). The comment at line 130 promises a
  "deterministic wake". If the interrupt runs after the worker has tested
  `g_isRunning` and before `iperf_server_listen`, there is no listener to shut or
  to dial, and `IPERF_START` overwrites the stored `IPERF_DONE`: the JS thread
  stays in `pthread_join`. `ShutListenerStops` and `NudgedServerStops` give the
  conditions under which a stop is effective.
* **The previous run** (`IperfRunner.m:100`): one flag serves all workers. Raised by a
  new start, it revives the run that was stopped a line earlier. (Cleared by an old
  worker, line 177, it hides the new server; `IosPolite` shows that neither happens to
  an application that waits.)
* **Orphaned threads** (SRV 329): `server_timer_proc` empties the stream list
  that `cleanup_server` would cancel and join from.
* **Listed twice** (API 3642). `iperf.h:96` documents the number as the "bytes
  transferred in this interval". Android's `iperf_config.h:91` undefines
  `HAVE_STDATOMIC_H`, so a stream thread that loaded the counter before it was set to
  0 stores the old sum back, and the next interval lists it again.

Two observations are not runs because they are plain from the code. Only `start` and
`stop` send state events on Android, so a server that ends by itself
(`iperf_jni.cpp:256`) stays "started" for the application, and the `'error'` event
of the package's README is never sent. And a handshake that fails leaves a closed
descriptor in `ctrl_sck` (SRV 233, 276, 306), which `cleanup_server` closes again; by
then it may be another file of the application.

## 5. Fairness

* Android (`Fairness` of `AndroidRunner`): weak fairness of the JS thread and of
  each worker: they are threads the system schedules. Strong fairness of
  `ServeReturns`: the call has returned as soon as it has ended. Strong fairness of
  `AcceptShut`: a socket that was shut down stays readable, and every round in which
  the action is enabled serves it. Outside `CREATE_STREAMS` a round looks at it first
  (SRV 697-703); in `CREATE_STREAMS` of a TCP test `prot_listener` is the same socket,
  and the accept of a stream fails on it (726-730). In `CREATE_STREAMS` of a UDP
  test neither happens: there `AcceptShut` is not enabled, and the shut socket only keeps
  `select` returning, so that no timeout runs. `ShutListenerStops` therefore has the
  premise `StreamsAreMade`: no server stays in that state for ever. Without it TLC finds
  the behaviour in which the parameters' `CREATE_STREAMS` overwrites a stop's
  `IPERF_DONE`, the client falls silent, and the worker spins while the join waits.
  Nothing else is assumed of clients.
* iOS: the same for the JS thread and workers, and weak fairness of the main queue.
* Session: weak fairness of the server, of each client that runs, and of an
  interrupt that was begun. Faults, new clients and the decision to stop are not
  fair. `SessionsEnd`, a premise of two properties of the bridges, is what
  `ClientEnds` shows of the detailed server, clients that fall silent aside.
* Timers: weak fairness of `tmr_run`: the select of the loop waits no longer than
  `tmr_timeout` says. Time itself need not advance.
* Setup: weak fairness of the bytes of the control connection (TCP delivers, and a
  read that gets nothing times out), of the server, of the steps with which a client
  makes its streams, and of its giving up: `SO_RCVTIMEO` is 30 s (UDP 578-583). The
  delivery of datagrams is not fair. A client that falls silent elsewhere is
  the matter of `SilentClientDetected`.
* The streams have no liveness property and no fairness.

## 6. Proofs

The proofs are for every value of the constants and assume only what the modules'
`ASSUME`s say of their types: any workers, ports, tests, texts, timers and callbacks,
and streams with any number of datagrams and repeats, whose numbers may wrap. Where a
statement needs more, it has it as a premise of its own (`LossIsExact`, below).

**RunServerProofs.** `ServerTypes`: every operation on a server, by whomever, keeps
the types of its fields. Both bridges use it.

**AndroidRunnerProofs.** None of the invariants of `AndroidBridge` is
inductive. Their common strengthening `LifecycleInv` has these parts:

* `OnlyHandleLives`: a live worker is the one `g_thread` names, and there is none at
  the steps of the JS thread that follow the join (`Alone`);
* `HandleInv`: what `js`, `g_threadValid` and the snapshot in `stop` say about
  whether that thread may still be alive, so that no start reaches `CreateThread`
  with a thread unjoined;
* `TestInv`: `g_test` is exactly the test of a worker between publication and
  free, with its port, which is why the interrupt, under the lock that `FreeTest`
  takes, has a valid target;
* `RunningInv`: `g_isRunning` against the steps of both threads, in particular the
  window in which a worker has cleared it and is not gone;
* `CallbackInv`: which callback may be installed, and held, at which step.

`LifecycleStep` proves it step by step, one case for each action. From
`LifecycleInvariant` follow `TypeCorrect`, `OneServer`, `InterruptSafe`,
`StopLeavesNothing`, `JoinIsDefined`, `IsRunningIsTrue` and `LogsGoToOwnListener`,
each of the form `Spec => []P`. `ServerIsControlled` is `Spec => ImplementsServerControl`:
`JsImplements` and `WorkerImplements` map each step to one of `ServerControl` or to a
stutter. The invariant is what allows the steps that matter: no worker is alive at
`CreateThread` and at the return of `stop` (`Alone`, by the join), a worker only holds its
own callback (`CallbackInv`), and one that goes has cleared `g_isRunning`, which nobody
has set again meanwhile (`RunningInv` with `OnlyHandleLives`).

**IosRunnerProofs.** `PointerInv` adds to the types that `_test` names a worker
that has its test, and that the target of an interrupt is that one while the lock
is held. It gives `TypeCorrect`, `PointerIsSafe` and `InterruptSafe` for any
number of overlapping workers. For the `Polite` application, `PoliteInv` adds that
while a start is under way nothing of an earlier run is left, neither a worker nor a
block on the main queue (`AloneInv`), from which follow what `_isRunning`
(`RunningInv`) and `s_currentRunner` (`RunnerInv`) say: `IsRunningIsTrue` and
`OutputReachesListener`, the two promises that an application which starts too early
is not given. `ServerIsControlled` is `PoliteSpec => ImplementsServerControl`; four lemmas
(`PostAddsLine` to `RunJsonKeepsLine`) say what posting and running a block make of the
lines that wait, in particular that one line may stand for several blocks of a worker.

**StreamStatsProofs.** `LossInv` is what makes `LossIsExact` and `LossWithinPackets`
inductive. `Wire`: only datagrams that were written are on their way. `Accounting`:
as long as no more were written than there are numbers, the accounted numbers lie
in `1 .. packet_count`, with what the counter misses between the gap and the new highest
number (`highest`). `Omission` carries the difference to the snapshot of the
omitted counters, and `Bounded` says that no more losses are counted than numbers were
skipped. Only `Accounting` has the premise, and so only `LossExact`: after a wrap a datagram
counts as late and takes back a loss, while `LossWithin` and `ReportPlausible` stay true.
Each of the three ways a datagram
is counted is a lemma about the cardinality of `accounted`. `IntervalInv` follows a
block from the counter through the callback's `temp` into the list; it needs the
atomic type, as `StreamsAndroid` shows. `AgreeInv` says which of the exchanged and
reported numbers may still grow, and by how much, at each place of the two ends.
`PlausibleInv` follows the numbers of a test without an omitted period from the
sender's `written` over the wire (`OnWire`, `Delivery`) and the receiver's counters
(`Numbering`) into the exchanged results (`Exchanged`), from which `ReportPlausible` follows.

**TestSetupProofs.** `ChannelInv` relates the byte positions of the two ends: texts lie
end to end in the stream (`FramesInOrder`), and the reader is inside the text after
those it has received, as far as `got` says (`ReaderInStep`). So a length word that
is read is that of a text, and a body of that length is the text: `TextsArriveWhole`
proves that every step is one of `MessageChannel` or a stutter. `SettingsInv` adds
that the settings are those of `iperf_defaults` (`Fresh`) whenever a client can
connect, and that the only text it can have sent holds its own parameters; with
`AppliedAsAsked`, which follows each field through the text, it gives
`SettingsAreTheClients`.

**UdpStreamsProofs.** `UdpInv`: what is on the network, waits, or is accepted was made by
a client for one of its streams (`AllMade`); nothing that waits in the listener is
accepted already, and nothing waits while an accept is unfinished (`TakenOnce`,
which is where the closing of the connected socket's listener matters);
answers are those of accepted streams. `StreamsArePaired` ends with a counting
argument: as many different sockets of one test as it has streams are all of them.

**IperfSessionProofs.** What an end of the session does next rests on what it has been
told and not yet heard, so an invariant about places alone is not inductive. The
inductive one (`SessionInv`, theorem `Inductive`) speaks of the tokens in the two
streams of each client: `OneInv`, a client that is not served has nothing under way
that would get it past the handshake (`Untouched`), and a served one keeps the place until
the call ends or `dead` does; `CookieInv`, `RequestInv` and `JsonInv`, a request and its answer are
never both under way, none is there twice, and JSON is there only where the other end
waits for it; `CreationInv`, `QueueInv` and `StreamInv`, the streams a client has
connected are those the server has accepted, in order, and then those in the backlog,
in order; `RunInv`, a test starts only with all of them; `FinishInv`, one token or one
state carries a test from `TEST_RUNNING` to `TEST_END`, and nothing of it is left when
the results are displayed. Four lemmas, `ServerSpeaks`, `ServerHears`,
`ClientSpeaks` and `ClientHears`, say once for all actions what a step adds to a stream
and takes from it (`Script` is the list of what the server says where); each part then has one lemma, from
`TypeStep` to `FinishStep`. The constants are any finite set of clients, any number of
streams and any bounds on faults and stops.

The theorem `Refinement` is `Spec => ImplementsRunServer`: what the two bridges are
verified against is what the detailed server does, whatever its clients do. The five
variables of `RunServer` are views of the session (`RunPlace`, `RunState`,
`RunBacklog`, `RunSession`, and `listener` itself); `RunMoves`, `RunAccepts`
and `RunServes` list what its steps make of a view, and `ServerRuns`, `StopRuns` and
`ClientRuns` map each step of the session to one of them or to a stutter. The mapping
needs three more invariants: `PeerInv`, `CREATE_STREAMS` and the timer are only there in
a session, and an accept is never reached with a control descriptor that is stale; `DialInv` and `NudgeInv`, with
`QueueInv`, that no connection waits twice, so that clients and nudges find the room that
the bounds of `RunServer` leave them (`RoomForClient`, `RoomForNudge`).

`StatesStayAgreed` is about the order in which the tokens come, not only which there are:
`LastAdded` and `LastRead` say what a write and a read make of the last state in a stream,
`ServerAnnounces` that the server only begins a round with a state that it has just sent
or as it was, and `ServedInv` why a denied connection is never that of the client that is
served (`TakesControl`: a free server has asked nobody for streams, so what it accepts is
a control connection, and each client has one).

`NobodyWaits` is what safety has to say about deadlock. Both ends block in `select`, in
many states without a timeout, so a step that sends nothing and leaves nothing to read
would be the end of the session. `RoundInv` and `ClientPlaces` say in which states a round
of either end can begin; with `StatesAgree` both ends of an idle session are in the same
one, which leaves `CREATE_STREAMS` and `TEST_RUNNING`. In the first all the streams of the
client would be accepted (`StreamInv`), and the server would have gone on. `KeptInv` adds
that a client which is not served is in the backlog of a socket that listens or has the end
of its connection to read, whatever closed the socket, and `StopInv` that a server in
`select` which has been stopped has something to read, or is about to get it from the
embedder. That what can happen then does happen is `ClientEnds`, which TLC checks.

**TimersProofs.** The first part is about `list_add`, `list_remove` and `list_resort`
for every list: what they leave in it (`Added`, `Removed`, `Resorted`), that it
stays without repetition, and that it stays sorted when only the moved timer's
time has changed. `TimersInv` is the conjunction of the run's invariants with
`PhaseInv`: a handle is written only while it is NULL, no handle is left when a test
starts, and `tmr_run` runs only in a running test. The invariants need one another: a
one-shot timer may be freed because the only handle that names it is the one
its procedure clears (`HandlesAreActive` with `NoTimerOutlivesItsTest`), and `tmr_run`
may have saved `next` because the freed cell is another one (`CellsAreInOnePlace`).
`CleanupKeeps` follows the four cancellations of `cleanup_server`.

**Model-checked only.** All liveness: fairness and `ENABLED` are beyond the prover, as
are induction over data and `RECURSIVE` operators. Every safety property of the passing
runs has a theorem.

## 7. Abstractions

* Memory is sequentially consistent. The unprotected accesses to `state` and
  `done` from two threads are single steps; on both platforms they are words.
* In the session a JSON text is one token; `JsonChannel` has its bytes. A byte there is
  a position: a text has a length and a meaning but no characters, and bytes that are
  not one text parse to `Garbage`.
* In `StreamStats` a block is one successful write and counts as one byte, and one
  stream stands for all. Jitter, retransmits and times are left out.
* By default a UDP datagram carries 32 bits of the sender's 64-bit counter
  (`htonl(packet_count)`, UDP 237-241; read back by `ntohl`, 110-117). `pcount` has this
  width as the parameter `numbers`, so wrapped numbers are in the model. `LossIsExact`
  speaks of tests that send fewer datagrams than that (`written < test.numbers`); beyond,
  the count of losses is wrong, which `iperf3.1` (443-446) gives as the reason for
  `--udp-counters-64bit`. The other properties of the streams hold across the wrap.
* In the session the timeouts of `Nread` are the failure of a blocked read.
* In `TestSetup` a value of a parameter is a number, and the one-byte states between
  its steps are left to the session. The fields in `Kept` are not reset by
  `iperf_reset_test`, and once a client has set one it stays for the next: that is what the code
  does, and `ServedAsAsked` leaves them out by name. A connect datagram that comes late
  from an earlier test may take the place of a stream (`Stray`): nothing in it tells
  which test it is from.
* A `select` without events is a step of any length. SRV 624-632 limits a variable
  that is not the one given to `select`: a stop that comes between the loop test
  and `select` waits there for an event, up to the receive timeout. The models say
  that the wait ends with an event, not when.
* The streams of the session are TCP streams; `UdpStreams` has the other way to the
  same place.
* The lists of `timer.c` belong to the process and have no lock. `Timers` has the one
  thread that uses them on Android; two iOS workers that overlap (`IosPreviousRun`
  shows that they can) would share them, and what that does to the lists is not modelled.
* The bad outcome of some hazards is real and is excluded by a premise rather than
  absent: port 0 where `shutdown` has no effect (`NudgedServerStops`), an application
  that starts before the last iOS run has ended (`Polite`), a UDP client that goes
  silent before it makes its streams (`StreamsAreMade`), the fields in `Kept`
  (`ServedAsAsked`), a wrapped datagram number (`LossIsExact`).
* `iperf_json_finish`, the limit of `select` (`FD_SETSIZE`) and out-of-memory
  inside iperf3 are left out; failing `iperf_new_test`, `pthread_create`, `listen`
  and `tmr_create` are in.
* Descriptors reused by other threads of the application are not modelled;
  `dead` and `stale` record where the code depends on it.
* On Android `iperf_pthread.c` implements `pthread_cancel` by a signal whose
  handler exits the thread. Where in its own code the thread is at that moment is
  not modelled.

## 8. Not modelled

* **Report and JSON output, utilities, cJSON**: text and conversions without state.
* **Rate limit**: `iperf_check_total_rate` returns at once unless `bitrate_limit` is set,
  which neither app does. `iperf_check_throttle` only delays the next block, and
  `StreamStats` lets a block come at any time.
* **SCTP, authentication**: compiled to nothing by both `iperf_config.h`.
* **Socket options, congestion control, CPU affinity**: calls to the kernel whose effect
  the program does not read back, except for the UDP buffer size
  (`ServerTakesHello`).
* **The command-line program and the unit tests** are not built into the module.

What could follow: several streams in one results text; the
connect datagram that arrives again on a stream's own socket and is read there as
the head of a block (UDP 73).
