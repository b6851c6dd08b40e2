----------------------------- MODULE IperfServer -----------------------------
(***************************************************************************)
(* One call of iperf_run_server (iperf_server_api.c), with everything it   *)
(* calls: the rounds of its select loop, the control protocol, the accept  *)
(* of streams, the stream threads, the server timer and the cleanup.       *)
(*                                                                         *)
(* The steps of one round that another thread can come between are steps   *)
(* here: the embedder's stop may overwrite test->state at any of them.     *)
(* TCP only; a stream's payload is abstracted to whether its thread runs.  *)
(***************************************************************************)
EXTENDS ControlChannel

VARIABLES
    pc,         \* where the call is
    state,      \* test->state
    done,       \* test->done
    mode,       \* test->mode
    ctrl_sck,   \* the client whose control connection is open, or None
    dead,       \* test->read_set still has the descriptor the timer closed
    streams,    \* test->streams, in order of acceptance
    threads,    \* the streams' threads run and are not joined
    stray,      \* threads that run although their stream was freed
    timer,      \* test->timer is armed
    stale       \* descriptor fields that hold a closed descriptor

testVars == <<done, dead, streams, threads, stray, timer>>
controlVars == <<ctrl_sck, mode, stale>>
serverVars == <<pc, state, testVars, controlVars>>

Places == {"enter", "arm", "top", "select", "cookie", "params", "relisten", "listening",
           "control", "handle", "results", "renew", "reopen", "start", "running", "ok", "err", "out"}

ServerTypeOK ==
    /\ pc \in Places
    /\ state \in States
    /\ mode \in Modes
    /\ ctrl_sck \in Clients \cup {None}
    /\ streams \in Seq(Connections)
    /\ {done, dead, threads, stray, timer} \subseteq BOOLEAN
    /\ stale \subseteq {"ctrl_sck", "streams", "listener"}

ServerInit ==
    /\ pc = "enter"
    /\ state = "INIT"
    /\ mode = "RECEIVER"
    /\ ctrl_sck = None
    /\ streams = <<>>
    /\ done = FALSE /\ dead = FALSE /\ timer = FALSE
    /\ threads = FALSE /\ stray = FALSE
    /\ stale = {}

----------------------------------------------------------------------------
Listen ==
    /\ pc = "enter"
    /\ pc' = "arm"
    /\ listener' = "open"
    /\ UNCHANGED <<state, testVars, controlVars, queue, toServer, toClient, setup>>

\* netannounce fails: the port is in use.
ListenFails ==
    /\ pc = "enter"
    /\ pc' = "err"
    /\ UNCHANGED <<state, testVars, controlVars, channelVars>>

Arm ==
    /\ pc = "arm"
    /\ pc' = "top"
    /\ state' = "IPERF_START"
    /\ UNCHANGED <<testVars, controlVars, channelVars>>

\* Mutant: the loop looks at test->done.
LoopTestDone ==
    /\ pc = "top"
    /\ pc' = IF done THEN "ok" ELSE "select"
    /\ UNCHANGED <<state, testVars, controlVars, channelVars>>

LoopTest ==
    /\ pc = "top"
    /\ pc' = IF state = "IPERF_DONE" THEN "ok" ELSE "select"
    /\ UNCHANGED <<state, testVars, controlVars, channelVars>>

\* The closed control descriptor is still in read_set: select fails (EBADF).
BadDescriptor ==
    /\ pc = "select"
    /\ dead
    /\ pc' = "err"
    /\ UNCHANGED <<state, testVars, controlVars, channelVars>>

ListenerReadable == listener = "shut" \/ (listener = "open" /\ queue # <<>>)
ControlReadable == ctrl_sck # None /\ toServer[ctrl_sck] # <<>>

\* select returned: what a round serves first is the listener.
ServesListener == pc = "select" /\ ~dead /\ ListenerReadable

\* accept on a socket that was shut down fails, in iperf_accept and in
\* iperf_tcp_accept, which also has to wait for its turn.
AcceptShut ==
    /\ ServesListener
    /\ listener = "shut"
    /\ state = "CREATE_STREAMS" => ~ControlReadable
    /\ pc' = "err"
    /\ UNCHANGED <<state, testVars, controlVars, channelVars>>

Accepts == ServesListener /\ listener = "open" /\ state # "CREATE_STREAMS"

\* Mutant: a busy server takes the next client too.
AcceptClientBusy ==
    /\ Accepts
    /\ Head(queue) # NudgeConnection
    /\ ctrl_sck' = Head(queue)[1]
    /\ queue' = Tail(queue)
    /\ pc' = "cookie"
    /\ UNCHANGED <<state, testVars, mode, stale, listener, toServer, toClient, setup>>

\* iperf_accept, server free: the connection becomes the control connection.
AcceptClient ==
    /\ Accepts
    /\ ctrl_sck = None
    /\ Head(queue) # NudgeConnection
    /\ ctrl_sck' = Head(queue)[1]
    /\ queue' = Tail(queue)
    /\ pc' = "cookie"
    /\ UNCHANGED <<state, testVars, mode, stale, listener, toServer, toClient, setup>>

\* The nudge is closed already: no cookie, error_handling closes the socket
\* and test->ctrl_sck keeps its number.
AcceptNudge ==
    /\ Accepts
    /\ ctrl_sck = None
    /\ Head(queue) = NudgeConnection
    /\ queue' = Tail(queue)
    /\ stale' = stale \cup {"ctrl_sck"}
    /\ pc' = "err"
    /\ UNCHANGED <<state, testVars, mode, ctrl_sck, listener, toServer, toClient, setup>>

\* Mutant: a busy server drops the connection without a word.
DeniesNothing(connection) == UNCHANGED toClient

\* ACCESS_DENIED, then the socket is closed.  Its other end may see a reset
\* before it sees the answer.
Denies(connection) ==
    IF connection \in {Control(c) : c \in Clients}
    THEN \E answer \in {<<"ACCESS_DENIED", "FIN">>, <<"FIN">>} : ServerSends(connection[1], answer)
    ELSE UNCHANGED toClient

\* iperf_accept, server busy; the same round then serves the control socket.
AcceptDenied ==
    /\ Accepts
    /\ ctrl_sck # None
    /\ Denies(Head(queue))
    /\ queue' = Tail(queue)
    /\ pc' = IF ControlReadable THEN "control" ELSE "top"
    /\ UNCHANGED <<state, testVars, controlVars, listener, toServer, setup>>

----------------------------------------------------------------------------
(* The rest of iperf_accept: cookie and parameters.                        *)

GetCookie ==
    /\ pc = "cookie"
    /\ NextIs(toServer[ctrl_sck], "COOKIE")
    /\ ServerReads(ctrl_sck)
    /\ state' = "PARAM_EXCHANGE"
    /\ ServerSends(ctrl_sck, <<"PARAM_EXCHANGE">>)
    /\ pc' = "params"
    /\ UNCHANGED <<testVars, controlVars, listener, queue, setup>>

\* get_parameters, and iperf_tcp_listen of a test that is not tuned, which keeps
\* the socket.
GetParameters ==
    /\ pc = "params"
    /\ NextIs(toServer[ctrl_sck], "PARAMS")
    /\ ServerReads(ctrl_sck)
    /\ ~setup[ctrl_sck].tuned
    /\ mode' = setup[ctrl_sck].mode
    /\ pc' = "listening"
    /\ UNCHANGED <<state, testVars, ctrl_sck, stale, listener, queue, toClient, setup>>

\* Whoever waits in the backlog of a socket that closes, or is shut, is reset.
Waiting == {c \in Clients : \E i \in DOMAIN queue : queue[i] = Control(c)}

\* iperf_tcp_listen closes the socket: that of a tuned test to open another, any
\* socket whose buffer sizes cannot be read back.
CloseListener ==
    /\ pc = "params"
    /\ NextIs(toServer[ctrl_sck], "PARAMS")
    /\ ServerReads(ctrl_sck)
    /\ mode' = setup[ctrl_sck].mode
    /\ listener' = "closed"
    /\ queue' = <<>>
    /\ ServerCloses(Waiting)
    /\ pc' = "relisten"
    /\ UNCHANGED <<state, testVars, ctrl_sck, stale, setup>>

\* The next socket listens, with the options of this test.
Relisten ==
    /\ pc = "relisten"
    /\ setup[ctrl_sck].tuned
    /\ listener' = "open"
    /\ pc' = "listening"
    /\ UNCHANGED <<state, testVars, controlVars, queue, toServer, toClient, setup>>

\* CREATE_STREAMS is stored and sent.
AskForStreams ==
    /\ pc = "listening"
    /\ state' = "CREATE_STREAMS"
    /\ ServerSends(ctrl_sck, <<"CREATE_STREAMS">>)
    /\ pc' = "top"
    /\ UNCHANGED <<testVars, controlVars, listener, queue, toServer, setup>>

\* iperf_tcp_listen fails: the client is told, the call ends.
ProtocolListenFails ==
    /\ pc = "relisten"
    /\ state' = "SERVER_ERROR"
    /\ ServerSends(ctrl_sck, <<"SERVER_ERROR">>)
    /\ stale' = stale \cup {"ctrl_sck", "listener"}
    /\ pc' = "err"
    /\ UNCHANGED <<testVars, mode, ctrl_sck, listener, queue, toServer, setup>>

\* Nread times out, reads the end of the connection, or reads something else.
HandshakeFails ==
    /\ \/ pc = "cookie" /\ ~NextIs(toServer[ctrl_sck], "COOKIE")
       \/ pc = "params" /\ ~NextIs(toServer[ctrl_sck], "PARAMS")
    /\ stale' = stale \cup {"ctrl_sck"}
    /\ pc' = "err"
    /\ UNCHANGED <<state, testVars, mode, ctrl_sck, channelVars>>

----------------------------------------------------------------------------
(* iperf_handle_message_server: Nread stores the message in test->state.   *)

\* Only the control socket is readable, or it is its turn in the round.
ServesControl ==
    /\ \/ pc = "control"
       \/ /\ pc = "select" /\ ~dead
          /\ ListenerReadable => state = "CREATE_STREAMS"
    /\ ControlReadable

\* The test goes on, or waits for its next message, in the next round.
ReadDone ==
    /\ ServesControl
    /\ Head(toServer[ctrl_sck]) \in {"IPERF_DONE", "FIN"}
    /\ toServer' = [toServer EXCEPT ![ctrl_sck] = IF Head(@) = "FIN" THEN @ ELSE Tail(@)]
    /\ state' = "IPERF_DONE"
    /\ pc' = "top"
    /\ UNCHANGED <<testVars, controlVars, listener, queue, toClient, setup>>

ReadMessage ==
    /\ ServesControl
    /\ Head(toServer[ctrl_sck]) \in {"TEST_END", "CLIENT_TERMINATE"}
    /\ state' = Head(toServer[ctrl_sck])
    /\ ServerReads(ctrl_sck)
    /\ pc' = "handle"
    /\ UNCHANGED <<testVars, controlVars, listener, queue, toClient, setup>>

\* Anything else is no message (IEMESSAGE).
ReadNonsense ==
    /\ ServesControl
    /\ Head(toServer[ctrl_sck]) \notin {"TEST_END", "CLIENT_TERMINATE", "IPERF_DONE", "FIN"}
    /\ ServerReads(ctrl_sck)
    /\ pc' = "err"
    /\ UNCHANGED <<state, testVars, controlVars, listener, queue, toClient, setup>>

\* Mutant: the results are not exchanged in this call.
EndTestLater ==
    /\ pc = "handle"
    /\ state = "TEST_END"
    /\ done' = TRUE
    /\ state' = "EXCHANGE_RESULTS"
    /\ ServerSends(ctrl_sck, <<"EXCHANGE_RESULTS">>)
    /\ pc' = "top"
    /\ UNCHANGED <<dead, streams, threads, stray, timer, controlVars, listener, queue,
                   toServer, setup>>

\* Mutant: test->done is left alone.
EndTestNotDone ==
    /\ pc = "handle"
    /\ state = "TEST_END"
    /\ state' = "EXCHANGE_RESULTS"
    /\ ServerSends(ctrl_sck, <<"EXCHANGE_RESULTS">>)
    /\ pc' = "results"
    /\ UNCHANGED <<testVars, controlVars, listener, queue, toServer, setup>>

\* TEST_END: the stream sockets are closed, though sp->socket keeps the number.
EndTest ==
    /\ pc = "handle"
    /\ state = "TEST_END"
    /\ done' = TRUE
    /\ stale' = IF streams = <<>> THEN stale ELSE stale \cup {"streams"}
    /\ state' = "EXCHANGE_RESULTS"
    /\ ServerSends(ctrl_sck, <<"EXCHANGE_RESULTS">>)
    /\ pc' = "results"
    /\ UNCHANGED <<dead, streams, threads, stray, timer, ctrl_sck, mode,
                   listener, queue, toServer, setup>>

\* Mutant: DISPLAY_RESULTS is sent, not stored.
ExchangeResultsNotStored ==
    /\ pc = "results"
    /\ NextIs(toServer[ctrl_sck], "RESULTS")
    /\ ServerReads(ctrl_sck)
    /\ ServerSends(ctrl_sck, <<"RESULTS", "DISPLAY_RESULTS">>)
    /\ pc' = "top"
    /\ UNCHANGED <<state, testVars, controlVars, listener, queue, setup>>

\* get_results, send_results; DISPLAY_RESULTS is stored and sent.
ExchangeResults ==
    /\ pc = "results"
    /\ NextIs(toServer[ctrl_sck], "RESULTS")
    /\ ServerReads(ctrl_sck)
    /\ state' = "DISPLAY_RESULTS"
    /\ ServerSends(ctrl_sck, <<"RESULTS", "DISPLAY_RESULTS">>)
    /\ pc' = "top"
    /\ UNCHANGED <<testVars, controlVars, listener, queue, setup>>

ResultsFail ==
    /\ pc = "results"
    /\ ~NextIs(toServer[ctrl_sck], "RESULTS")
    /\ pc' = "err"
    /\ UNCHANGED <<state, testVars, controlVars, channelVars>>

ClientTerminated ==
    /\ pc = "handle"
    /\ state = "CLIENT_TERMINATE"
    /\ stale' = IF streams = <<>> THEN stale ELSE stale \cup {"streams"}
    /\ state' = "IPERF_DONE"
    /\ pc' = "top"
    /\ UNCHANGED <<testVars, ctrl_sck, mode, channelVars>>

\* A stop came between the Nread and the switch: case IPERF_DONE.
Overtaken ==
    /\ pc = "handle"
    /\ state = "IPERF_DONE"
    /\ pc' = "top"
    /\ UNCHANGED <<state, testVars, controlVars, channelVars>>

----------------------------------------------------------------------------
(* CREATE_STREAMS.                                                         *)

ServesStream ==
    /\ ServesListener /\ listener = "open"
    /\ state = "CREATE_STREAMS"
    /\ ~ControlReadable

\* Mutant: a bidirectional test has twice as many.
CompleteOneWay(ss) == Len(ss) = NumStreams

\* Mutant: the streams are compared before the new one is counted.
CompleteOneLate(ss) == Len(ss) = StreamsFor(mode) + 1

Complete(ss) == Len(ss) = StreamsFor(mode)

\* The direction of the i-th stream: receivers are accepted first.
ServerSendsOn(i) == mode = "SENDER" \/ (mode = "BIDIRECTIONAL" /\ i > NumStreams)

\* iperf_tcp_accept finds the cookie of the session: iperf_new_stream.
AcceptStream ==
    /\ ServesStream
    /\ Head(queue)[1] = ctrl_sck /\ Head(queue)[2] > 0
    /\ queue' = Tail(queue)
    /\ streams' = Append(streams, Head(queue))
    /\ pc' = IF ~Complete(streams') THEN "top"
             ELSE IF setup[ctrl_sck].tuned THEN "renew" ELSE "start"
    /\ UNCHANGED <<state, done, dead, threads, stray, timer, controlVars,
                   listener, toServer, toClient, setup>>

\* The socket with the options of this test makes room for a plain one.
RenewListener ==
    /\ pc = "renew"
    /\ listener' = "closed"
    /\ queue' = <<>>
    /\ ServerCloses(Waiting)
    /\ pc' = "reopen"
    /\ UNCHANGED <<state, testVars, controlVars, toServer, setup>>

ReopenListener ==
    /\ pc = "reopen"
    /\ listener' = "open"
    /\ pc' = "start"
    /\ UNCHANGED <<state, testVars, controlVars, queue, toServer, toClient, setup>>

\* netannounce fails (IELISTEN), test->listener is -1.
ReopenFails ==
    /\ pc = "reopen"
    /\ pc' = "err"
    /\ UNCHANGED <<state, testVars, controlVars, channelVars>>

\* Another client's control connection, or a nudge: the cookie is wrong, and
\* is_closed finds the descriptor closed.  The call ends if the cookie cannot
\* be read, or if there are options to set on the closed descriptor.
AcceptStranger ==
    /\ ServesStream
    /\ Head(queue)[1] # ctrl_sck \/ Head(queue)[2] = 0
    /\ Denies(Head(queue))
    /\ queue' = Tail(queue)
    /\ pc' \in {"top", "err"}
    /\ UNCHANGED <<state, testVars, controlVars, listener, toServer, setup>>

\* iperf_common_sockopts or iperf_new_stream fails.
StreamFails ==
    /\ ServesStream
    /\ Head(queue)[1] = ctrl_sck /\ Head(queue)[2] > 0
    /\ queue' = Tail(queue)
    /\ pc' = "err"
    /\ UNCHANGED <<state, testVars, controlVars, listener, toServer, toClient, setup>>

\* All streams are there: TEST_START is stored and sent.
StartTest ==
    /\ pc = "start"
    /\ state' = "TEST_START"
    /\ ServerSends(ctrl_sck, <<"TEST_START">>)
    /\ pc' = "running"
    /\ UNCHANGED <<testVars, controlVars, listener, queue, toServer, setup>>

\* Timers (a test with a duration resets done), TEST_RUNNING, threads.
RunTest ==
    /\ pc = "running"
    /\ done' = (done /\ ~setup[ctrl_sck].timed)
    /\ timer' = setup[ctrl_sck].timed
    /\ state' = "TEST_RUNNING"
    /\ ServerSends(ctrl_sck, <<"TEST_RUNNING">>)
    /\ threads' = TRUE
    /\ pc' = "top"
    /\ UNCHANGED <<dead, streams, stray, controlVars, listener, queue, toServer, setup>>

\* The rate is above the limit, or a timer or a thread cannot be created, by
\* when some threads may run.
StartFails ==
    /\ pc \in {"start", "running"}
    /\ threads' \in (IF pc = "start" THEN {FALSE} ELSE BOOLEAN)
    /\ pc' = "err"
    /\ UNCHANGED <<state, done, dead, streams, stray, timer, controlVars, channelVars>>

----------------------------------------------------------------------------
(* Time, errors and the end.                                               *)

Idle == pc = "select" /\ ~dead /\ ~ListenerReadable /\ ~ControlReadable

\* server_timer_proc, the test's duration and 40 s of grace are over: streams
\* are freed, without a look at their threads, and the control socket closed.
\* Timers run when select has timed out or would have, at the end of a round.
ServerTimer ==
    /\ Idle \/ pc = "top"
    /\ timer
    /\ timer' = FALSE
    /\ done' = TRUE
    /\ IF done
       THEN UNCHANGED <<dead, streams, threads, stray, ctrl_sck, toClient>>
       ELSE /\ streams' = <<>>
            /\ stray' = threads
            /\ threads' = FALSE
            /\ ServerCloses({ctrl_sck})
            /\ ctrl_sck' = None
            /\ dead' = TRUE
    /\ pc' = "top"
    /\ UNCHANGED <<state, mode, stale, listener, queue, toServer, setup>>

\* Mutant: the mode is tested the wrong way round.
RcvTimeoutSender ==
    /\ Idle
    /\ ctrl_sck # None
    /\ mode = "SENDER"
    /\ pc' = "err"
    /\ UNCHANGED <<state, testVars, controlVars, channelVars>>

\* Nothing was received for rcv_timeout (IENOMSG).
RcvTimeout ==
    /\ Idle
    /\ ctrl_sck # None
    /\ mode # "SENDER"
    /\ pc' = "err"
    /\ UNCHANGED <<state, testVars, controlVars, channelVars>>

\* The read of a message fails: the client's end was reset.
ConnectionBreaks ==
    /\ ServesControl
    /\ pc' = "err"
    /\ UNCHANGED <<state, testVars, controlVars, channelVars>>

\* json_finish and cleanup_server: threads are cancelled and joined, sockets
\* closed; connections still in the backlog are reset.
Cleanup ==
    /\ pc \in {"ok", "err"}
    /\ pc' = "out"
    /\ threads' = FALSE
    /\ timer' = FALSE
    /\ listener' = "closed"
    /\ queue' = <<>>
    /\ ctrl_sck' = None
    /\ ServerCloses({ctrl_sck} \cup Waiting)
    /\ UNCHANGED <<state, done, dead, streams, stray, mode, stale, toServer, setup>>

Handshake == AcceptClient \/ AcceptNudge \/ AcceptDenied \/ AcceptShut
             \/ GetCookie \/ GetParameters \/ HandshakeFails
             \/ CloseListener \/ Relisten \/ AskForStreams \/ ProtocolListenFails
Messages == ReadDone \/ ReadMessage \/ ReadNonsense \/ EndTest \/ ExchangeResults
            \/ ResultsFail \/ ClientTerminated \/ Overtaken
CreateStreams == AcceptStream \/ AcceptStranger \/ StreamFails
                 \/ RenewListener \/ ReopenListener \/ ReopenFails
                 \/ StartTest \/ RunTest \/ StartFails
=============================================================================
