----------------------------- MODULE RunServer -----------------------------
(***************************************************************************)
(* iperf_run_server as its two embedders see it: the Android bridge        *)
(* (iperf_jni.cpp) and the iOS runner (IperfRunner.m) call it from a       *)
(* worker thread, once per test, and wake it from another thread.          *)
(*                                                                         *)
(* What matters to them is where the call is (it only returns from its     *)
(* loop test, or with an error), the three fields of struct iperf_test     *)
(* another thread touches or depends on (state, listener, and whether      *)
(* ctrl_sck is open) and the accept backlog of the listening socket, which *)
(* is the wake-up channel.  The conversation with a client is abstracted   *)
(* to a session that runs until the control channel or an error ends it.   *)
(*                                                                         *)
(* A server is a worker thread: it owns one struct iperf_test.             *)
(***************************************************************************)
EXTENDS Naturals, Sequences, FiniteSets

CONSTANTS
    Workers,            \* identities of worker threads (and of their tests)
    MaxClients,         \* bound: clients waiting in one accept backlog
    MaxNudges,          \* bound: loopback connections waiting there
    ShutdownOutcomes    \* what shutdown() on a listening socket may do

(* shutdown(listener) either stops the socket listening (Linux) or fails   *)
(* without effect; iperf_jni.cpp:124 says it is "often a no-op".           *)
ASSUME ShutdownAssumption ==
    ShutdownOutcomes \subseteq BOOLEAN /\ ShutdownOutcomes # {}

ASSUME BoundsAssumption == MaxClients \in Nat /\ MaxNudges \in Nat \ {0}

VARIABLES
    at,         \* at[w]: where worker w is inside iperf_run_server
    state,      \* state[w]: test->state, as far as the loop test tells apart
    listener,   \* listener[w]: test->listener
    backlog,    \* backlog[w]: connections waiting on that socket, oldest first
    session     \* session[w]: select() watches a client's control connection

serverVars == <<at, state, listener, backlog, session>>

(* "out": not in the call; "enter": before the listening socket exists;    *)
(* "arm": it exists, state is not yet IPERF_START; "top": at the loop      *)
(* test; "select": blocked in, or just after, select(); "relisten": the    *)
(* listening socket is closed, the one to replace it not yet open; "ok"    *)
(* and "err": out of the loop, the rest being json_finish and              *)
(* cleanup_server.                                                         *)
Places == {"out", "enter", "arm", "top", "select", "relisten", "ok", "err"}
\* "UDP_STREAMS" is CREATE_STREAMS of a UDP test, whose streams come to a socket
\* of their own (prot_listener); "ACTIVE" is every other state of a session, the
\* CREATE_STREAMS of a TCP test too, whose streams come to the listening socket.
Testing == {"ACTIVE", "UDP_STREAMS"}
States == {"INIT", "IPERF_START", "IPERF_DONE"} \cup Testing
\* "zero" is the memset value a test has until iperf_defaults stores -1.
Listeners == {"zero", "closed", "open", "shut"}
Connections == {"client", "nudge"}

ServerTypeOK ==
    /\ at \in [Workers -> Places]
    /\ state \in [Workers -> States]
    /\ listener \in [Workers -> Listeners]
    /\ backlog \in [Workers -> Seq(Connections)]
    /\ session \in [Workers -> BOOLEAN]

ServerInit ==
    /\ at = [w \in Workers |-> "out"]
    /\ state = [w \in Workers |-> "INIT"]
    /\ listener = [w \in Workers |-> "zero"]
    /\ backlog = [w \in Workers |-> <<>>]
    /\ session = [w \in Workers |-> FALSE]

----------------------------------------------------------------------------
(* The steps of one call.                                                  *)

\* The worker calls iperf_run_server.
Call(w) ==
    /\ at[w] = "out"
    /\ at' = [at EXCEPT ![w] = "enter"]
    /\ UNCHANGED <<state, listener, backlog, session>>

\* iperf_server_listen succeeds: from here the kernel accepts connections.
Listen(w) ==
    /\ at[w] = "enter"
    /\ at' = [at EXCEPT ![w] = "arm"]
    /\ listener' = [listener EXCEPT ![w] = "open"]
    /\ UNCHANGED <<state, backlog, session>>

\* json_start or netannounce fails (port in use): cleanup_server, return -2.
ListenFails(w) ==
    /\ at[w] = "enter"
    /\ at' = [at EXCEPT ![w] = "err"]
    /\ UNCHANGED <<state, listener, backlog, session>>

\* iperf_set_test_state(test, IPERF_START): whatever was there is overwritten.
Arm(w) ==
    /\ at[w] = "arm"
    /\ at' = [at EXCEPT ![w] = "top"]
    /\ state' = [state EXCEPT ![w] = "IPERF_START"]
    /\ UNCHANGED <<listener, backlog, session>>

\* while (test->state != IPERF_DONE); the test may exceed its rate limit too.
LoopTest(w) ==
    /\ at[w] = "top"
    /\ at' = [at EXCEPT ![w] = IF state[w] = "IPERF_DONE" THEN "ok" ELSE "select"]
    /\ UNCHANGED <<state, listener, backlog, session>>

\* A round of the loop serves the listening socket, unless it waits for the
\* streams of a UDP test.
LooksAtListener(w) == at[w] = "select" /\ state[w] # "UDP_STREAMS"

\* Mutant: a failed accept is ignored.
AcceptShutIgnored(w) ==
    /\ LooksAtListener(w)
    /\ listener[w] = "shut"
    /\ at' = [at EXCEPT ![w] = "top"]
    /\ UNCHANGED <<state, listener, backlog, session>>

\* select reports the dead socket readable and accept fails (IEACCEPT).
AcceptShut(w) ==
    /\ LooksAtListener(w)
    /\ listener[w] = "shut"
    /\ at' = [at EXCEPT ![w] = "err"]
    /\ UNCHANGED <<state, listener, backlog, session>>

HasConnection(w) ==
    /\ LooksAtListener(w)
    /\ listener[w] = "open"
    /\ backlog[w] # <<>>

PopBacklog(w) == backlog' = [backlog EXCEPT ![w] = Tail(@)]

\* A free server takes a client; its cookie and parameters are still to come.
AcceptClient(w) ==
    /\ HasConnection(w)
    /\ Head(backlog[w]) = "client"
    /\ ~session[w]
    /\ PopBacklog(w)
    /\ session' = [session EXCEPT ![w] = TRUE]
    /\ UNCHANGED <<at, state, listener>>

\* A nudge never sends a cookie, the thread that made it has closed it.
\* iperf_accept leaves ctrl_sck set.
AcceptFails(w) ==
    /\ HasConnection(w)
    /\ Head(backlog[w]) = "nudge"
    /\ ~session[w]
    /\ PopBacklog(w)
    /\ at' = [at EXCEPT ![w] = "err"]
    /\ session' = [session EXCEPT ![w] = TRUE]
    /\ UNCHANGED <<state, listener>>

\* A busy server answers ACCESS_DENIED and goes on with this round of its loop;
\* in CREATE_STREAMS of TCP it takes a stream, finds the cookie wrong, or fails.
AcceptDenied(w) ==
    /\ HasConnection(w)
    /\ session[w]
    /\ PopBacklog(w)
    /\ \E p \in {"select", "top", "err"} : at' = [at EXCEPT ![w] = p]
    /\ UNCHANGED <<state, listener, session>>

\* select reports the listening socket readable and the round passes it over: the
\* next one finds it readable again, so that select does not block or time out.
PassOverListener(w) ==
    /\ at[w] = "select"
    /\ state[w] = "UDP_STREAMS"
    /\ listener[w] = "shut" \/ (listener[w] = "open" /\ backlog[w] # <<>>)
    /\ at' = [at EXCEPT ![w] = "top"]
    /\ UNCHANGED <<state, listener, backlog, session>>

\* A handler stores the next state of the session (PARAM_EXCHANGE, CREATE_STREAMS,
\* EXCHANGE_RESULTS, TEST_START, ...), over a stop's IPERF_DONE too, and still has
\* work to do.
SessionStores(w) ==
    /\ at[w] = "select"
    /\ session[w]
    /\ \E s \in Testing : state' = [state EXCEPT ![w] = s]
    /\ UNCHANGED <<at, listener, backlog, session>>

\* A handler ends: the session has moved on, or is over.  Nread stores the
\* client's message in test->state itself.
SessionMessage(w) ==
    /\ at[w] = "select"
    /\ session[w]
    /\ \E s \in Testing \cup {"IPERF_DONE"} : state' = [state EXCEPT ![w] = s]
    /\ at' = [at EXCEPT ![w] = "top"]
    /\ UNCHANGED <<listener, backlog, session>>

\* Only a test has timers or a receive timeout: the idle server
\* (idle_timeout = 0) stays in select for ever.
InTest(w) ==
    /\ at[w] = "select"
    /\ session[w] \/ state[w] \in Testing

\* The handshake, a message, a stream or the receive timeout ends the test with
\* an error; SERVER_ERROR may be stored.
SessionFails(w) ==
    /\ InTest(w)
    /\ at' = [at EXCEPT ![w] = "err"]
    /\ \E s \in {state[w], "ACTIVE"} : state' = [state EXCEPT ![w] = s]
    /\ UNCHANGED <<listener, backlog, session>>

\* select times out, the timers run, and the loop test is reached again.
SelectTimeout(w) ==
    /\ InTest(w)
    /\ at' = [at EXCEPT ![w] = "top"]
    /\ UNCHANGED <<state, listener, backlog, session>>

\* A TCP test with an MSS, a window size or no-delay has the listening socket
\* closed once its parameters are known, and again when all its streams are
\* there.  Whoever waited in the backlog, a nudge too, is turned away, and what
\* a shutdown() did to the socket is undone.
CloseListener(w) ==
    /\ LooksAtListener(w)
    /\ session[w]
    /\ at' = [at EXCEPT ![w] = "relisten"]
    /\ listener' = [listener EXCEPT ![w] = "closed"]
    /\ backlog' = [backlog EXCEPT ![w] = <<>>]
    /\ UNCHANGED <<state, session>>

\* The new socket listens on the same port, and test->listener is its number;
\* until then it is that of the closed one.
Reopen(w) ==
    /\ at[w] = "relisten"
    /\ at' = [at EXCEPT ![w] = "select"]
    /\ listener' = [listener EXCEPT ![w] = "open"]
    /\ UNCHANGED <<state, backlog, session>>

\* bind, listen or a socket option fails: SERVER_ERROR may be stored.
ReopenFails(w) ==
    /\ at[w] = "relisten"
    /\ at' = [at EXCEPT ![w] = "err"]
    /\ \E s \in {state[w], "ACTIVE"} : state' = [state EXCEPT ![w] = s]
    /\ UNCHANGED <<listener, backlog, session>>

Finished(w) == at[w] \in {"ok", "err"}

\* cleanup_server closes everything; the call returns.
Return(w) ==
    /\ Finished(w)
    /\ at' = [at EXCEPT ![w] = "out"]
    /\ listener' = [listener EXCEPT ![w] = "closed"]
    /\ backlog' = [backlog EXCEPT ![w] = <<>>]
    /\ session' = [session EXCEPT ![w] = FALSE]
    /\ UNCHANGED state

\* The worker's own steps inside the call, up to its return.
Advance(w) ==
    \/ Listen(w) \/ ListenFails(w) \/ Arm(w) \/ LoopTest(w)
    \/ AcceptShut(w) \/ AcceptClient(w) \/ AcceptFails(w) \/ AcceptDenied(w)
    \/ PassOverListener(w) \/ SelectTimeout(w)
    \/ SessionStores(w) \/ SessionMessage(w) \/ SessionFails(w)
    \/ CloseListener(w) \/ Reopen(w) \/ ReopenFails(w)

----------------------------------------------------------------------------
(* What others do to a server.                                             *)

Waiting(w, kind) == Cardinality({i \in DOMAIN backlog[w] : backlog[w][i] = kind})

\* A remote client connects; MaxClients bounds the ones that wait.
ClientConnects(w) ==
    /\ listener[w] = "open"
    /\ Waiting(w, "client") < MaxClients
    /\ backlog' = [backlog EXCEPT ![w] = Append(@, "client")]
    /\ UNCHANGED <<at, state, listener, session>>

\* t->done = 1; iperf_set_test_state(t, IPERF_DONE).
MarkDone(w) ==
    /\ state' = [state EXCEPT ![w] = "IPERF_DONE"]
    /\ UNCHANGED <<at, listener, backlog, session>>

\* shutdown(t->listener, SHUT_RDWR); a socket that stops listening drops its
\* backlog.  On any other value of the field it does nothing to this server.
Shutdown(w) ==
    \E works \in ShutdownOutcomes :
        IF works /\ listener[w] = "open"
        THEN /\ listener' = [listener EXCEPT ![w] = "shut"]
             /\ backlog' = [backlog EXCEPT ![w] = <<>>]
             /\ UNCHANGED <<at, state, session>>
        ELSE UNCHANGED serverVars

\* connect() to loopback and close(): queued if the socket listens, else refused.
\* More than MaxNudges waiting at once make no difference: the first one that
\* a free server accepts ends its run, and the others go with the socket.
Nudge(w) ==
    /\ backlog' = [backlog EXCEPT ![w] =
                      IF listener[w] = "open" /\ Waiting(w, "nudge") < MaxNudges
                      THEN Append(@, "nudge") ELSE @]
    /\ UNCHANGED <<at, state, listener, session>>

\* iperf_free_test.  The fields of a test that is not allocated have the values
\* that the memset of the next iperf_new_test gives them.
FreeFields(w) ==
    /\ state' = [state EXCEPT ![w] = "INIT"]
    /\ listener' = [listener EXCEPT ![w] = "zero"]
    /\ UNCHANGED <<at, backlog, session>>

\* iperf_defaults: the descriptors become -1.
Defaults(w) ==
    /\ listener' = [listener EXCEPT ![w] = "closed"]
    /\ UNCHANGED <<at, state, backlog, session>>

\* iperf_reset_test between two calls: test->state = 0, test->listener = -1.
ResetTest(w) ==
    /\ state' = [state EXCEPT ![w] = "INIT"]
    /\ listener' = [listener EXCEPT ![w] = "closed"]
    /\ UNCHANGED <<at, backlog, session>>

----------------------------------------------------------------------------
(* One call on its own, from a test that has its defaults.                 *)

Called(w) ==
    /\ at = [v \in Workers |-> IF v = w THEN "enter" ELSE "out"]
    /\ state = [v \in Workers |-> "INIT"]
    /\ listener = [v \in Workers |-> "closed"]
    /\ backlog = [v \in Workers |-> <<>>]
    /\ session = [v \in Workers |-> FALSE]

CallStep(w) ==
    \/ Advance(w) \/ Return(w)
    \/ ClientConnects(w) \/ MarkDone(w) \/ Shutdown(w) \/ Nudge(w)
=============================================================================
