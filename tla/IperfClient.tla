----------------------------- MODULE IperfClient -----------------------------
(***************************************************************************)
(* iperf_run_client (iperf_client_api.c), the other end of the control     *)
(* protocol, once per client.  The embedding apps do not run it, but it is *)
(* the program their server talks to.  One step is one round of its select *)
(* loop; a read that may wait inside a round is a step of its own.         *)
(***************************************************************************)
EXTENDS ControlChannel

VARIABLES
    cpc,        \* cpc[c]: where the call is
    cstate,     \* cstate[c]: test->state
    created,    \* created[c]: streams iperf_create_streams has connected
    cthreads    \* cthreads[c]: the stream threads run

clientVars == <<cpc, cstate, created, cthreads>>

\* "silent": the host, or its network, is gone without a word.
Ended == {"done", "failed", "killed", "silent"}

ClientTypeOK ==
    /\ cpc \in [Clients -> {"idle", "dialled", "select", "creating", "results"} \cup Ended]
    /\ cstate \in [Clients -> States]
    /\ created \in [Clients -> 0 .. 2 * NumStreams]
    /\ cthreads \in [Clients -> BOOLEAN]

ClientInit ==
    /\ cpc = [c \in Clients |-> "idle"]
    /\ cstate = [c \in Clients |-> "INIT"]
    /\ created = [c \in Clients |-> 0]
    /\ cthreads = [c \in Clients |-> FALSE]

\* The client's mode mirrors the server's: whether its i-th stream is a sender.
Mirror(m) == CASE m = "SENDER" -> "RECEIVER" [] m = "RECEIVER" -> "SENDER" [] OTHER -> m

\* Mutant: a bidirectional client creates its receivers first.
SendsOnLast(c, i) ==
    LET m == Mirror(setup[c].mode) IN
    IF m = "BIDIRECTIONAL" THEN i > NumStreams ELSE m = "SENDER"

\* A bidirectional client creates its senders first.
SendsOn(c, i) ==
    LET m == Mirror(setup[c].mode) IN
    IF m = "BIDIRECTIONAL" THEN i <= NumStreams ELSE m = "SENDER"

Goto(c, place) == cpc' = [cpc EXCEPT ![c] = place]
Becomes(c, s) == cstate' = [cstate EXCEPT ![c] = s]

----------------------------------------------------------------------------
\* netdial: the kernel completes the connection as soon as the socket listens.
Dial(c) ==
    /\ cpc[c] = "idle"
    /\ IF listener = "open"
       THEN /\ queue' = Append(queue, Control(c))
            /\ Goto(c, "dialled")
       ELSE /\ Goto(c, "failed")
            /\ UNCHANGED queue
    /\ UNCHANGED <<cstate, created, cthreads, listener, toServer, toClient, setup>>

SendCookie(c) ==
    /\ cpc[c] = "dialled"
    /\ ClientSends(c, <<"COOKIE">>)
    /\ Goto(c, "select")
    /\ UNCHANGED <<cstate, created, cthreads, listener, queue, toClient, setup>>

Hears(c, token) == cpc[c] = "select" /\ NextIs(toClient[c], token)

SendParameters(c) ==
    /\ Hears(c, "PARAM_EXCHANGE")
    /\ ClientReads(c)
    /\ Becomes(c, "PARAM_EXCHANGE")
    /\ ClientSends(c, <<"PARAMS">>)
    /\ UNCHANGED <<cpc, created, cthreads, listener, queue, setup>>

HearCreateStreams(c) ==
    /\ Hears(c, "CREATE_STREAMS")
    /\ ClientReads(c)
    /\ Becomes(c, "CREATE_STREAMS")
    /\ Goto(c, "creating")
    /\ UNCHANGED <<created, cthreads, listener, queue, toServer, setup>>

\* iperf_create_streams, one connection; the last one ends the round.
ConnectStream(c) ==
    /\ cpc[c] = "creating"
    /\ listener = "open"
    /\ created' = [created EXCEPT ![c] = @ + 1]
    /\ queue' = Append(queue, Stream(c, created'[c]))
    /\ Goto(c, IF created'[c] = StreamsFor(setup[c].mode) THEN "select" ELSE "creating")
    /\ UNCHANGED <<cstate, cthreads, listener, toServer, toClient, setup>>

\* Timers and statistics of the test.
HearTestStart(c) ==
    /\ Hears(c, "TEST_START")
    /\ ClientReads(c)
    /\ Becomes(c, "TEST_START")
    /\ UNCHANGED <<cpc, created, cthreads, listener, queue, toServer, setup>>

HearTestRunning(c) ==
    /\ Hears(c, "TEST_RUNNING")
    /\ ClientReads(c)
    /\ Becomes(c, "TEST_RUNNING")
    /\ cthreads' = [cthreads EXCEPT ![c] = TRUE]
    /\ UNCHANGED <<cpc, created, listener, queue, toServer, setup>>

\* test_timer_proc, or enough bytes or blocks: senders are cancelled and joined.
EndOfTest(c) ==
    /\ cpc[c] = "select"
    /\ cstate[c] = "TEST_RUNNING"
    /\ cthreads[c]
    /\ Becomes(c, "TEST_END")
    /\ ClientSends(c, <<"TEST_END">>)
    /\ UNCHANGED <<cpc, created, cthreads, listener, queue, toClient, setup>>

SendResults(c) ==
    /\ Hears(c, "EXCHANGE_RESULTS")
    /\ ClientReads(c)
    /\ Becomes(c, "EXCHANGE_RESULTS")
    /\ ClientSends(c, <<"RESULTS">>)
    /\ Goto(c, "results")
    /\ UNCHANGED <<created, cthreads, listener, queue, setup>>

GetResults(c) ==
    /\ cpc[c] = "results"
    /\ NextIs(toClient[c], "RESULTS")
    /\ ClientReads(c)
    /\ Goto(c, "select")
    /\ UNCHANGED <<cstate, created, cthreads, listener, queue, toServer, setup>>

\* iperf_client_end: IPERF_DONE is stored and sent, the loop ends.
HearDisplayResults(c) ==
    /\ Hears(c, "DISPLAY_RESULTS")
    /\ ClientReads(c)
    /\ Becomes(c, "IPERF_DONE")
    /\ ClientSends(c, <<"IPERF_DONE", "FIN">>)
    /\ cthreads' = [cthreads EXCEPT ![c] = FALSE]
    /\ Goto(c, "done")
    /\ UNCHANGED <<created, listener, queue, setup>>

----------------------------------------------------------------------------
\* cleanup_and_fail: threads joined, then iperf_client_end, which reports
\* IPERF_DONE to the server unless test->state is an error or still 0.
CleanupAndFail(c, last) ==
    /\ Goto(c, "failed")
    /\ Becomes(c, last)
    /\ cthreads' = [cthreads EXCEPT ![c] = FALSE]
    /\ ClientSends(c, IF last \in {"INIT", "ACCESS_DENIED", "SERVER_ERROR"}
                      THEN <<"FIN">> ELSE <<"IPERF_DONE", "FIN">>)

\* A refusal, the end of the connection, or what is no message at all.
HearEnd(c) ==
    /\ cpc[c] = "select"
    /\ toClient[c] # <<>>
    /\ LET token == Head(toClient[c]) IN
        /\ token \in {"ACCESS_DENIED", "SERVER_ERROR", "FIN"} \cup Json
        /\ CleanupAndFail(c, CASE token = "FIN" -> cstate[c]
                               [] token \in Json -> "INIT"
                               [] OTHER -> token)
    /\ UNCHANGED <<created, listener, queue, toClient, setup>>

\* connect is refused; get_results reads the end of the connection or times
\* out; a write fails; nothing is received for rcv_timeout.
Fails(c) ==
    /\ \/ cpc[c] = "creating" /\ listener # "open"
       \/ cpc[c] = "results" /\ ~NextIs(toClient[c], "RESULTS")
       \/ /\ cpc[c] = "select" /\ cstate[c] = "TEST_RUNNING"
          /\ Mirror(setup[c].mode) # "SENDER"
          /\ toClient[c] = <<>>
    /\ CleanupAndFail(c, cstate[c])
    /\ UNCHANGED <<created, listener, queue, toClient, setup>>

Running(c) == cpc[c] \in {"dialled", "select", "creating", "results"}

\* iperf_got_sigend, or the process is killed.
Killed(c) ==
    /\ Running(c)
    /\ Goto(c, "killed")
    /\ cthreads' = [cthreads EXCEPT ![c] = FALSE]
    /\ \E last \in {<<"FIN">>, <<"CLIENT_TERMINATE", "FIN">>} : ClientSends(c, last)
    /\ UNCHANGED <<cstate, created, listener, queue, toClient, setup>>

GoesSilent(c) ==
    /\ Running(c)
    /\ Goto(c, "silent")
    /\ cthreads' = [cthreads EXCEPT ![c] = FALSE]
    /\ UNCHANGED <<cstate, created, channelVars>>

ClientStep(c) ==
    \/ SendCookie(c) \/ SendParameters(c) \/ HearCreateStreams(c) \/ ConnectStream(c)
    \/ HearTestStart(c) \/ HearTestRunning(c) \/ EndOfTest(c) \/ SendResults(c)
    \/ GetResults(c) \/ HearDisplayResults(c) \/ HearEnd(c) \/ Fails(c)
=============================================================================
