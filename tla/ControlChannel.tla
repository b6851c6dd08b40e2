--------------------------- MODULE ControlChannel ---------------------------
(***************************************************************************)
(* What an iperf3 server and its clients share: the accept queue of the    *)
(* listening socket and, for each client, the control connection, a byte   *)
(* stream in both directions.  It carries one-byte states and, in between, *)
(* length-prefixed JSON (parameters, results): nothing in the stream says  *)
(* which of the two comes next, both ends must know.                       *)
(***************************************************************************)
EXTENDS Naturals, Sequences

CONSTANTS
    Clients,        \* clients; the cookie of a client is the client itself
    None,           \* no client; also the sender of a nudge
    NumStreams      \* test->num_streams (-P), streams in one direction

ASSUME ClientsAssumption == None \notin Clients
ASSUME StreamsAssumption == NumStreams \in Nat \ {0}

VARIABLES
    listener,   \* the listening socket: "closed", "open" or "shut"
    queue,      \* connections waiting in its backlog, oldest first
    toServer,   \* toServer[c]: bytes of c's control connection the server has not read
    toClient,   \* toClient[c]: bytes of that connection c has not read
    setup       \* setup[c]: what c asks for: the server's mode; whether the test has a
                \* duration (-t) or ends after some bytes or blocks; whether it is
                \* tuned, by an MSS (-M), a window size (-w) or no-delay (-N)

channelVars == <<listener, queue, toServer, toClient, setup>>

\* A connection is the client and what it is for: 0 the control connection,
\* i > 0 the i-th stream.  The embedder's nudge is <<None, 0>>.
Control(c) == <<c, 0>>
Stream(c, i) == <<c, i>>
NudgeConnection == <<None, 0>>
Connections == (Clients \X (0 .. 2 * NumStreams)) \cup {NudgeConnection}

Modes == {"SENDER", "RECEIVER", "BIDIRECTIONAL"}
Setups == [mode : Modes, timed : BOOLEAN, tuned : BOOLEAN]
States == {"INIT", "IPERF_START", "PARAM_EXCHANGE", "CREATE_STREAMS", "TEST_START",
           "TEST_RUNNING", "TEST_END", "EXCHANGE_RESULTS", "DISPLAY_RESULTS",
           "IPERF_DONE", "CLIENT_TERMINATE", "ACCESS_DENIED", "SERVER_ERROR"}
Json == {"PARAMS", "RESULTS"}
Tokens == States \cup Json \cup {"COOKIE", "FIN"}

ChannelTypeOK ==
    /\ listener \in {"closed", "open", "shut"}
    /\ queue \in Seq(Connections)
    /\ toServer \in [Clients -> Seq(Tokens)]
    /\ toClient \in [Clients -> Seq(Tokens)]
    /\ setup \in [Clients -> Setups]

ChannelInit(setups) ==
    /\ listener = "closed"
    /\ queue = <<>>
    /\ toServer = [c \in Clients |-> <<>>]
    /\ toClient = [c \in Clients |-> <<>>]
    /\ setup \in [Clients -> setups]

StreamsFor(mode) == IF mode = "BIDIRECTIONAL" THEN 2 * NumStreams ELSE NumStreams

\* Nwrite of the client's end, of the server's end.
ClientSends(c, tokens) == toServer' = [toServer EXCEPT ![c] = @ \o tokens]
ServerSends(c, tokens) == toClient' = [toClient EXCEPT ![c] = @ \o tokens]

\* The next thing the server, or the client, will read.
NextIs(stream, token) == stream # <<>> /\ Head(stream) = token

ServerReads(c) == toServer' = [toServer EXCEPT ![c] = Tail(@)]
ClientReads(c) == toClient' = [toClient EXCEPT ![c] = Tail(@)]

\* The server's end of these control connections closes.
ServerCloses(cs) ==
    toClient' = [c \in Clients |-> IF c \in cs THEN Append(toClient[c], "FIN") ELSE toClient[c]]
=============================================================================
