----------------------------- MODULE TestSetup -----------------------------
(* A server that serves one UDP test after the other: the parameters come as     *)
(* JSON and become the settings of the one struct iperf_test, the streams are    *)
(* made, the results are exchanged, and the worker of the bridge resets the test *)
(* for the next client.  A call that fails ends the worker; the application may  *)
(* start another one.  The one-byte states of the control connection, which      *)
(* IperfSession models, are joint steps here.                                    *)
EXTENDS JsonChannel, UdpStreams, FiniteSets

CONSTANTS
    Requests,       \* the settings that clients ask for
    MaxParams,      \* MAX_PARAMS_JSON_STRING
    MaxTests        \* bound: the tests that are begun

\* The fields of the parameters that a client always sends, ...
AlwaysSent == {"omit", "time", "num", "blockcount", "parallel"}

\* ... those it sends when they are set, ...
Optional == {"server_affinity", "MSS", "nodelay", "reverse", "bidirectional", "window",
             "len", "bandwidth", "fqrate", "burst", "TOS", "title", "extra_data",
             "congestion", "udp_counters_64bit", "zerocopy", "dont_fragment", "skip_rx_copy"}

\* ... and of these the ones that iperf_reset_test does not reset.
Kept == {"get_server_output", "repeating_payload", "pacing_timer", "flowlabel"}

Fields == AlwaysSent \cup Optional \cup Kept

\* iperf_defaults; 0 stands for a field that is not set.
Defaults == [f \in Fields |-> IF f = "parallel" THEN 1 ELSE 0]

ASSUME SetupAssumption ==
    /\ Requests \subseteq [Fields -> Nat]
    /\ MaxParams \in Nat \ {0} /\ MaxTests \in Nat

VARIABLES
    stage,      \* the server: where it is with the test
    settings,   \* its test: the fields of struct iperf_test and iperf_settings
    phase,      \* the client
    asked,      \* what it was told to test
    tests       \* the tests begun

vars == <<channel, udpStreams, stage, settings, phase, asked, tests>>

Init ==
    /\ ChannelInit /\ UdpInit
    /\ stage = "accept" /\ settings = Defaults
    /\ phase = "none" /\ asked = Defaults /\ tests = 0

streams == settings["parallel"]

SentFields(request) == AlwaysSent \cup {f \in Optional \cup Kept : request[f] # 0}

\* send_parameters.  The size of the text grows with its optional fields.
ParametersText(request) ==
    LET fields == SentFields(request)
    IN  [size |-> 1 + Cardinality(fields \ AlwaysSent), values |-> [f \in fields |-> request[f]]]

ResultsText == [size |-> 1, values |-> <<>>]

-----------------------------------------------------------------------------
(* The parameters                                                             *)

\* The client connects and sends its parameters; the server reads them.
Connect ==
    /\ stage = "accept" /\ tests < MaxTests
    /\ phase \in {"none", "done", "failed"}
    /\ \E request \in Requests :
        /\ asked' = request
        /\ Open(ParametersText(request), MaxParams)
    /\ phase' = "parameters" /\ stage' = "parameters"
    /\ tests' = tests + 1
    /\ UNCHANGED <<udpStreams, settings>>

\* get_parameters: a field the text has overwrites the setting, others stay, but
\* for the two that are cleared first.
Apply(values) ==
    [f \in Fields |-> IF f \in DOMAIN values THEN values[f]
                      ELSE IF f \in {"num", "blockcount"} THEN 0
                      ELSE settings[f]]

GetParameters ==
    /\ stage = "parameters"
    /\ BodyIsRead
    /\ settings' = Apply(received'[Len(received')].values)
    /\ stage' = "parameters_read"
    /\ UNCHANGED <<udpStreams, phase, asked, tests>>

\* iperf_udp_listen, then CREATE_STREAMS.
CreateStreams ==
    /\ stage = "parameters_read"
    /\ UdpListen
    /\ stage' = "streams"
    /\ UNCHANGED <<channel, settings, phase, asked, tests>>

\* Bytes move on the control connection.
Transfer ==
    /\ \/ phase \in {"parameters", "results"} /\ WriteSome
       \/ ReadSome
       \/ LengthIsRead
    /\ UNCHANGED <<udpStreams, stage, settings, phase, asked, tests>>

-----------------------------------------------------------------------------
(* The streams                                                                *)

\* The client has CREATE_STREAMS and makes its streams one after the other.
ConnectStream ==
    /\ stage \in {"streams", "running"}
    /\ phase \in {"parameters", "streams"} /\ phase' = "streams"
    /\ connected < asked["parallel"]
    /\ Dial(tests)
    /\ UNCHANGED <<channel, stage, settings, asked, tests>>

StreamConnected ==
    /\ \/ Answered(tests)
       \/ stage = "running" /\ ReadEarly(tests, asked["reverse"] # 0)
    /\ UNCHANGED <<channel, stage, settings, phase, asked, tests>>

\* iperf_udp_accept enlarges socket buffers that are smaller than a block, when
\* the client asked for no size.
ServerTakesHello ==
    /\ stage = "streams"
    /\ TakeHello
    /\ settings' \in {settings} \cup
        IF settings["window"] = 0 THEN {[settings EXCEPT !["window"] = 1]} ELSE {}
    /\ UNCHANGED <<channel, stage, phase, asked, tests>>

\* The stream is there; after the last one the test runs.
ServerAccepts ==
    /\ stage = "streams"
    /\ AcceptStream(streams)
    /\ stage' = IF Len(accepted') = streams THEN "running" ELSE stage
    /\ UNCHANGED <<channel, settings, phase, asked, tests>>

DeliverHello == Deliver /\ UNCHANGED <<channel, stage, settings, phase, asked, tests>>

-----------------------------------------------------------------------------
(* The test and its results                                                   *)

\* All streams are connected and TEST_START and TEST_RUNNING have come.
ClientRuns ==
    /\ phase = "streams" /\ ~waiting /\ connected = asked["parallel"]
    /\ stage = "running"
    /\ phase' = "running"
    /\ UNCHANGED <<channel, udpStreams, stage, settings, asked, tests>>

\* TEST_END and EXCHANGE_RESULTS: the client writes its results, the server reads.
ExchangeResults ==
    /\ phase = "running" /\ stage = "running"
    /\ written = Offered
    /\ reading = "idle" /\ ~broken
    /\ sent' = Append(sent, Frame(Offered, ResultsText))
    /\ reading' = "length" /\ limit' = 0 /\ got' = 0
    /\ phase' = "results" /\ stage' = "results"
    /\ UNCHANGED <<written, taken, hsize, received, broken, udpStreams, settings, asked, tests>>

\* get_results; the server's results and DISPLAY_RESULTS end the test.
GetResults ==
    /\ stage = "results"
    /\ BodyIsRead
    /\ stage' = "finished" /\ phase' = "done"
    /\ CloseUdp
    /\ UNCHANGED <<settings, asked, tests>>

-----------------------------------------------------------------------------
(* Failures, and the next test                                                *)

\* A stream that does not connect, a signal, an error: the client gives up.
ClientFails ==
    /\ \/ phase = "streams" /\ GivesUp
       \/ phase \in {"parameters", "running", "results"}
    /\ phase' = "failed"
    /\ waiting' = FALSE
    /\ UNCHANGED <<channel, connected, early, udpNetwork, udpServer, stage, settings, asked, tests>>

\* The server reads the end of the control connection, or CLIENT_TERMINATE: the
\* call returns 0.
ClientIsGone ==
    /\ stage \in {"streams", "running"}
    /\ phase = "failed"
    /\ stage' = "finished"
    /\ CloseUdp
    /\ UNCHANGED <<channel, settings, phase, asked, tests>>

\* JSON_read returns NULL, the listening socket or the accept of a stream fails:
\* the call returns -1, the worker ends, the client's connection with it.
ServerFails ==
    /\ \/ stage \in {"parameters", "results"} /\ (ReadEnds \/ LengthRefused)
       \/ stage = "parameters_read" /\ UNCHANGED channel
       \/ stage = "streams" /\ peer # Nobody /\ UNCHANGED channel
    /\ stage' = "dead"
    /\ phase' = IF phase = "none" THEN phase ELSE "failed"
    /\ CloseUdp
    /\ UNCHANGED <<settings, asked, tests>>

\* Mutant: the direction of the last test is kept.
ResetTestKeepsReverse ==
    /\ stage = "finished"
    /\ settings' = [f \in Fields |-> IF f \in Kept \cup {"reverse"} THEN settings[f] ELSE Defaults[f]]
    /\ stage' = "accept"
    /\ UNCHANGED <<channel, udpStreams, phase, asked, tests>>

\* The worker calls iperf_reset_test and iperf_run_server again.
ResetTest ==
    /\ stage = "finished"
    /\ settings' = [f \in Fields |-> IF f \in Kept THEN settings[f] ELSE Defaults[f]]
    /\ stage' = "accept"
    /\ UNCHANGED <<channel, udpStreams, phase, asked, tests>>

\* start() is called again: iperf_new_test and iperf_defaults.
StartAgain ==
    /\ stage = "dead"
    /\ settings' = Defaults
    /\ stage' = "accept"
    /\ UNCHANGED <<channel, udpStreams, phase, asked, tests>>

-----------------------------------------------------------------------------
ServerStep ==
    \/ GetParameters \/ CreateStreams \/ ServerTakesHello \/ ServerAccepts
    \/ GetResults \/ ClientIsGone \/ ServerFails \/ ResetTest \/ StartAgain

ClientStep == ConnectStream \/ StreamConnected \/ ClientRuns \/ ExchangeResults \/ ClientFails

Over == tests = MaxTests /\ stage = "accept" /\ UNCHANGED vars

Next == Connect \/ Transfer \/ ServerStep \/ ClientStep \/ DeliverHello \/ Over

Spec == Init /\ [][Next]_vars

\* Threads run; timeouts of reads and sockets pass.  Datagrams may never arrive.
FairSpec ==
    /\ Spec
    /\ WF_vars(Transfer) /\ WF_vars(ServerStep)
    /\ WF_vars(ConnectStream \/ StreamConnected \/ ClientRuns) /\ WF_vars(phase = "streams" /\ ClientFails)

-----------------------------------------------------------------------------
(* Properties                                                                 *)

TypeOK ==
    /\ settings \in [Fields -> Nat]
    /\ asked \in [Fields -> Nat]
    /\ tests \in 0 .. MaxTests
    /\ stage \in {"accept", "parameters", "parameters_read", "streams", "running",
                  "results", "finished", "dead"}
    /\ phase \in {"none", "parameters", "streams", "running", "results", "done", "failed"}

\* A test is run with the settings its own client asked for: nothing is left over
\* from the tests before it, however they ended, and nothing is lost on the way.
\* The fields in Kept stay set once a client has set them; udp_accept may enlarge
\* the window of a test that asked for none.
ServedAsAsked ==
    stage \in {"parameters_read", "streams", "running", "results"} =>
        \A f \in Fields \ Kept :
            settings[f] = asked[f] \/ (f = "window" /\ asked[f] = 0)

\* Each stream the client has connected is one the server has accepted, the server
\* accepts no stream twice though its hello may come twice, and the test runs with
\* the streams the client asked for.  A late hello of an earlier test may take the
\* place of a stream: nothing in the datagram tells them apart.
Stray == \E p \in ToSet(accepted) : p[1] # tests

StreamsPaired ==
    /\ \A i, j \in DOMAIN accepted : accepted[i] = accepted[j] => i = j
    /\ phase \in {"streams", "running"} =>
        \A i \in 1 .. connected : <<tests, i>> \in ToSet(accepted)
    /\ (stage = "running" /\ ~Stray) =>
        ToSet(accepted) = {<<tests, i>> : i \in 1 .. asked["parallel"]}

\* Lost datagrams are not sent again, and yet neither end waits for ever: the
\* client runs its test or gives up, and the server ends the setup either way.
SetupEnds ==
    /\ phase \in {"parameters", "streams"} ~> phase \in {"running", "done", "failed"}
    /\ stage \in {"parameters", "parameters_read", "streams"} ~>
        stage \in {"running", "finished", "dead"}

AllTexts == {ParametersText(r) : r \in Requests} \cup {ResultsText}
SentTexts == [i \in DOMAIN sent |-> sent[i].text]

\* The server gets the texts of its client whole and in order, or its read fails
\* and the connection is read no more.
Messages == INSTANCE MessageChannel WITH Texts <- AllTexts, sent <- SentTexts

ImplementsMessageChannel == Messages!Spec
=============================================================================
