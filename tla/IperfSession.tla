---------------------------- MODULE IperfSession ----------------------------
(***************************************************************************)
(* A server run with its clients, and the embedder that may stop it: the   *)
(* composition of IperfServer and IperfClient over the control channel.    *)
(***************************************************************************)
EXTENDS IperfServer, IperfClient, FiniteSets

CONSTANTS
    TestSetups,     \* the tests clients may ask for
    MaxFaults,      \* bound: clients that are killed or go silent
    Faults,         \* \subseteq {"killed", "silent"}
    MaxStops,       \* bound: how often the embedder stops the server
    ShutdownOutcomes

ASSUME SessionAssumption ==
    /\ IsFiniteSet(Clients)
    /\ TestSetups \subseteq Setups
    /\ MaxFaults \in Nat /\ MaxStops \in Nat
    /\ ShutdownOutcomes \subseteq BOOLEAN

VARIABLES faults, stop, stops

vars == <<serverVars, clientVars, channelVars, faults, stop, stops>>

TypeOK ==
    /\ ChannelTypeOK /\ ServerTypeOK /\ ClientTypeOK
    /\ faults \in 0 .. MaxFaults
    /\ stop \in {"idle", "shutdown", "nudge"}
    /\ stops \in 0 .. MaxStops

Init ==
    /\ ChannelInit(TestSetups) /\ ServerInit /\ ClientInit
    /\ faults = 0 /\ stop = "idle" /\ stops = 0

----------------------------------------------------------------------------
(* safe_interrupt_iperf, in the embedder's thread.                         *)

MarkDone ==
    /\ stop = "idle"
    /\ stops < MaxStops
    /\ pc \notin {"enter", "out"}
    /\ stops' = stops + 1
    /\ state' = "IPERF_DONE"
    /\ done' = TRUE
    /\ stop' = "shutdown"
    /\ UNCHANGED <<pc, dead, streams, threads, stray, timer, controlVars, clientVars,
                   channelVars, faults>>

\* A socket that stops listening resets the connections in its backlog.
Shutdown ==
    /\ stop = "shutdown"
    /\ stop' = "nudge"
    /\ \E works \in ShutdownOutcomes :
        IF works /\ listener = "open"
        THEN /\ listener' = "shut"
             /\ queue' = <<>>
             /\ ServerCloses(Waiting)
        ELSE UNCHANGED <<listener, queue, toClient>>
    /\ UNCHANGED <<serverVars, clientVars, toServer, setup, faults, stops>>

\* Mutant: the port is not known, nothing connects (iperf_jni.cpp:131).
NudgeNowhere ==
    /\ stop = "nudge"
    /\ stop' = "idle"
    /\ UNCHANGED <<serverVars, clientVars, channelVars, faults, stops>>

Nudge ==
    /\ stop = "nudge"
    /\ stop' = "idle"
    /\ queue' = IF listener = "open" THEN Append(queue, NudgeConnection) ELSE queue
    /\ UNCHANGED <<serverVars, clientVars, listener, toServer, toClient, setup, faults, stops>>

Stop == MarkDone \/ Shutdown \/ Nudge

----------------------------------------------------------------------------
(* What time and the network allow.                                        *)

\* Data arrives: the client's threads run, or those of the server, and the
\* other end, or its kernel, takes it.
DataFlows == ctrl_sck # None /\ cthreads[ctrl_sck] /\ threads

\* The server's timer is 40 s later than the client's own: only a client that
\* is gone without a word lets it pass.
Overdue == ctrl_sck # None /\ cpc[ctrl_sck] = "silent"

PeerGone == ctrl_sck # None /\ cpc[ctrl_sck] \in {"done", "failed", "killed"}

ServerStep ==
    \/ Listen \/ ListenFails \/ Arm \/ LoopTest \/ BadDescriptor
    \/ Handshake \/ Messages \/ CreateStreams \/ Cleanup
    \/ ServerTimer /\ Overdue
    \/ RcvTimeout /\ ~DataFlows
    \/ ConnectionBreaks /\ PeerGone

ServerActs == ServerStep /\ UNCHANGED <<clientVars, faults, stop, stops>>

ClientActs(c) == ClientStep(c) /\ UNCHANGED <<serverVars, faults, stop, stops>>

ClientDials(c) == Dial(c) /\ UNCHANGED <<serverVars, faults, stop, stops>>

Fault(c) ==
    /\ faults < MaxFaults
    /\ faults' = faults + 1
    /\ \/ "killed" \in Faults /\ Killed(c)
       \/ "silent" \in Faults /\ GoesSilent(c)
    /\ UNCHANGED <<serverVars, stop, stops>>

\* All clients have ended, and so has the run; or it waits for another client,
\* for one that will never speak again, or for the embedder.
Over ==
    /\ stop = "idle"
    /\ pc \in {"select", "out"}
    /\ \A c \in Clients : cpc[c] \in Ended
    /\ UNCHANGED vars

Next ==
    \/ ServerActs \/ Stop \/ Over
    \/ \E c \in Clients : ClientActs(c) \/ ClientDials(c) \/ Fault(c)

Spec == Init /\ [][Next]_vars

\* The server's worker and the clients run; the embedder finishes a stop.
Fairness ==
    /\ WF_vars(ServerActs)
    /\ \A c \in Clients : WF_vars(ClientActs(c))
    /\ WF_vars(Shutdown \/ Nudge)

FairSpec == Spec /\ Fairness

----------------------------------------------------------------------------
(* What makes a session correct.                                           *)

\* Both ends know what comes next on the control connection: the server never
\* takes parameters or results for a message, nor a client them for a state.
\* (iperf_api.c writes both to the same socket, with nothing to tell them apart.)
FramingAgrees ==
    /\ ServesControl =>
        Head(toServer[ctrl_sck]) \in {"TEST_END", "CLIENT_TERMINATE", "IPERF_DONE", "FIN"}
    /\ \A c \in Clients :
        cpc[c] = "select" /\ toClient[c] # <<>> => Head(toClient[c]) \notin Json

\* s is the state a client has, or will have once it has read what is sent to it.
Announced(c, s) ==
    LET sent == {i \in DOMAIN toClient[c] : toClient[c][i] \in States}
    IN  IF sent = {} THEN cstate[c] = s
        ELSE \E i \in sent : toClient[c][i] = s /\ \A j \in sent : j <= i

\* Between two rounds the server is in the state it has announced to its client,
\* unless the client has gone ahead (its message is on its way) or the embedder
\* has stopped the server.
StatesAgree ==
    (/\ pc \in {"top", "select"} /\ ctrl_sck # None
     /\ state # "IPERF_DONE"
     /\ toServer[ctrl_sck] = <<>>)
    => Announced(ctrl_sck, state)

\* A stream of the server is the stream of its client with the same number, one
\* end sends and the other receives: that is how results find their stream
\* (get_results matches by id, in order of creation) and how data flows at all.
StreamsPair ==
    ctrl_sck # None =>
        \A i \in DOMAIN streams :
            /\ streams[i] = Stream(ctrl_sck, i)
            /\ ServerSendsOn(i) # SendsOn(ctrl_sck, i)

\* No data moves before both ends have all streams of the test: a client whose
\* threads run is the one that is served, or the server has left its test.
DataNeedsBothEnds ==
    \A c \in Clients :
        cthreads[c] /\ ctrl_sck # None =>
            ctrl_sck = c /\ Complete(streams) /\ created[c] = Len(streams)

\* One call serves one client: never more than one gets past the handshake,
\* whatever connects, in which order, and whoever disappears.
OneClient ==
    \A c, d \in Clients :
        {cstate[c], cstate[d]} \cap {"INIT", "ACCESS_DENIED", "SERVER_ERROR"} = {} => c = d

\* A client that reports a finished test has the server's results, and the server
\* has gone through the end of the test: it does not run it any more.
FinishedOnBothEnds ==
    \A c \in Clients :
        cpc[c] = "done" /\ ctrl_sck = c =>
            done /\ state \in {"DISPLAY_RESULTS", "IPERF_DONE"}

\* Nobody waits in vain: a client that has nothing to read waits to be accepted by a
\* socket that listens, or it is the one that is served; and then the server has
\* something to do, or the embedder's stop is about to wake it, or a test runs and
\* its data flows.  (Both ends block in select, without a timeout in many states.)
NobodyWaitsInVain ==
    \A c \in Clients :
        cpc[c] \in {"select", "results"} /\ toClient[c] = <<>> =>
            \/ c \in Waiting /\ listener = "open"
            \/ /\ c = ctrl_sck
               /\ ~Idle \/ stop # "idle" \/ (state = "TEST_RUNNING" /\ DataFlows)

----------------------------------------------------------------------------
(* The detailed call is a call of RunServer: what an embedder sees of it.  *)

RunPlace == CASE pc \in {"enter", "arm", "top", "ok", "err", "out"} -> pc
              [] pc \in {"relisten", "reopen"} -> "relisten"
              [] OTHER -> "select"

\* The streams of the session are TCP streams: RunServer's "UDP_STREAMS" never occurs.
RunState == IF state \in {"INIT", "IPERF_START", "IPERF_DONE"} THEN state ELSE "ACTIVE"

RunBacklog == [i \in DOMAIN queue |-> IF queue[i] = NudgeConnection THEN "nudge" ELSE "client"]

RunSession == pc # "out" /\ (ctrl_sck # None \/ dead \/ "ctrl_sck" \in stale)

Run == INSTANCE RunServer WITH
    Workers <- {"s"},
    MaxClients <- Cardinality(Connections),
    MaxNudges <- MaxStops + 1,
    at <- [w \in {"s"} |-> RunPlace],
    state <- [w \in {"s"} |-> RunState],
    listener <- [w \in {"s"} |-> listener],
    backlog <- [w \in {"s"} |-> RunBacklog],
    session <- [w \in {"s"} |-> RunSession]

\* What the Android bridge and the iOS runner are verified against is what the
\* detailed server does, step by step.
ImplementsRunServer == Run!Called("s") /\ [][Run!CallStep("s")]_(Run!serverVars)

----------------------------------------------------------------------------
(* Progress.                                                               *)

\* Neither end waits for the other for ever: a client that has connected ends.
ClientEnds == \A c \in Clients : cpc[c] = "select" ~> cpc[c] \in Ended

\* A stopped server returns: at the latest when its client has ended.  A client
\* that is gone without a word may keep it, see SilentClientDetected.
StopEndsCall ==
    (stop = "shutdown") ~> (pc = "out" \/ (ctrl_sck # None /\ cpc[ctrl_sck] = "silent"))

\* A client gone without a word is noticed if the server is to receive, or if the
\* test has a duration and runs.  (A server that only sends has nothing else.)
SilentClientDetected ==
    (ctrl_sck # None /\ cpc[ctrl_sck] = "silent"
     /\ (setup[ctrl_sck].mode # "SENDER" \/ (timer /\ ~done)))
    ~> pc = "out"

----------------------------------------------------------------------------
(* What comments in the code say, and runs refute.                         *)

\* "Cancel outstanding threads" ... "All threads stopped"
\* (iperf_server_api.c:452, 479): when the call returns no stream thread runs.
AllThreadsStopped == pc = "out" => ~threads /\ ~stray

=============================================================================
