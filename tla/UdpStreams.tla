---------------------------- MODULE UdpStreams ----------------------------
(* How the streams of a UDP test are made: iperf_udp_connect at the client,     *)
(* iperf_udp_listen and iperf_udp_accept at the server.  The client says hello  *)
(* with one datagram for each stream; the server connects the socket that got   *)
(* it, opens another one in its place and answers.  Nothing is sent again.      *)
(* Datagrams may be lost (never delivered), repeated, delayed and overtaken.    *)
EXTENDS Integers, Sequences, SequencesExt

CONSTANTS
    MaxRepeats,     \* bound: datagrams that are delivered twice
    EarlyReads      \* reads of data that a client in reverse mode accepts before
                    \* the answer: 2 * blksize bytes, 4 in each read

ASSUME UdpAssumption == MaxRepeats \in Nat /\ EarlyReads \in Nat

VARIABLES
    \* The client: it waits for an answer, the streams it has connected, the data
    \* it read instead of the answer
    waiting, connected, early,
    \* The network: hello datagrams and answers on their way
    hello, repeats, answers,
    \* The server: prot_listener and what waits in it, the peer whose socket was
    \* just connected, the peers of the accepted streams
    prot_listener, queue, peer, accepted

udpClient == <<waiting, connected, early>>
udpNetwork == <<hello, repeats, answers>>
udpServer == <<prot_listener, queue, peer, accepted>>
udpStreams == <<udpClient, udpNetwork, udpServer>>

\* A client socket: the number of its test and of the stream in it.
Nobody == <<0, 0>>

UdpInit ==
    /\ waiting = FALSE /\ connected = 0 /\ early = 0
    /\ hello = {} /\ repeats = 0 /\ answers = {}
    /\ prot_listener = "closed" /\ queue = <<>> /\ peer = Nobody /\ accepted = <<>>

-----------------------------------------------------------------------------
(* The client                                                                 *)

\* iperf_udp_connect: a new socket, one hello, and the wait for the answer.
Dial(test) ==
    /\ ~waiting
    /\ hello' = hello \cup {<<test, connected + 1>>}
    /\ waiting' = TRUE /\ early' = 0
    /\ UNCHANGED <<connected, repeats, answers, udpServer>>

Answered(test) ==
    /\ waiting
    /\ <<test, connected + 1>> \in answers
    /\ answers' = answers \ {<<test, connected + 1>>}
    /\ connected' = connected + 1
    /\ waiting' = FALSE
    /\ UNCHANGED <<early, hello, repeats, udpServer>>

\* Data of the running test overtakes the answer; only a reverse test reads on.
ReadEarly(test, reverse) ==
    /\ waiting
    /\ reverse /\ early < EarlyReads
    /\ <<test, connected + 1>> \in ToSet(accepted)
    /\ early' = early + 1
    /\ UNCHANGED <<waiting, connected, udpNetwork, udpServer>>

\* Mutant: no SO_RCVTIMEO on the socket.
GivesUpNever == waiting /\ early > EarlyReads

\* The socket times out after 30 s, is refused, or has read too much data.
GivesUp == waiting

-----------------------------------------------------------------------------
(* The network                                                                *)

\* The kernel gives a datagram to the socket connected to its sender, if there is
\* one, else to the unconnected socket on the port, else to nobody.
Deliver ==
    /\ \E h \in hello :
        /\ \/ hello' = hello \ {h} /\ UNCHANGED repeats
           \/ repeats < MaxRepeats /\ repeats' = repeats + 1 /\ UNCHANGED hello
        /\ queue' = IF prot_listener = "open" /\ h # peer /\ h \notin ToSet(accepted)
                    THEN Append(queue, h) ELSE queue
    /\ UNCHANGED <<answers, udpClient, prot_listener, peer, accepted>>

-----------------------------------------------------------------------------
(* The server                                                                 *)

\* iperf_udp_listen, in iperf_exchange_parameters.
UdpListen ==
    /\ prot_listener' = "open" /\ queue' = <<>>
    /\ UNCHANGED <<udpClient, udpNetwork, peer, accepted>>

\* Mutant: the listener stays, and a new socket is connected to the peer.
TakeHelloKeepingListener ==
    /\ prot_listener = "open" /\ queue # <<>>
    /\ peer = Nobody
    /\ peer' = Head(queue)
    /\ queue' = Tail(queue)
    /\ UNCHANGED <<udpClient, udpNetwork, prot_listener, accepted>>

\* iperf_udp_accept: recvfrom and connect.  The socket is no listener any more and
\* keeps what waits in it.
TakeHello ==
    /\ prot_listener = "open" /\ queue # <<>>
    /\ peer = Nobody
    /\ peer' = Head(queue)
    /\ prot_listener' = "closed" /\ queue' = <<>>
    /\ UNCHANGED <<udpClient, udpNetwork, accepted>>

\* ... then netannounce, write of the answer and iperf_new_stream; after the last
\* stream iperf_run_server closes prot_listener.
AcceptStream(streams) ==
    /\ peer # Nobody
    /\ answers' = answers \cup {peer}
    /\ accepted' = Append(accepted, peer)
    /\ peer' = Nobody
    /\ IF Len(accepted') = streams
       THEN prot_listener' = "closed" /\ queue' = <<>>
       ELSE prot_listener' = "open" /\ UNCHANGED queue
    /\ UNCHANGED <<udpClient, hello, repeats>>

\* cleanup_server, and the exit of the client: their sockets are closed.  Hello
\* datagrams stay on their way.
CloseUdp ==
    /\ waiting' = FALSE /\ connected' = 0 /\ early' = 0
    /\ answers' = {}
    /\ prot_listener' = "closed" /\ queue' = <<>> /\ peer' = Nobody /\ accepted' = <<>>
    /\ UNCHANGED <<hello, repeats>>
=============================================================================
