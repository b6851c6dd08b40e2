-------------------------- MODULE UdpStreamsProofs --------------------------
(***************************************************************************)
(* For any requests, tests, streams and repeated datagrams: the streams    *)
(* of a UDP test are paired one to one although hello datagrams come late, *)
(* twice or never (StreamsPaired of TestSetup).                            *)
(***************************************************************************)
EXTENDS TestSetupProofs

Socket == Nat \X (Nat \ {0})

UdpTypeOK ==
    /\ waiting \in BOOLEAN /\ connected \in Nat
    /\ hello \subseteq Socket /\ answers \subseteq Socket
    /\ prot_listener \in {"open", "closed"}
    /\ queue \in Seq(Socket) /\ accepted \in Seq(Socket)
    /\ peer \in Socket \cup {Nobody}

\* Sockets are those that the clients so far have made for their streams.
Made(s) == s[1] <= tests /\ (s[1] = tests => s[2] <= asked["parallel"])

AllMade ==
    /\ \A s \in hello : Made(s)
    /\ \A i \in DOMAIN queue : Made(queue[i])
    /\ peer # Nobody => Made(peer)
    /\ \A i \in DOMAIN accepted : Made(accepted[i])

\* No socket is taken twice: what waits in the listener is not accepted yet, and
\* nothing waits while an accept is unfinished.
TakenOnce ==
    /\ \A i, j \in DOMAIN accepted : accepted[i] = accepted[j] => i = j
    /\ \A i \in DOMAIN queue : queue[i] \notin ToSet(accepted)
    /\ peer # Nobody => queue = <<>> /\ prot_listener = "closed" /\ peer \notin ToSet(accepted)

\* What the client has connected, or is about to, is accepted.
AnswersAreAccepted ==
    /\ answers \subseteq ToSet(accepted)
    /\ \A i \in 1 .. connected : <<tests, i>> \in ToSet(accepted)

\* Nothing is left of a test once it is over.
NothingLeft ==
    /\ ~waiting /\ connected = 0 /\ answers = {}
    /\ prot_listener = "closed" /\ queue = <<>> /\ peer = Nobody /\ accepted = <<>>

UdpInv ==
    /\ UdpTypeOK /\ AllMade /\ TakenOnce /\ AnswersAreAccepted
    /\ stage \notin {"streams", "running", "results"} => NothingLeft
    /\ stage = "running" => Len(accepted) = streams

----------------------------------------------------------------------------
(* Sequences as sets.                                                      *)

LEMMA InSet == \A seq, x : x \in ToSet(seq) <=> \E i \in DOMAIN seq : seq[i] = x
BY DEF ToSet

LEMMA Appended ==
    ASSUME NEW S, NEW seq \in Seq(S), NEW x \in S
    PROVE  LET longer == Append(seq, x) IN
           /\ longer \in Seq(S) /\ Len(longer) = Len(seq) + 1 /\ Len(seq) \in Nat
           /\ DOMAIN seq = 1 .. Len(seq) /\ DOMAIN longer = 1 .. Len(seq) + 1
           /\ longer[Len(seq) + 1] = x
           /\ \A i \in DOMAIN seq : longer[i] = seq[i]
OBVIOUS

LEMMA AppendedSet ==
    ASSUME NEW S, NEW seq \in Seq(S), NEW x \in S
    PROVE  ToSet(Append(seq, x)) = ToSet(seq) \cup {x}
<1> DEFINE longer == Append(seq, x)
<1>1. /\ DOMAIN longer = DOMAIN seq \cup {Len(seq) + 1}
      /\ longer[Len(seq) + 1] = x /\ \A i \in DOMAIN seq : longer[i] = seq[i]
  BY Appended
<1> HIDE DEF longer
<1>2. \A y : y \in ToSet(longer) <=> y \in ToSet(seq) \/ y = x BY <1>1, InSet
<1> QED BY <1>2 DEF longer

LEMMA TakenFromQueue ==
    ASSUME NEW S, NEW seq \in Seq(S), seq # <<>>
    PROVE  Head(seq) \in S /\ 1 \in DOMAIN seq /\ Head(seq) = seq[1]
OBVIOUS

----------------------------------------------------------------------------
(* Init, and the steps.                                                    *)

LEMMA NoneInSet == \A seq : seq = <<>> => ToSet(seq) = {} /\ DOMAIN seq = {}
BY DEF ToSet

LEMMA UdpInvInit == Init => UdpInv
<1> SUFFICES ASSUME Init PROVE UdpInv OBVIOUS
<1> USE DEF Init, UdpInit
<1>1. UdpTypeOK
  <2>1. \A S : <<>> \in Seq(S) OBVIOUS
  <2> QED BY <2>1 DEF UdpTypeOK
<1> QED BY <1>1, NoneInSet DEF UdpInv, AllMade, TakenOnce, AnswersAreAccepted, NothingLeft

\* Steps that leave the sockets alone, except that the client may stop waiting.
LEMMA SocketsUntouched ==
    ASSUME UdpInv, UNCHANGED <<connected, udpNetwork, udpServer, asked, tests>>,
           waiting' \in {waiting, FALSE},
           stage' \notin {"streams", "running", "results"} =>
               stage \notin {"streams", "running", "results"},
           stage' = "running" => stage = "running" /\ settings' = settings
    PROVE  UdpInv'
<1> USE DEF UdpInv, udpNetwork, udpServer
<1>1. UdpTypeOK' BY DEF UdpTypeOK
<1>2. AllMade' BY DEF AllMade, Made
<1>3. TakenOnce' BY DEF TakenOnce
<1>4. AnswersAreAccepted' BY DEF AnswersAreAccepted
<1>5. NothingLeft => NothingLeft' BY DEF NothingLeft
<1>6. stage' = "running" => (Len(accepted) = streams)' BY DEF streams
<1> QED BY <1>1, <1>2, <1>3, <1>4, <1>5, <1>6

\* Steps that end a test.
LEMMA ClosedKeeps ==
    ASSUME UdpInv, CloseUdp, UNCHANGED <<asked, tests>>, stage' # "running"
    PROVE  UdpInv'
<1> USE DEF CloseUdp
<1>1. UdpTypeOK'
  <2>1. \A S : <<>> \in Seq(S) OBVIOUS
  <2> QED BY <2>1 DEF UdpInv, UdpTypeOK
<1>2. NothingLeft' BY DEF NothingLeft
<1>3. AllMade' BY NoneInSet DEF UdpInv, AllMade, Made
<1>4. TakenOnce' BY NoneInSet DEF TakenOnce
<1>5. AnswersAreAccepted' BY DEF AnswersAreAccepted
<1> QED BY <1>1, <1>2, <1>3, <1>4, <1>5 DEF UdpInv

LEMMA UdpInvStep == ASSUME SettingsInv, UdpInv, [Next]_vars PROVE UdpInv'
<1> DEFINE Quiet == UNCHANGED <<connected, udpNetwork, udpServer, asked, tests>>
<1>1. CASE Connect
  <2>1. NothingLeft /\ UNCHANGED udpStreams /\ tests' = tests + 1 /\ stage' = "parameters"
    BY <1>1 DEF Connect, UdpInv
  <2>2. tests \in Nat BY DEF SettingsInv, TypeOK
  <2>3. UdpTypeOK'
    BY <2>1 DEF UdpInv, UdpTypeOK, udpStreams, udpClient, udpNetwork, udpServer
  <2>4. NothingLeft'
    BY <2>1 DEF NothingLeft, udpStreams, udpClient, udpNetwork, udpServer
  <2>5. AllMade'
    <3>1. \A s \in hello : s[1] \in Nat /\ s[1] <= tests
      BY DEF UdpInv, UdpTypeOK, AllMade, Made, Socket
    <3>2. \A s \in hello' : s[1] < tests'
      BY <2>1, <2>2, <3>1 DEF udpStreams, udpNetwork
    <3>3. \A s \in hello' : s[1] \in Nat /\ s[1] <= tests' /\ s[1] # tests'
      BY <2>1, <2>2, <3>1 DEF udpStreams, udpNetwork
    <3> QED BY <3>3, <2>4, NoneInSet DEF AllMade, Made, NothingLeft
  <2>6. TakenOnce' BY <2>4, NoneInSet DEF TakenOnce, NothingLeft
  <2>7. AnswersAreAccepted' BY <2>4 DEF AnswersAreAccepted, NothingLeft
  <2> QED BY <2>1, <2>3, <2>4, <2>5, <2>6, <2>7 DEF UdpInv
<1>2. CASE Transfer \/ GetParameters \/ ClientRuns \/ ExchangeResults \/ ResetTest \/ StartAgain
           \/ UNCHANGED vars
  <2>1. UNCHANGED <<udpStreams, asked, tests>>
    BY <1>2 DEF Transfer, GetParameters, ClientRuns, ExchangeResults, ResetTest, StartAgain, vars
  <2>2. Quiet /\ UNCHANGED waiting
    BY <2>1 DEF udpStreams, udpClient, udpNetwork, udpServer
  <2>3. stage' \notin {"streams", "running", "results"} =>
            stage \notin {"streams", "running", "results"}
    BY <1>2 DEF Transfer, GetParameters, ClientRuns, ExchangeResults, ResetTest, StartAgain, vars
  <2>4. stage' = "running" => stage = "running" /\ settings' = settings
    BY <1>2 DEF Transfer, GetParameters, ClientRuns, ExchangeResults, ResetTest, StartAgain, vars
  <2> QED BY <2>2, <2>3, <2>4, SocketsUntouched
<1>3. CASE ClientFails
  BY <1>3, SocketsUntouched DEF ClientFails, channel, udpNetwork, udpServer
<1>4. CASE GetResults \/ ClientIsGone \/ ServerFails
  BY <1>4, ClosedKeeps DEF GetResults, ClientIsGone, ServerFails
<1>5. CASE CreateStreams
  <2> USE <1>5 DEF CreateStreams, UdpListen, udpClient, udpNetwork
  <2>1. NothingLeft BY DEF UdpInv
  <2>2. UdpTypeOK'
    <3>1. \A S : <<>> \in Seq(S) OBVIOUS
    <3> QED BY <3>1 DEF UdpInv, UdpTypeOK
  <2>3. AllMade' BY NoneInSet DEF UdpInv, AllMade, Made
  <2>4. TakenOnce' BY <2>1, NoneInSet DEF TakenOnce, NothingLeft
  <2>5. AnswersAreAccepted' BY DEF UdpInv, AnswersAreAccepted
  <2> QED BY <2>2, <2>3, <2>4, <2>5 DEF UdpInv
<1>6. CASE ConnectStream
  <2> USE <1>6 DEF ConnectStream, Dial, udpServer
  <2> DEFINE socket == <<tests, connected + 1>>
  <2>1. socket \in Socket /\ hello' = hello \cup {socket}
    BY DEF UdpInv, UdpTypeOK, Socket, SettingsInv, TypeOK
  <2>2. Made(socket)
    <3>1. connected + 1 <= asked["parallel"]
      <4>1. asked["parallel"] \in Nat BY DEF SettingsInv, TypeOK, Fields, AlwaysSent
      <4> QED BY <4>1 DEF UdpInv, UdpTypeOK
    <3>2. tests \in Nat BY DEF SettingsInv, TypeOK
    <3> QED BY <3>1, <3>2 DEF Made
  <2>3. UdpTypeOK' BY <2>1 DEF UdpInv, UdpTypeOK
  <2>4. AllMade' BY <2>1, <2>2 DEF UdpInv, AllMade, Made
  <2>5. TakenOnce' BY DEF UdpInv, TakenOnce
  <2>6. AnswersAreAccepted' BY DEF UdpInv, AnswersAreAccepted
  <2>7. stage' = "running" => (Len(accepted) = streams)' BY DEF UdpInv, streams
  <2> QED BY <2>3, <2>4, <2>5, <2>6, <2>7 DEF UdpInv
<1>7. CASE StreamConnected
  <2>1. CASE Answered(tests)
    <3> USE <1>7, <2>1 DEF StreamConnected, Answered, udpServer
    <3>1. UNCHANGED <<hello, prot_listener, queue, peer, accepted, stage, settings, asked, tests>>
      OBVIOUS
    <3>2. UdpTypeOK'
      <4>1. waiting' \in BOOLEAN BY Zenon
      <4>2. connected' \in Nat BY DEF UdpInv, UdpTypeOK
      <4>3. answers' \subseteq Socket BY DEF UdpInv, UdpTypeOK
      <4>4. /\ hello' \subseteq Socket /\ prot_listener' \in {"open", "closed"}
            /\ queue' \in Seq(Socket) /\ accepted' \in Seq(Socket) /\ peer' \in Socket \cup {Nobody}
        BY <3>1 DEF UdpInv, UdpTypeOK
      <4> QED BY <4>1, <4>2, <4>3, <4>4 DEF UdpTypeOK
    <3>3. AllMade' BY <3>1 DEF UdpInv, AllMade, Made
    <3>4. TakenOnce' BY <3>1 DEF UdpInv, TakenOnce
    <3>5. AnswersAreAccepted'
      <4>1. <<tests, connected + 1>> \in ToSet(accepted) BY DEF UdpInv, AnswersAreAccepted
      <4>2. \A i \in 1 .. connected + 1 : i \in 1 .. connected \/ i = connected + 1
        BY DEF UdpInv, UdpTypeOK
      <4> QED BY <3>1, <4>1, <4>2 DEF UdpInv, AnswersAreAccepted
    <3>6. stage \in {"streams", "running", "results"} BY DEF UdpInv, NothingLeft
    <3> QED BY <3>1, <3>2, <3>3, <3>4, <3>5, <3>6 DEF UdpInv, streams
  <2>2. CASE stage = "running" /\ ReadEarly(tests, asked["reverse"] # 0)
    BY <1>7, <2>2, SocketsUntouched DEF StreamConnected, ReadEarly
  <2> QED BY <1>7, <2>1, <2>2 DEF StreamConnected
<1>8. CASE ServerTakesHello
  <2> USE <1>8 DEF ServerTakesHello, TakeHello, udpClient, udpNetwork
  <2>1. peer' \in Socket /\ 1 \in DOMAIN queue /\ peer' = queue[1]
    BY TakenFromQueue DEF UdpInv, UdpTypeOK
  <2>2. UdpTypeOK'
    <3>1. \A S : <<>> \in Seq(S) OBVIOUS
    <3> QED BY <2>1, <3>1 DEF UdpInv, UdpTypeOK
  <2>3. Made(peer') BY <2>1 DEF UdpInv, AllMade
  <2>4. AllMade' BY <2>3, NoneInSet DEF UdpInv, AllMade, Made
  <2>5. peer' \notin ToSet(accepted) BY <2>1 DEF UdpInv, TakenOnce
  <2>6. TakenOnce' BY <2>5, NoneInSet DEF UdpInv, TakenOnce
  <2>7. AnswersAreAccepted' BY DEF UdpInv, AnswersAreAccepted
  <2> QED BY <2>2, <2>4, <2>6, <2>7 DEF UdpInv
<1>9. CASE ServerAccepts
  <2> USE <1>9 DEF ServerAccepts, AcceptStream, udpClient
  <2>1. peer \in Socket /\ accepted \in Seq(Socket) /\ accepted' = Append(accepted, peer)
        /\ peer' = Nobody /\ queue = <<>> /\ queue' = <<>> /\ peer \notin ToSet(accepted) /\ Made(peer)
    BY DEF UdpInv, UdpTypeOK, TakenOnce, AllMade
  <2>2. /\ accepted' \in Seq(Socket) /\ Len(accepted) \in Nat
        /\ DOMAIN accepted' = DOMAIN accepted \cup {Len(accepted) + 1}
        /\ accepted'[Len(accepted) + 1] = peer
        /\ \A i \in DOMAIN accepted : accepted'[i] = accepted[i]
    BY <2>1, Appended
  <2>3. ToSet(accepted') = ToSet(accepted) \cup {peer} BY <2>1, AppendedSet
  <2>4. UNCHANGED <<waiting, connected, hello, settings, asked, tests>> /\ answers' = answers \cup {peer}
        /\ prot_listener' \in {"open", "closed"}
    OBVIOUS
  <2>5. UdpTypeOK' BY <2>1, <2>2, <2>4 DEF UdpInv, UdpTypeOK
  <2>6. AllMade' BY <2>1, <2>2, <2>4, NoneInSet DEF UdpInv, AllMade, Made
  <2>7. TakenOnce'
    <3>1. \A i \in DOMAIN accepted : accepted[i] # peer BY <2>1, InSet
    <3>2. \A i, j \in DOMAIN accepted' : accepted'[i] = accepted'[j] => i = j
      BY <2>2, <3>1 DEF UdpInv, TakenOnce
    <3> QED BY <2>1, <3>2, NoneInSet DEF TakenOnce
  <2>8. AnswersAreAccepted' BY <2>3, <2>4 DEF UdpInv, AnswersAreAccepted
  <2>9. stage' \in {"streams", "running"} /\ (stage' = "running" => (Len(accepted) = streams)')
    BY <2>4 DEF streams
  <2> QED BY <2>5, <2>6, <2>7, <2>8, <2>9 DEF UdpInv
<1>10. CASE DeliverHello
  <2> USE <1>10 DEF DeliverHello, Deliver, udpClient
  <2>1. PICK h \in hello :
            /\ hello' \in {hello, hello \ {h}}
            /\ queue' = IF prot_listener = "open" /\ h # peer /\ h \notin ToSet(accepted)
                        THEN Append(queue, h) ELSE queue
    OBVIOUS
  <2>2. UNCHANGED <<waiting, connected, answers, prot_listener, peer, accepted, stage, settings,
                    asked, tests>>
    OBVIOUS
  <2>3. h \in Socket /\ Made(h) /\ queue \in Seq(Socket) BY DEF UdpInv, UdpTypeOK, AllMade
  <2>4. /\ queue' \in Seq(Socket)
        /\ \A i \in DOMAIN queue' :
             \/ i \in DOMAIN queue /\ queue'[i] = queue[i]
             \/ queue'[i] = h /\ h \notin ToSet(accepted)
    <3>1. CASE queue' = queue BY <2>3, <3>1
    <3>2. CASE queue' = Append(queue, h) /\ h \notin ToSet(accepted)
      <4>1. queue' \in Seq(Socket) /\ queue'[Len(queue) + 1] = h
            /\ \A i \in DOMAIN queue : queue'[i] = queue[i]
        BY <2>3, <3>2, Appended
      <4>2. \A i \in DOMAIN queue' : i \in DOMAIN queue \/ i = Len(queue) + 1
        BY <2>3, <3>2, Appended
      <4> QED BY <3>2, <4>1, <4>2
    <3> QED BY <2>1, <3>1, <3>2
  <2>5. UdpTypeOK' BY <2>1, <2>2, <2>4 DEF UdpInv, UdpTypeOK
  <2>6. AllMade' BY <2>1, <2>2, <2>3, <2>4 DEF UdpInv, AllMade, Made
  <2>7. TakenOnce' BY <2>1, <2>2, <2>4 DEF UdpInv, TakenOnce
  <2>8. AnswersAreAccepted' BY <2>2 DEF UdpInv, AnswersAreAccepted
  <2>9. stage \notin {"streams", "running", "results"} => NothingLeft'
    BY <2>1, <2>2 DEF UdpInv, NothingLeft
  <2> QED BY <2>2, <2>5, <2>6, <2>7, <2>8, <2>9 DEF UdpInv, streams
<1> QED BY <1>1, <1>2, <1>3, <1>4, <1>5, <1>6, <1>7, <1>8, <1>9, <1>10
        DEF Next, ServerStep, ClientStep, Over

----------------------------------------------------------------------------
\* As many different sockets of one test as it has streams are all its sockets.
LEMMA AllStreamsAccepted ==
    ASSUME SettingsInv, UdpInv, stage = "running", ~Stray
    PROVE  ToSet(accepted) = {<<tests, i>> : i \in 1 .. asked["parallel"]}
<1> DEFINE n == asked["parallel"]
           Number == [i \in 1 .. n |-> accepted[i][2]]
<1>1. n \in Nat BY DEF SettingsInv, TypeOK, Fields, AlwaysSent
<1>2. Len(accepted) = n
  <2>1. "parallel" \in Fields \ Kept BY DEF Fields, AlwaysSent, Kept
  <2>2. settings["parallel"] = n BY <2>1 DEF SettingsInv, ServedAsAsked
  <2> QED BY <2>2 DEF UdpInv, streams
<1>3. DOMAIN accepted = 1 .. n BY <1>2 DEF UdpInv, UdpTypeOK
<1>4. \A i \in 1 .. n : accepted[i] = <<tests, accepted[i][2]>> /\ accepted[i][2] \in 1 .. n
  <2> SUFFICES ASSUME NEW i \in 1 .. n
               PROVE  accepted[i] = <<tests, accepted[i][2]>> /\ accepted[i][2] \in 1 .. n
    OBVIOUS
  <2>1. accepted[i] \in Socket BY <1>3, ElementType DEF UdpInv, UdpTypeOK
  <2>2. accepted[i][1] = tests BY <1>3, InSet DEF Stray
  <2>3. Made(accepted[i]) BY <1>3 DEF UdpInv, AllMade
  <2>4. accepted[i] = <<accepted[i][1], accepted[i][2]>> BY <2>1 DEF Socket
  <2>5. accepted[i][2] \in Nat \ {0} BY <2>1 DEF Socket
  <2>6. accepted[i][2] <= n BY <2>2, <2>3 DEF Made
  <2> QED BY <1>1, <2>2, <2>4, <2>5, <2>6
<1>5. \A i, j \in 1 .. n : accepted[i] = accepted[j] => i = j BY <1>3 DEF UdpInv, TakenOnce
<1>6. Number \in Injection(1 .. n, 1 .. n)
  <2>1. Number \in [1 .. n -> 1 .. n] BY <1>4
  <2>2. \A i, j \in 1 .. n : Number[i] = Number[j] => i = j BY <1>4, <1>5
  <2> HIDE DEF Number
  <2> QED BY <2>1, <2>2 DEF Injection, IsInjective
<1>7. Number \in Surjection(1 .. n, 1 .. n)
  <2>1. IsFiniteSet(1 .. n) BY <1>1, FS_Interval
  <2> QED BY <1>6, <2>1, FS_Injection
<1>8. \A k \in 1 .. n : \E i \in 1 .. n : Number[i] = k
  <2> HIDE DEF Number
  <2> QED BY <1>7 DEF Surjection
<1>9. \A k \in 1 .. n : \E i \in 1 .. n : accepted[i] = <<tests, k>> BY <1>4, <1>8
<1>10. \A x : x \in ToSet(accepted) <=> \E i \in 1 .. n : accepted[i] = x BY <1>3, InSet
<1>11. \A x \in ToSet(accepted) : \E k \in 1 .. n : x = <<tests, k>>
  <2> SUFFICES ASSUME NEW x \in ToSet(accepted) PROVE \E k \in 1 .. n : x = <<tests, k>>
    OBVIOUS
  <2>1. PICK i \in 1 .. n : accepted[i] = x BY <1>10
  <2>2. accepted[i][2] \in 1 .. n /\ x = <<tests, accepted[i][2]>> BY <1>4, <2>1
  <2> QED BY ONLY <2>2
<1> HIDE DEF Number
<1>12. \A k \in 1 .. n : <<tests, k>> \in ToSet(accepted) BY <1>9, <1>10
<1> QED BY <1>11, <1>12

LEMMA PairedByInv == SettingsInv /\ UdpInv => StreamsPaired
<1> SUFFICES ASSUME SettingsInv, UdpInv PROVE StreamsPaired OBVIOUS
<1>1. \A i, j \in DOMAIN accepted : accepted[i] = accepted[j] => i = j BY DEF UdpInv, TakenOnce
<1>2. \A i \in 1 .. connected : <<tests, i>> \in ToSet(accepted)
  BY DEF UdpInv, AnswersAreAccepted
<1> QED BY <1>1, <1>2, AllStreamsAccepted DEF StreamsPaired

\* Each stream that a client has connected is one that the server has accepted, none
\* is accepted twice, and a test runs with the streams of its client, unless a late
\* datagram of an earlier test has taken the place of one.
THEOREM StreamsArePaired == Spec => []StreamsPaired
<1>1. SettingsInv /\ UdpInv /\ [Next]_vars => UdpInv' BY UdpInvStep
<1> QED BY <1>1, SettingsInit, SettingsStep, UdpInvInit, PairedByInv, PTL DEF Spec

=============================================================================
