------------------------- MODULE IperfSessionProofs -------------------------
(***************************************************************************)
(* What holds of a session for any set of clients, any number of streams,  *)
(* any bound on faults and stops: the invariants of IperfSession, proved.  *)
(*                                                                         *)
(* None of them is inductive: what the server may do next rests on what    *)
(* has been said on the control connection and not been heard yet.  So the *)
(* inductive invariant speaks of the tokens under way: which can be in a   *)
(* stream, how often, and what they imply about the place of either end.   *)
(* Spoken and Heard, ClientSpoken and ClientHeard say what one step of an  *)
(* end adds to a stream and takes from it; the proofs of the parts of the  *)
(* invariant use these, and look into a step only for what else it does.   *)
(***************************************************************************)
EXTENDS IperfSession, SequenceTheorems, FiniteSetTheorems, TLAPS

----------------------------------------------------------------------------
(* The inductive invariant.                                                *)

\* x is somewhere in the stream s.
Has(s, x) == \E i \in DOMAIN s : s[i] = x
\* x is at most once in the stream s.
Once(s, x) == \A i, j \in DOMAIN s : s[i] = x /\ s[j] = x => i = j

\* Places of the call before CREATE_STREAMS has been sent.
Before == {"enter", "arm", "cookie", "params", "relisten", "listening"}
\* Places at which the call is in a conversation with its client.
Talking == {"cookie", "params", "relisten", "listening", "control", "handle", "results",
            "renew", "reopen", "start", "running"}

\* What the place of the call says about the client it serves and its streams.
PlaceInv ==
    /\ pc \in Talking => ctrl_sck # None
    /\ dead => ctrl_sck = None
    /\ pc \in {"enter", "arm", "out"} => ctrl_sck = None
    /\ (ctrl_sck = None /\ pc # "out") \/ pc \in Before => streams = <<>>
    /\ pc \in Before => state # "CREATE_STREAMS"

\* c has not got past the handshake, and nothing under way will get it there.
Untouched(c) ==
    /\ cstate[c] \in {"INIT", "ACCESS_DENIED", "SERVER_ERROR"}
    /\ cpc[c] \notin {"creating", "results"}
    /\ ~cthreads[c]
    /\ created[c] = 0
    /\ \A x \in Tokens :
        /\ Has(toClient[c], x) => x \in {"ACCESS_DENIED", "SERVER_ERROR", "FIN"}
        /\ Has(toServer[c], x) => x \in {"COOKIE", "CLIENT_TERMINATE", "FIN"}

\* At most one client has been touched: the one that is served, or the one that
\* was, and then no other will be: its descriptor stays in read_set, or the call is over.
OneInv ==
    \E s \in Clients \cup {None} :
        /\ \A c \in Clients \ {s} : Untouched(c)
        /\ \/ s = None
           \/ s = ctrl_sck /\ pc # "cookie"
           \/ ctrl_sck = None /\ (dead \/ pc = "out")

\* A client is asked for streams once, connects none before it is asked, and
\* as many as its mode takes.
CreationInv ==
    \A c \in Clients :
        /\ Once(toClient[c], "CREATE_STREAMS")
        /\ \/ Has(toClient[c], "CREATE_STREAMS")
           \/ c = ctrl_sck /\ pc \in {"params", "relisten", "listening"}
           => created[c] = 0 /\ cpc[c] # "creating"
        /\ c = ctrl_sck /\ pc \in {"params", "relisten", "listening"}
           => ~Has(toClient[c], "CREATE_STREAMS")
        /\ created[c] <= StreamsFor(setup[c].mode)
        /\ cpc[c] = "creating" => created[c] < StreamsFor(setup[c].mode)

\* Streams wait in the backlog in the order in which their client connected them.
QueueInv ==
    \A p \in DOMAIN queue :
        queue[p][2] > 0 =>
            /\ queue[p][2] <= created[queue[p][1]]
            /\ \A q \in DOMAIN queue :
                p < q /\ queue[q][1] = queue[p][1] /\ queue[q][2] > 0
                => queue[p][2] < queue[q][2]

\* The streams accepted are the first ones of the client; the rest of those it
\* has connected waits in the backlog, as long as the socket listens.
StreamInv ==
    ctrl_sck # None =>
        /\ \A i \in DOMAIN streams : streams[i] = Stream(ctrl_sck, i)
        /\ Len(streams) <= created[ctrl_sck]
        /\ \A p \in DOMAIN queue :
            queue[p][1] = ctrl_sck /\ queue[p][2] > 0 => queue[p][2] > Len(streams)
        /\ listener = "open" /\ state = "CREATE_STREAMS" /\ pc # "err" =>
            \A k \in Len(streams) + 1 .. created[ctrl_sck] : Has(queue, Stream(ctrl_sck, k))

\* The server has the mode its client asked for when it has a stream; all streams
\* are there when it starts the test, tells the client to start, and when that runs.
RunInv ==
    ctrl_sck # None =>
        /\ streams # <<>> \/ state = "CREATE_STREAMS" \/ pc \in {"relisten", "listening"}
           => mode = setup[ctrl_sck].mode
        /\ \/ pc \in {"renew", "reopen", "start", "running"}
           \/ Has(toClient[ctrl_sck], "TEST_RUNNING")
           \/ cthreads[ctrl_sck]
           => Complete(streams)

\* A request for parameters or results and its answer are never both under way,
\* none is twice, and there is none where the server does not wait for an answer.
RequestInv ==
    \A c \in Clients :
        /\ Once(toClient[c], "PARAM_EXCHANGE") /\ Once(toServer[c], "PARAMS")
        /\ ~(Has(toClient[c], "PARAM_EXCHANGE") /\ Has(toServer[c], "PARAMS"))
        /\ Once(toClient[c], "EXCHANGE_RESULTS") /\ Once(toServer[c], "RESULTS")
        /\ ~(Has(toClient[c], "EXCHANGE_RESULTS") /\ Has(toServer[c], "RESULTS"))
        /\ c = ctrl_sck /\ pc \notin {"params", "err"} =>
            ~Has(toClient[c], "PARAM_EXCHANGE") /\ ~Has(toServer[c], "PARAMS")
        /\ c = ctrl_sck /\ pc \notin {"results", "err"} =>
            ~Has(toClient[c], "EXCHANGE_RESULTS") /\ ~Has(toServer[c], "RESULTS")

\* The cookie is the first thing a client says, once, and the server has read it.
CookieInv ==
    \A c \in Clients :
        /\ Once(toServer[c], "COOKIE")
        /\ cpc[c] \in {"idle", "dialled"} => ~Has(toServer[c], "COOKIE")
        /\ c = ctrl_sck /\ pc \notin {"cookie", "err"} =>
            cpc[c] \notin {"idle", "dialled"} /\ ~Has(toServer[c], "COOKIE")

\* The server sends results only after it has read the client's, and the client
\* waits for them then, or has ended.
JsonInv ==
    \A c \in Clients :
        /\ ~Has(toClient[c], "PARAMS")
        /\ \A x \in Tokens : Has(toServer[c], x) =>
            x \in {"COOKIE", "PARAMS", "RESULTS", "TEST_END", "IPERF_DONE", "CLIENT_TERMINATE", "FIN"}
        /\ Once(toClient[c], "RESULTS")
        /\ ~(Has(toClient[c], "RESULTS") /\ Has(toServer[c], "RESULTS"))
        /\ Has(toClient[c], "RESULTS") \/ Has(toServer[c], "RESULTS") =>
            cpc[c] \in {"results"} \cup Ended

\* c has not failed, been killed, or fallen silent.
Live(c) == cpc[c] \notin {"failed", "killed", "silent"}

\* Places of the call while a test runs and after its results.
Rest == {"top", "select", "control", "ok", "err"}

\* The test of a client runs, or is told to, or its end is on the way to the server.
Chain(c) ==
    \/ Has(toClient[c], "TEST_RUNNING")
    \/ cstate[c] = "TEST_RUNNING"
    \/ Has(toServer[c], "TEST_END")

\* The client has the results, or is told to show them.
Displayed(c) == Has(toClient[c], "DISPLAY_RESULTS") \/ cpc[c] = "done"

\* From TEST_RUNNING to TEST_END one token, or one state, carries the test; after
\* DISPLAY_RESULTS nothing of it is left, so that the server cannot go back into it.
FinishInv ==
    /\ pc = "results" => done
    /\ \A c \in Clients :
        /\ cpc[c] = "done" => cstate[c] = "IPERF_DONE"
        /\ Has(toServer[c], "CLIENT_TERMINATE") => cpc[c] = "killed"
        /\ Live(c) =>
            /\ Once(toClient[c], "TEST_RUNNING") /\ Once(toServer[c], "TEST_END")
            /\ ~(Has(toClient[c], "TEST_RUNNING") /\ Has(toServer[c], "TEST_END"))
            /\ cstate[c] = "TEST_RUNNING" =>
                ~Has(toClient[c], "TEST_RUNNING") /\ ~Has(toServer[c], "TEST_END")
        /\ Live(c) /\ c = ctrl_sck =>
            /\ Chain(c) => pc \in Rest /\ state # "CREATE_STREAMS"
            /\ Displayed(c) =>
                ~Chain(c) /\ pc \in Rest /\ done /\ state \in {"DISPLAY_RESULTS", "IPERF_DONE"}

\* What all steps are proved to preserve, without and with the end of the test.
IInv ==
    /\ TypeOK /\ PlaceInv /\ OneInv /\ CreationInv /\ QueueInv
    /\ StreamInv /\ RunInv /\ RequestInv /\ CookieInv /\ JsonInv

\* The inductive invariant.
SessionInv == IInv /\ FinishInv

----------------------------------------------------------------------------
(* Tokens in a stream.                                                     *)

\* What is in two streams written one after the other.
LEMMA ConcatHas ==
    ASSUME NEW S, NEW s \in Seq(S), NEW t \in Seq(S)
    PROVE  /\ s \o t \in Seq(S)
           /\ \A x : Has(s \o t, x) <=> Has(s, x) \/ Has(t, x)
           /\ \A x : Once(s, x) /\ Once(t, x) /\ ~(Has(s, x) /\ Has(t, x)) => Once(s \o t, x)
<1>1. /\ s \o t \in Seq(S) /\ Len(s \o t) = Len(s) + Len(t)
      /\ \A i \in 1 .. Len(s) + Len(t) :
            (s \o t)[i] = IF i <= Len(s) THEN s[i] ELSE t[i - Len(s)]
  BY ConcatProperties
<1>2. Len(s) \in Nat /\ Len(t) \in Nat /\ DOMAIN s = 1 .. Len(s) /\ DOMAIN t = 1 .. Len(t)
      /\ DOMAIN (s \o t) = 1 .. Len(s) + Len(t)
  BY <1>1, LenProperties
<1>3. ASSUME NEW x PROVE Has(s \o t, x) <=> Has(s, x) \/ Has(t, x)
  <2>1. ASSUME Has(s \o t, x) PROVE Has(s, x) \/ Has(t, x)
    <3>1. PICK i \in 1 .. Len(s) + Len(t) : (s \o t)[i] = x
      BY <2>1, <1>2 DEF Has
    <3>2. CASE i <= Len(s)
      BY <3>1, <3>2, <1>1, <1>2 DEF Has
    <3>3. CASE i > Len(s)
      <4>1. i - Len(s) \in 1 .. Len(t) /\ t[i - Len(s)] = x
        BY <3>1, <3>3, <1>1, <1>2
      <4> QED BY <4>1, <1>2 DEF Has
    <3> QED BY <3>1, <3>2, <3>3, <1>2
  <2>2. ASSUME NEW i \in 1 .. Len(s), s[i] = x PROVE Has(s \o t, x)
    <3>1. i \in 1 .. Len(s) + Len(t) /\ (s \o t)[i] = x
      BY <2>2, <1>1, <1>2
    <3> QED BY <3>1, <1>2 DEF Has
  <2>3. ASSUME NEW i \in 1 .. Len(t), t[i] = x PROVE Has(s \o t, x)
    <3>1. i + Len(s) \in 1 .. Len(s) + Len(t) /\ (s \o t)[i + Len(s)] = x
      BY <2>3, <1>1, <1>2
    <3> QED BY <3>1, <1>2 DEF Has
  <2> QED BY <2>1, <2>2, <2>3, <1>2 DEF Has
<1>4. ASSUME NEW x, Once(s, x), Once(t, x), ~(Has(s, x) /\ Has(t, x)) PROVE Once(s \o t, x)
  <2>1. SUFFICES ASSUME NEW i \in 1 .. Len(s) + Len(t), NEW j \in 1 .. Len(s) + Len(t),
                        (s \o t)[i] = x, (s \o t)[j] = x
                 PROVE  i = j
    BY <1>2 DEF Once
  <2>2. CASE i <= Len(s) /\ j <= Len(s)
    BY <2>1, <2>2, <1>4, <1>1, <1>2 DEF Once
  <2>3. CASE i > Len(s) /\ j > Len(s)
    <3>1. i - Len(s) \in 1 .. Len(t) /\ j - Len(s) \in 1 .. Len(t)
          /\ t[i - Len(s)] = x /\ t[j - Len(s)] = x
      BY <2>1, <2>3, <1>1, <1>2
    <3>2. i - Len(s) = j - Len(s)
      BY <3>1, <1>4, <1>2 DEF Once
    <3> QED BY <3>2, <1>2
  <2>4. ASSUME NEW k \in 1 .. Len(s) + Len(t), NEW l \in 1 .. Len(s) + Len(t),
               k <= Len(s), l > Len(s), (s \o t)[k] = x, (s \o t)[l] = x
        PROVE FALSE
    <3>1. k \in 1 .. Len(s) /\ s[k] = x /\ l - Len(s) \in 1 .. Len(t) /\ t[l - Len(s)] = x
      BY <2>4, <1>1, <1>2
    <3> QED BY <3>1, <1>4, <1>2 DEF Has
  <2> QED BY <2>1, <2>2, <2>3, <2>4, <1>2
<1> QED BY <1>1, <1>3, <1>4

\* What is in a stream after its first token has been read.
LEMMA TailHas ==
    ASSUME NEW S, NEW s \in Seq(S), s # <<>>
    PROVE  /\ Tail(s) \in Seq(S)
           /\ Head(s) \in S /\ Has(s, Head(s))
           /\ \A x : Has(Tail(s), x) => Has(s, x)
           /\ \A x : Has(s, x) /\ Head(s) # x => Has(Tail(s), x)
           /\ \A x : Once(s, x) => Once(Tail(s), x)
           /\ \A x : Once(s, x) /\ Head(s) = x => ~Has(Tail(s), x)
<1>1. /\ Len(s) \in Nat \ {0} /\ DOMAIN s = 1 .. Len(s) /\ Head(s) = s[1] /\ Head(s) \in S
      /\ Tail(s) \in Seq(S) /\ Len(Tail(s)) = Len(s) - 1
      /\ \A i \in 1 .. Len(Tail(s)) : Tail(s)[i] = s[i + 1]
  BY HeadTailProperties, LenProperties, EmptySeq
<1>2. DOMAIN Tail(s) = 1 .. Len(s) - 1
  BY <1>1, LenProperties
<1>3. \A i \in 1 .. Len(s) - 1 : i + 1 \in 1 .. Len(s) /\ Tail(s)[i] = s[i + 1]
  BY <1>1
<1>4. \A i \in 1 .. Len(s) : i # 1 => i - 1 \in 1 .. Len(s) - 1 /\ Tail(s)[i - 1] = s[i]
  <2>1. ASSUME NEW i \in 1 .. Len(s), i # 1 PROVE i - 1 \in 1 .. Len(s) - 1 /\ i - 1 + 1 = i
    BY <2>1, <1>1
  <2> QED BY <2>1, <1>3
<1>5. 1 \in 1 .. Len(s)
  BY <1>1
<1>6. Has(s, Head(s))
  BY <1>1, <1>5 DEF Has
<1>7. ASSUME NEW x, Has(Tail(s), x) PROVE Has(s, x)
  BY <1>7, <1>1, <1>2, <1>3 DEF Has
<1>8. ASSUME NEW x, Has(s, x), Head(s) # x PROVE Has(Tail(s), x)
  BY <1>8, <1>1, <1>2, <1>4 DEF Has
<1>9. ASSUME NEW x, Once(s, x) PROVE Once(Tail(s), x)
  <2>1. ASSUME NEW i \in 1 .. Len(s) - 1, NEW j \in 1 .. Len(s) - 1, Tail(s)[i] = x, Tail(s)[j] = x
        PROVE  i = j
    <3>1. i + 1 = j + 1
      BY <2>1, <1>9, <1>1, <1>3 DEF Once
    <3> QED BY <3>1, <1>1
  <2> QED BY <2>1, <1>2 DEF Once
<1>10. ASSUME NEW x, Once(s, x), Head(s) = x PROVE ~Has(Tail(s), x)
  <2>1. ASSUME NEW i \in 1 .. Len(s) - 1, Tail(s)[i] = x PROVE FALSE
    <3>1. i + 1 = 1
      BY <2>1, <1>10, <1>1, <1>3, <1>5 DEF Once
    <3> QED BY <3>1, <1>1
  <2> QED BY <2>1, <1>2 DEF Has
<1> QED BY <1>1, <1>6, <1>7, <1>8, <1>9, <1>10

\* What is in streams of one token, of two, and of no, one and two.
LEMMA OneTokenHas ==
    ASSUME NEW S, NEW a \in S
    PROVE  <<a>> \in Seq(S) /\ \A x : (Has(<<a>>, x) <=> x = a) /\ Once(<<a>>, x)
BY DEF Has, Once

LEMMA TwoTokensHave ==
    ASSUME NEW S, NEW a \in S, NEW b \in S
    PROVE  /\ <<a, b>> \in Seq(S)
           /\ \A x : Has(<<a, b>>, x) <=> x \in {a, b}
           /\ a # b => \A x : Once(<<a, b>>, x)
BY DEF Has, Once

LEMMA LiteralsHave ==
    ASSUME NEW S, NEW a \in S, NEW b \in S
    PROVE  /\ <<>> \in Seq(S) /\ <<a>> \in Seq(S) /\ <<a, b>> \in Seq(S)
           /\ \A x : ~Has(<<>>, x) /\ Once(<<>>, x)
           /\ \A x : (Has(<<a>>, x) <=> x = a) /\ Once(<<a>>, x)
           /\ \A x : Has(<<a, b>>, x) <=> x \in {a, b}
           /\ a # b => \A x : Once(<<a, b>>, x)
<1>1. <<>> \in Seq(S) /\ \A x : ~Has(<<>>, x) /\ Once(<<>>, x)
  BY DEF Has, Once
<1> QED BY <1>1, OneTokenHas, TwoTokensHave

\* What a write of the server adds to the stream to one client (Nwrite).
LEMMA ServerSendsHas ==
    ASSUME toClient \in [Clients -> Seq(Tokens)],
           NEW c \in Clients, NEW t \in Seq(Tokens), ServerSends(c, t)
    PROVE  /\ toClient' \in [Clients -> Seq(Tokens)]
           /\ \A d \in Clients : d # c => toClient'[d] = toClient[d]
           /\ \A x : Has(toClient'[c], x) <=> Has(toClient[c], x) \/ Has(t, x)
           /\ \A x : Once(toClient[c], x) /\ Once(t, x) /\ ~(Has(toClient[c], x) /\ Has(t, x))
                     => Once(toClient'[c], x)
<1>1. toClient' = [toClient EXCEPT ![c] = toClient[c] \o t] /\ toClient[c] \in Seq(Tokens)
  BY DEF ServerSends
<1> QED BY <1>1, ConcatHas

\* What a write of a client adds to its stream (Nwrite).
LEMMA ClientSendsHas ==
    ASSUME toServer \in [Clients -> Seq(Tokens)],
           NEW c \in Clients, NEW t \in Seq(Tokens), ClientSends(c, t)
    PROVE  /\ toServer' \in [Clients -> Seq(Tokens)]
           /\ \A d \in Clients : d # c => toServer'[d] = toServer[d]
           /\ \A x : Has(toServer'[c], x) <=> Has(toServer[c], x) \/ Has(t, x)
           /\ \A x : Once(toServer[c], x) /\ Once(t, x) /\ ~(Has(toServer[c], x) /\ Has(t, x))
                     => Once(toServer'[c], x)
<1>1. toServer' = [toServer EXCEPT ![c] = toServer[c] \o t] /\ toServer[c] \in Seq(Tokens)
  BY DEF ClientSends
<1> QED BY <1>1, ConcatHas

\* short is what is left of s after its first token has been read.
Shorter(short, s) ==
    /\ Head(s) \in Tokens /\ Has(s, Head(s))
    /\ \A x : Has(short, x) => Has(s, x)
    /\ \A x : Has(s, x) /\ Head(s) # x => Has(short, x)
    /\ \A x : Once(s, x) => Once(short, x)
    /\ \A x : Once(s, x) /\ Head(s) = x => ~Has(short, x)

\* What a read of the server takes from the stream of one client (Nread).
LEMMA ServerReadsHas ==
    ASSUME toServer \in [Clients -> Seq(Tokens)],
           NEW c \in Clients, toServer[c] # <<>>, ServerReads(c)
    PROVE  /\ toServer' \in [Clients -> Seq(Tokens)]
           /\ \A d \in Clients : d # c => toServer'[d] = toServer[d]
           /\ Shorter(toServer'[c], toServer[c])
<1>1. toServer' = [toServer EXCEPT ![c] = Tail(toServer[c])] /\ toServer[c] \in Seq(Tokens)
  BY DEF ServerReads
<1>2. Tail(toServer[c]) \in Seq(Tokens) /\ Shorter(Tail(toServer[c]), toServer[c])
  BY <1>1, TailHas DEF Shorter
<1>3. toServer'[c] = Tail(toServer[c])
  BY <1>1
<1> QED BY <1>1, <1>2, <1>3

\* What a read of a client takes from its stream (Nread).
LEMMA ClientReadsHas ==
    ASSUME toClient \in [Clients -> Seq(Tokens)],
           NEW c \in Clients, toClient[c] # <<>>, ClientReads(c)
    PROVE  /\ toClient' \in [Clients -> Seq(Tokens)]
           /\ \A d \in Clients : d # c => toClient'[d] = toClient[d]
           /\ Shorter(toClient'[c], toClient[c])
<1>1. toClient' = [toClient EXCEPT ![c] = Tail(toClient[c])] /\ toClient[c] \in Seq(Tokens)
  BY DEF ClientReads
<1>2. Tail(toClient[c]) \in Seq(Tokens) /\ Shorter(Tail(toClient[c]), toClient[c])
  BY <1>1, TailHas DEF Shorter
<1>3. toClient'[c] = Tail(toClient[c])
  BY <1>1
<1> QED BY <1>1, <1>2, <1>3

\* A close of connections adds nothing but the end of the stream.
LEMMA ServerClosesHas ==
    ASSUME toClient \in [Clients -> Seq(Tokens)], NEW cs, ServerCloses(cs)
    PROVE  /\ toClient' \in [Clients -> Seq(Tokens)]
           /\ \A c \in Clients : \A x :
                x # "FIN" => /\ Has(toClient'[c], x) <=> Has(toClient[c], x)
                             /\ Once(toClient[c], x) => Once(toClient'[c], x)
<1>1. "FIN" \in Tokens
  BY DEF Tokens
<1>2. ASSUME NEW c \in Clients
      PROVE  /\ toClient'[c] \in Seq(Tokens)
             /\ \A x : x # "FIN" => /\ Has(toClient'[c], x) <=> Has(toClient[c], x)
                                    /\ Once(toClient[c], x) => Once(toClient'[c], x)
  <2>1. CASE c \in cs
    <3>1. toClient'[c] = Append(toClient[c], "FIN") /\ toClient[c] \in Seq(Tokens)
      BY <2>1 DEF ServerCloses
    <3>2. Append(toClient[c], "FIN") = toClient[c] \o <<"FIN">>
      BY <3>1, <1>1, AppendIsConcat
    <3>3. /\ <<"FIN">> \in Seq(Tokens)
          /\ \A x : (Has(<<"FIN">>, x) <=> x = "FIN") /\ Once(<<"FIN">>, x)
      BY <1>1, OneTokenHas
    <3>4. /\ toClient[c] \o <<"FIN">> \in Seq(Tokens)
          /\ \A x : Has(toClient[c] \o <<"FIN">>, x) <=> Has(toClient[c], x) \/ Has(<<"FIN">>, x)
          /\ \A x : Once(toClient[c], x) /\ Once(<<"FIN">>, x) /\ ~(Has(toClient[c], x) /\ Has(<<"FIN">>, x))
                     => Once(toClient[c] \o <<"FIN">>, x)
      BY <3>1, <3>3, ConcatHas
    <3> QED BY <3>1, <3>2, <3>3, <3>4
  <2>2. CASE c \notin cs
    <3>1. toClient'[c] = toClient[c]
      BY <2>2 DEF ServerCloses
    <3> QED BY <3>1
  <2> QED BY <2>1, <2>2
<1>3. toClient' = [c \in Clients |-> toClient'[c]]
  BY DEF ServerCloses
<1> QED BY <1>2, <1>3

----------------------------------------------------------------------------
(* What a step of the server says and hears.                               *)

\* What a client may hear that is not served.
Refusals == {"ACCESS_DENIED", "SERVER_ERROR", "FIN"}

\* Where the server says what.
Script == {<<"cookie", "PARAM_EXCHANGE">>, <<"listening", "CREATE_STREAMS">>,
           <<"start", "TEST_START">>, <<"running", "TEST_RUNNING">>,
           <<"handle", "EXCHANGE_RESULTS">>,
           <<"results", "RESULTS">>, <<"results", "DISPLAY_RESULTS">>}

\* The server, at this place, may say x to c.
Says(c, x) == c = ctrl_sck /\ <<pc, x>> \in Script

\* A step adds to the streams to the clients only what the script, or a refusal, says.
Spoken ==
    /\ toClient' \in [Clients -> Seq(Tokens)]
    /\ \A c \in Clients : \A x :
        x \notin Refusals =>
            /\ Has(toClient'[c], x) => Has(toClient[c], x) \/ Says(c, x)
            /\ Once(toClient[c], x) /\ ~(Says(c, x) /\ Has(toClient[c], x)) => Once(toClient'[c], x)

\* A step adds nothing to the streams to the server, and reads that of its client only.
Heard ==
    /\ toServer' \in [Clients -> Seq(Tokens)]
    /\ \A c \in Clients : c # ctrl_sck => toServer'[c] = toServer[c]
    /\ \A c \in Clients : \A x :
        /\ Has(toServer'[c], x) => Has(toServer[c], x)
        /\ Once(toServer[c], x) => Once(toServer'[c], x)

\* A step that writes nothing keeps to the script.
LEMMA SilentSpoken == ASSUME ChannelTypeOK, UNCHANGED toClient PROVE Spoken
BY DEF Spoken, ChannelTypeOK

\* A step that reads nothing.
LEMMA DeafHeard == ASSUME ChannelTypeOK, UNCHANGED toServer PROVE Heard
BY DEF Heard, ChannelTypeOK

\* Connections that close are heard of as refusals.
LEMMA ClosesSpoken == ASSUME ChannelTypeOK, NEW cs, ServerCloses(cs) PROVE Spoken
<1>1. toClient \in [Clients -> Seq(Tokens)]
  BY DEF ChannelTypeOK
<1> QED BY <1>1, ServerClosesHas DEF Spoken, Refusals

\* A step that reads one token of the client that is served.
LEMMA ReadsHeard ==
    ASSUME ChannelTypeOK, ctrl_sck \in Clients, toServer[ctrl_sck] # <<>>, ServerReads(ctrl_sck)
    PROVE  Heard
<1>1. toServer \in [Clients -> Seq(Tokens)]
  BY DEF ChannelTypeOK
<1> QED BY <1>1, ServerReadsHas DEF Heard, Shorter

\* One token said according to the script.
LEMMA SaysSpoken ==
    ASSUME ChannelTypeOK, ctrl_sck \in Clients, NEW a \in Tokens,
           ServerSends(ctrl_sck, <<a>>), <<pc, a>> \in Script \/ a \in Refusals
    PROVE  Spoken
<1>1. toClient \in [Clients -> Seq(Tokens)]
  BY DEF ChannelTypeOK
<1>2. /\ <<a>> \in Seq(Tokens)
      /\ \A x : (Has(<<a>>, x) <=> x = a) /\ Once(<<a>>, x)
  BY OneTokenHas
<1>3. /\ toClient' \in [Clients -> Seq(Tokens)]
      /\ \A d \in Clients : d # ctrl_sck => toClient'[d] = toClient[d]
      /\ \A x : Has(toClient'[ctrl_sck], x) <=> Has(toClient[ctrl_sck], x) \/ Has(<<a>>, x)
      /\ \A x : Once(toClient[ctrl_sck], x) /\ Once(<<a>>, x) /\ ~(Has(toClient[ctrl_sck], x) /\ Has(<<a>>, x))
                     => Once(toClient'[ctrl_sck], x)
  BY <1>1, <1>2, ServerSendsHas
<1> QED BY <1>2, <1>3 DEF Spoken, Says

\* ACCESS_DENIED goes to clients that are not served (iperf_accept).
LEMMA DeniesSpoken ==
    ASSUME ChannelTypeOK, NEW connection, Denies(connection) PROVE Spoken
<1>1. toClient \in [Clients -> Seq(Tokens)]
  BY DEF ChannelTypeOK
<1>2. CASE UNCHANGED toClient
  BY <1>2, SilentSpoken
<1>3. ASSUME NEW c \in Clients, NEW t \in {<<"ACCESS_DENIED", "FIN">>, <<"FIN">>}, ServerSends(c, t)
      PROVE  Spoken
  <2>1. "FIN" \in Tokens /\ "ACCESS_DENIED" \in Tokens
    BY DEF Tokens, States
  <2>a. /\ <<"FIN">> \in Seq(Tokens) /\ <<"ACCESS_DENIED", "FIN">> \in Seq(Tokens)
        /\ \A x : Has(<<"FIN">>, x) <=> x = "FIN"
        /\ \A x : Has(<<"ACCESS_DENIED", "FIN">>, x) <=> x \in {"ACCESS_DENIED", "FIN"}
    <3>1. <<"FIN">> \in Seq(Tokens) /\ \A x : Has(<<"FIN">>, x) <=> x = "FIN"
      BY ONLY <2>1, OneTokenHas
    <3>2. <<"ACCESS_DENIED", "FIN">> \in Seq(Tokens)
      BY <2>1
    <3>3. \A x : Has(<<"ACCESS_DENIED", "FIN">>, x) <=> x \in {"ACCESS_DENIED", "FIN"}
      BY ONLY <2>1, TwoTokensHave
    <3> QED BY <3>1, <3>2, <3>3
  <2>2. t \in Seq(Tokens) /\ \A x : Has(t, x) => x \in Refusals
    BY <2>a DEF Refusals
  <2>3. \A x : x \notin Refusals => Once(t, x)
    BY <2>2 DEF Once, Has
  <2>4. /\ toClient' \in [Clients -> Seq(Tokens)]
        /\ \A d \in Clients : d # c => toClient'[d] = toClient[d]
        /\ \A x : Has(toClient'[c], x) <=> Has(toClient[c], x) \/ Has(t, x)
        /\ \A x : Once(toClient[c], x) /\ Once(t, x) /\ ~(Has(toClient[c], x) /\ Has(t, x))
                     => Once(toClient'[c], x)
    BY <1>1, <1>3, <2>2, ServerSendsHas
  <2> QED BY <2>2, <2>3, <2>4 DEF Spoken
<1>4. CASE connection \in {Control(c) : c \in Clients}
  <2>1. connection[1] \in Clients
    BY <1>4 DEF Control
  <2> QED BY <1>3, <1>4, <2>1 DEF Denies
<1> QED BY <1>2, <1>4 DEF Denies

\* Every step of the server keeps to the script.
LEMMA ServerSpeaks ==
    ASSUME TypeOK, PlaceInv, ServerStep PROVE Spoken
<1> USE DEF Script, Refusals, Tokens, States
<1>0. ChannelTypeOK /\ ctrl_sck \in Clients \cup {None} /\ pc \in Places
  BY DEF TypeOK, ServerTypeOK
<1>1. CASE Listen \/ ListenFails \/ Arm \/ LoopTest \/ BadDescriptor
  BY <1>0, <1>1, SilentSpoken
  DEF Listen, ListenFails, Arm, LoopTest, BadDescriptor, channelVars
<1>2. CASE AcceptClient \/ AcceptNudge \/ AcceptShut \/ GetParameters \/ HandshakeFails \/ Relisten
  BY <1>0, <1>2, SilentSpoken
  DEF AcceptClient, AcceptNudge, AcceptShut, GetParameters, HandshakeFails, Relisten, channelVars
<1>3. CASE AcceptDenied \/ AcceptStranger
  BY <1>0, <1>3, DeniesSpoken DEF AcceptDenied, AcceptStranger
<1>4. CASE GetCookie
  <2>1. pc = "cookie" /\ ctrl_sck \in Clients /\ ServerSends(ctrl_sck, <<"PARAM_EXCHANGE">>)
    BY <1>0, <1>4 DEF GetCookie, PlaceInv, Talking
  <2> QED BY <1>0, <2>1, SaysSpoken
<1>5. CASE AskForStreams
  <2>1. pc = "listening" /\ ctrl_sck \in Clients /\ ServerSends(ctrl_sck, <<"CREATE_STREAMS">>)
    BY <1>0, <1>5 DEF AskForStreams, PlaceInv, Talking
  <2> QED BY <1>0, <2>1, SaysSpoken
<1>6. CASE ProtocolListenFails
  <2>1. ctrl_sck \in Clients /\ ServerSends(ctrl_sck, <<"SERVER_ERROR">>)
    BY <1>0, <1>6 DEF ProtocolListenFails, PlaceInv, Talking
  <2> QED BY <1>0, <2>1, SaysSpoken
<1>7. CASE CloseListener \/ RenewListener \/ Cleanup
  BY <1>0, <1>7, ClosesSpoken DEF CloseListener, RenewListener, Cleanup
<1>8. CASE ReadDone \/ ReadMessage \/ ReadNonsense \/ ResultsFail \/ ClientTerminated \/ Overtaken
  BY <1>0, <1>8, SilentSpoken
  DEF ReadDone, ReadMessage, ReadNonsense, ResultsFail, ClientTerminated, Overtaken, channelVars
<1>9. CASE EndTest
  <2>1. pc = "handle" /\ ctrl_sck \in Clients /\ ServerSends(ctrl_sck, <<"EXCHANGE_RESULTS">>)
    BY <1>0, <1>9 DEF EndTest, PlaceInv, Talking
  <2> QED BY <1>0, <2>1, SaysSpoken
<1>10. CASE ExchangeResults
  <2>1. pc = "results" /\ ctrl_sck \in Clients /\ ServerSends(ctrl_sck, <<"RESULTS", "DISPLAY_RESULTS">>)
    BY <1>0, <1>10 DEF ExchangeResults, PlaceInv, Talking
  <2>2. "RESULTS" \in Tokens /\ "DISPLAY_RESULTS" \in Tokens
    BY DEF Json
  <2> HIDE DEF Tokens
  <2> DEFINE t == <<"RESULTS", "DISPLAY_RESULTS">>
  <2>3. t \in Seq(Tokens) /\ \A x : (Has(t, x) <=> x \in {"RESULTS", "DISPLAY_RESULTS"}) /\ Once(t, x)
    BY <2>2, TwoTokensHave
  <2> HIDE DEF t
  <2>4. /\ toClient' \in [Clients -> Seq(Tokens)]
        /\ \A d \in Clients : d # ctrl_sck => toClient'[d] = toClient[d]
        /\ \A x : Has(toClient'[ctrl_sck], x) <=> Has(toClient[ctrl_sck], x) \/ Has(t, x)
        /\ \A x : Once(toClient[ctrl_sck], x) /\ Once(t, x) /\ ~(Has(toClient[ctrl_sck], x) /\ Has(t, x))
                     => Once(toClient'[ctrl_sck], x)
    <3>1. toClient \in [Clients -> Seq(Tokens)] /\ ServerSends(ctrl_sck, t)
      BY <1>0, <2>1 DEF ChannelTypeOK, t
    <3> QED BY <3>1, <2>1, <2>3, ServerSendsHas
  <2> QED BY <2>1, <2>3, <2>4 DEF Spoken, Says
<1>11. CASE AcceptStream \/ StreamFails \/ ReopenListener \/ ReopenFails \/ StartFails
  BY <1>0, <1>11, SilentSpoken
  DEF AcceptStream, StreamFails, ReopenListener, ReopenFails, StartFails, channelVars
<1>12. CASE StartTest
  <2>1. pc = "start" /\ ctrl_sck \in Clients /\ ServerSends(ctrl_sck, <<"TEST_START">>)
    BY <1>0, <1>12 DEF StartTest, PlaceInv, Talking
  <2> QED BY <1>0, <2>1, SaysSpoken
<1>13. CASE RunTest
  <2>1. pc = "running" /\ ctrl_sck \in Clients /\ ServerSends(ctrl_sck, <<"TEST_RUNNING">>)
    BY <1>0, <1>13 DEF RunTest, PlaceInv, Talking
  <2> QED BY <1>0, <2>1, SaysSpoken
<1>14. CASE ServerTimer
  BY <1>0, <1>14, SilentSpoken, ClosesSpoken DEF ServerTimer
<1>15. CASE RcvTimeout \/ ConnectionBreaks
  BY <1>0, <1>15, SilentSpoken DEF RcvTimeout, ConnectionBreaks, channelVars
<1> QED
  BY <1>1, <1>2, <1>3, <1>4, <1>5, <1>6, <1>7, <1>8, <1>9, <1>10, <1>11, <1>12, <1>13, <1>14, <1>15
  DEF ServerStep, Handshake, Messages, CreateStreams

\* Every step of the server reads from its client only.
LEMMA ServerHears ==
    ASSUME TypeOK, PlaceInv, ServerStep PROVE Heard
<1>0. ChannelTypeOK /\ ctrl_sck \in Clients \cup {None}
  BY DEF TypeOK, ServerTypeOK
<1>1. CASE UNCHANGED toServer
  BY <1>0, <1>1, DeafHeard
<1>2. CASE GetCookie \/ GetParameters \/ CloseListener \/ ExchangeResults
  <2>1. pc \in Talking /\ toServer[ctrl_sck] # <<>> /\ ServerReads(ctrl_sck)
    BY <1>2 DEF GetCookie, GetParameters, CloseListener, ExchangeResults, NextIs, Talking
  <2> QED BY <1>0, <2>1, ReadsHeard DEF PlaceInv
<1>3. CASE ReadMessage \/ ReadNonsense
  <2>1. ctrl_sck # None /\ toServer[ctrl_sck] # <<>> /\ ServerReads(ctrl_sck)
    BY <1>3 DEF ReadMessage, ReadNonsense, ServesControl, ControlReadable
  <2> QED BY <1>0, <2>1, ReadsHeard
<1>4. CASE ReadDone
  <2>1. ctrl_sck # None /\ toServer[ctrl_sck] # <<>>
    BY <1>4 DEF ReadDone, ServesControl, ControlReadable
  <2>2. CASE Head(toServer[ctrl_sck]) = "FIN"
    <3>1. toServer' = toServer
      BY <1>0, <1>4, <2>2 DEF ReadDone, ChannelTypeOK
    <3> QED BY <3>1, <1>0, DeafHeard
  <2>3. CASE Head(toServer[ctrl_sck]) # "FIN"
    <3>1. ServerReads(ctrl_sck)
      BY <1>4, <2>3 DEF ReadDone, ServerReads
    <3> QED BY <3>1, <2>1, <1>0, ReadsHeard
  <2> QED BY <2>2, <2>3
<1>5. ASSUME ~GetCookie, ~GetParameters, ~CloseListener, ~ExchangeResults,
             ~ReadMessage, ~ReadNonsense, ~ReadDone
      PROVE  UNCHANGED toServer
  <2>1. CASE Handshake
    BY <2>1, <1>5
    DEF Handshake, AcceptClient, AcceptNudge, AcceptDenied, AcceptShut, HandshakeFails,
        Relisten, AskForStreams, ProtocolListenFails, channelVars
  <2>2. CASE Messages
    BY <2>2, <1>5
    DEF Messages, EndTest, ResultsFail, ClientTerminated, Overtaken, channelVars
  <2>3. CASE CreateStreams
    BY <2>3
    DEF CreateStreams, AcceptStream, AcceptStranger, StreamFails, RenewListener,
        ReopenListener, ReopenFails, StartTest, RunTest, StartFails, channelVars
  <2>4. CASE ~Handshake /\ ~Messages /\ ~CreateStreams
    BY <2>4
    DEF ServerStep, Listen, ListenFails, Arm, LoopTest, BadDescriptor, Cleanup,
        ServerTimer, RcvTimeout, ConnectionBreaks, channelVars
  <2> QED BY <2>1, <2>2, <2>3, <2>4
<1> QED BY <1>1, <1>2, <1>3, <1>4, <1>5

----------------------------------------------------------------------------
(* What a step of a client says and hears.                                 *)

\* A step of the client c, or what may happen to it.
ClientMoves(c) == ClientStep(c) \/ Dial(c) \/ Killed(c) \/ GoesSilent(c)

\* States of a client that has not got past the handshake.
Early == {"INIT", "ACCESS_DENIED", "SERVER_ERROR"}

\* The client has heard a request, which is not there any more.
Answers(c, request) ==
    /\ Hears(c, request)
    /\ Once(toClient[c], request) => ~Has(toClient'[c], request)

\* When a step of c says what.
ClientSays(c, x) ==
    \/ x = "FIN"
    \/ x = "CLIENT_TERMINATE" /\ cpc'[c] = "killed"
    \/ x = "COOKIE" /\ cpc[c] = "dialled" /\ cpc'[c] = "select"
    \/ x = "PARAMS" /\ Answers(c, "PARAM_EXCHANGE") /\ cpc'[c] = "select"
    \/ x = "TEST_END" /\ cstate[c] = "TEST_RUNNING" /\ cstate'[c] = "TEST_END"
    \/ x = "RESULTS" /\ Answers(c, "EXCHANGE_RESULTS") /\ cpc'[c] = "results"
    \/ x = "IPERF_DONE" /\ cstate'[c] \notin Early

\* A step adds to the stream of c only what ClientSays, to no other stream.
ClientSpoken(c) ==
    /\ toServer' \in [Clients -> Seq(Tokens)]
    /\ \A d \in Clients : d # c => toServer'[d] = toServer[d]
    /\ \A x : Has(toServer'[c], x) => Has(toServer[c], x) \/ ClientSays(c, x)
    /\ \A x : x \notin {"FIN", "CLIENT_TERMINATE"} =>
        (Once(toServer[c], x) /\ ~(Has(toServer[c], x) /\ ClientSays(c, x)) => Once(toServer'[c], x))

\* A step adds nothing to the streams to the clients, and reads that of c only.
ClientHeard(c) ==
    /\ toClient' \in [Clients -> Seq(Tokens)]
    /\ \A d \in Clients : d # c => toClient'[d] = toClient[d]
    /\ \A x : /\ Has(toClient'[c], x) => Has(toClient[c], x)
              /\ Once(toClient[c], x) => Once(toClient'[c], x)

\* Every step of a client reads its own stream only.
LEMMA ClientHears ==
    ASSUME TypeOK, NEW c \in Clients, ClientMoves(c)
    PROVE  ClientHeard(c)
<1>0. toClient \in [Clients -> Seq(Tokens)]
  BY DEF TypeOK, ChannelTypeOK
<1>1. CASE UNCHANGED toClient
  BY <1>0, <1>1 DEF ClientHeard
<1>2. CASE ~UNCHANGED toClient
  <2>1. toClient[c] # <<>> /\ ClientReads(c)
    BY <1>2
    DEF ClientMoves, ClientStep, Dial, SendCookie, SendParameters, HearCreateStreams, ConnectStream,
        HearTestStart, HearTestRunning, EndOfTest, SendResults, GetResults, HearDisplayResults,
        HearEnd, Fails, Killed, GoesSilent, Hears, NextIs, channelVars
  <2> QED BY <1>0, <2>1, ClientReadsHas DEF ClientHeard, Shorter
<1> QED BY <1>1, <1>2

\* A write of tokens that are each said rightly.
LEMMA SaysTokens ==
    ASSUME TypeOK, NEW c \in Clients, NEW t \in Seq(Tokens), ClientSends(c, t),
           \A x : Has(t, x) => ClientSays(c, x),
           \A x : Once(t, x)
    PROVE  ClientSpoken(c)
<1>0. toServer \in [Clients -> Seq(Tokens)]
  BY DEF TypeOK, ChannelTypeOK
<1>1. /\ toServer' \in [Clients -> Seq(Tokens)]
      /\ \A d \in Clients : d # c => toServer'[d] = toServer[d]
      /\ \A x : Has(toServer'[c], x) <=> Has(toServer[c], x) \/ Has(t, x)
      /\ \A x : Once(toServer[c], x) /\ Once(t, x) /\ ~(Has(toServer[c], x) /\ Has(t, x))
                     => Once(toServer'[c], x)
  BY <1>0, ClientSendsHas
<1> QED BY <1>1 DEF ClientSpoken

\* One token said rightly.
LEMMA SaysOne ==
    ASSUME TypeOK, NEW c \in Clients, NEW a \in Tokens, ClientSends(c, <<a>>), ClientSays(c, a)
    PROVE  ClientSpoken(c)
<1>1. <<a>> \in Seq(Tokens) /\ \A x : (Has(<<a>>, x) <=> x = a) /\ Once(<<a>>, x)
  BY OneTokenHas
<1> QED BY <1>1, SaysTokens

\* Two tokens said rightly.
LEMMA SaysTwo ==
    ASSUME TypeOK, NEW c \in Clients, NEW a \in Tokens, NEW b \in Tokens, a # b,
           ClientSends(c, <<a, b>>), ClientSays(c, a), ClientSays(c, b)
    PROVE  ClientSpoken(c)
<1>1. <<a, b>> \in Seq(Tokens) /\ \A x : (Has(<<a, b>>, x) <=> x \in {a, b}) /\ Once(<<a, b>>, x)
  BY TwoTokensHave
<1> QED BY <1>1, SaysTokens

\* A request that is heard is not heard again.
LEMMA HeardAnswer ==
    ASSUME TypeOK, NEW c \in Clients, NEW request, Hears(c, request), ClientReads(c)
    PROVE  Answers(c, request)
<1>1. /\ toClient \in [Clients -> Seq(Tokens)]
      /\ toClient[c] # <<>> /\ Head(toClient[c]) = request
  BY DEF TypeOK, ChannelTypeOK, Hears, NextIs
<1> QED BY <1>1, ClientReadsHas DEF Answers, Shorter

\* A client that fails says IPERF_DONE only past the handshake (cleanup_and_fail).
LEMMA CleanupSpeaks ==
    ASSUME TypeOK, NEW c \in Clients, NEW last, CleanupAndFail(c, last)
    PROVE  ClientSpoken(c)
<1>0. cstate \in [Clients -> States] /\ cstate' = [cstate EXCEPT ![c] = last]
  BY DEF TypeOK, ClientTypeOK, CleanupAndFail, Becomes
<1>1. "FIN" \in Tokens /\ "IPERF_DONE" \in Tokens
  BY DEF Tokens, States
<1>2. CASE last \in Early
  <2>1. ClientSends(c, <<"FIN">>)
    BY <1>2 DEF CleanupAndFail, Early
  <2> QED BY <2>1, <1>1, SaysOne DEF ClientSays
<1>3. CASE last \notin Early
  <2>1. ClientSends(c, <<"IPERF_DONE", "FIN">>)
    BY <1>3 DEF CleanupAndFail, Early
  <2>2. ClientSays(c, "IPERF_DONE") /\ ClientSays(c, "FIN")
    BY <1>0, <1>3 DEF ClientSays
  <2> QED BY <2>1, <2>2, <1>1, SaysTwo
<1> QED BY <1>2, <1>3

\* Every step of a client says what ClientSays allows.
LEMMA ClientSpeaks ==
    ASSUME TypeOK, NEW c \in Clients, ClientMoves(c)
    PROVE  ClientSpoken(c)
<1>0. /\ toServer \in [Clients -> Seq(Tokens)]
      /\ cpc \in [Clients -> {"idle", "dialled", "select", "creating", "results"} \cup Ended]
      /\ cstate \in [Clients -> States]
  BY DEF TypeOK, ChannelTypeOK, ClientTypeOK
<1>1. {"COOKIE", "PARAMS", "RESULTS", "TEST_END", "IPERF_DONE", "CLIENT_TERMINATE", "FIN"} \subseteq Tokens
  BY DEF Tokens, States, Json
<1>2. CASE UNCHANGED toServer
  BY <1>0, <1>2 DEF ClientSpoken
<1>3. CASE SendCookie(c)
  <2>1. ClientSends(c, <<"COOKIE">>) /\ ClientSays(c, "COOKIE")
    BY <1>0, <1>3 DEF SendCookie, ClientSays, Goto
  <2> QED BY <2>1, <1>1, SaysOne
<1>4. CASE SendParameters(c)
  <2>1. ClientSends(c, <<"PARAMS">>) /\ Answers(c, "PARAM_EXCHANGE") /\ cpc'[c] = "select"
    BY <1>4, HeardAnswer DEF SendParameters, Hears
  <2>2. ClientSays(c, "PARAMS")
    BY <2>1 DEF ClientSays
  <2> QED BY <2>1, <2>2, <1>1, SaysOne
<1>5. CASE EndOfTest(c)
  <2>1. ClientSends(c, <<"TEST_END">>) /\ ClientSays(c, "TEST_END")
    BY <1>0, <1>5 DEF EndOfTest, ClientSays, Becomes
  <2> QED BY <2>1, <1>1, SaysOne
<1>6. CASE SendResults(c)
  <2>1. ClientSends(c, <<"RESULTS">>) /\ Answers(c, "EXCHANGE_RESULTS") /\ cpc'[c] = "results"
    BY <1>0, <1>6, HeardAnswer DEF SendResults, Goto
  <2>2. ClientSays(c, "RESULTS")
    BY <2>1 DEF ClientSays
  <2> QED BY <2>1, <2>2, <1>1, SaysOne
<1>7. CASE HearDisplayResults(c)
  <2>1. ClientSends(c, <<"IPERF_DONE", "FIN">>) /\ ClientSays(c, "IPERF_DONE") /\ ClientSays(c, "FIN")
    BY <1>0, <1>7 DEF HearDisplayResults, ClientSays, Becomes, Early
  <2> QED BY <2>1, <1>1, SaysTwo
<1>8. CASE HearEnd(c) \/ Fails(c)
  BY <1>8, CleanupSpeaks DEF HearEnd, Fails
<1>9. CASE Killed(c)
  <2>1. /\ ClientSends(c, <<"FIN">>) \/ ClientSends(c, <<"CLIENT_TERMINATE", "FIN">>)
        /\ cpc'[c] = "killed"
    BY <1>0, <1>9 DEF Killed, Goto
  <2> QED BY <2>1, <1>1, SaysOne, SaysTwo DEF ClientSays
<1> QED
  BY <1>2, <1>3, <1>4, <1>5, <1>6, <1>7, <1>8, <1>9
  DEF ClientMoves, ClientStep, Dial, HearCreateStreams, ConnectStream, HearTestStart, HearTestRunning,
      GetResults, GoesSilent, channelVars

----------------------------------------------------------------------------
(* The kinds of steps, and the types.                                      *)

\* A step of the server, seen from the session.
ServerMoves == ServerStep /\ UNCHANGED <<clientVars, faults, stop, stops>>

\* The kinds of steps of a session.
LEMMA NextCases ==
    ASSUME TypeOK, [Next]_vars
    PROVE  \/ ServerMoves \/ MarkDone \/ Shutdown \/ Nudge \/ UNCHANGED vars
           \/ \E c \in Clients :
                /\ ClientMoves(c) /\ UNCHANGED <<serverVars, stop, stops>>
                /\ faults' \in 0 .. MaxFaults
<1>1. faults \in 0 .. MaxFaults /\ MaxFaults \in Nat
  BY SessionAssumption DEF TypeOK
<1> QED
  BY <1>1 DEF Next, ServerMoves, ServerActs, Stop, Over, ClientActs, ClientDials, ClientMoves, Fault

\* The backlog, its head and its tail.
LEMMA HeadTyped ==
    ASSUME TypeOK, queue # <<>>
    PROVE  /\ Head(queue) \in Connections /\ Tail(queue) \in Seq(Connections)
           /\ Len(queue) \in Nat \ {0} /\ Head(queue) = queue[1]
           /\ DOMAIN queue = 1 .. Len(queue) /\ DOMAIN Tail(queue) = 1 .. Len(queue) - 1
           /\ \A i \in 1 .. Len(queue) - 1 : i + 1 \in 1 .. Len(queue) /\ Tail(queue)[i] = queue[i + 1]
           /\ \A i \in DOMAIN queue : queue[i] \in Connections
<1>1. queue \in Seq(Connections)
  BY DEF TypeOK, ChannelTypeOK
<1> QED BY <1>1, HeadTailProperties, LenProperties, EmptySeq, ElementOfSeq

\* The two parts of a connection; only the nudge is without a client.
LEMMA ConnectionsTyped ==
    ASSUME NEW k \in Connections
    PROVE  /\ k[1] \in Clients \cup {None} /\ k[2] \in 0 .. 2 * NumStreams
           /\ k = <<k[1], k[2]>>
           /\ k # NudgeConnection => k[1] \in Clients
           /\ k[2] > 0 => k[1] \in Clients
BY StreamsAssumption DEF Connections, NudgeConnection

\* What a client asks for does not change.
LEMMA SetupStays ==
    ASSUME IInv, [Next]_vars
    PROVE  setup' = setup
<1>1. ASSUME ServerStep PROVE setup' = setup
  BY <1>1
  DEF ServerStep, Handshake, Messages, CreateStreams, Listen, ListenFails, Arm, LoopTest,
      BadDescriptor, AcceptClient, AcceptNudge, AcceptDenied, AcceptShut, GetCookie, GetParameters,
      HandshakeFails, CloseListener, Relisten, AskForStreams, ProtocolListenFails, ReadDone,
      ReadMessage, ReadNonsense, EndTest, ExchangeResults, ResultsFail, ClientTerminated, Overtaken,
      AcceptStream, AcceptStranger, StreamFails, RenewListener, ReopenListener, ReopenFails,
      StartTest, RunTest, StartFails, Cleanup, ServerTimer, RcvTimeout, ConnectionBreaks, channelVars
<1>2. ASSUME NEW c \in Clients, ClientMoves(c) PROVE setup' = setup
  BY <1>2
  DEF ClientMoves, ClientStep, Dial, SendCookie, SendParameters, HearCreateStreams, ConnectStream,
      HearTestStart, HearTestRunning, EndOfTest, SendResults, GetResults, HearDisplayResults,
      HearEnd, Fails, Killed, GoesSilent, channelVars
<1>3. CASE MarkDone \/ Shutdown \/ Nudge \/ UNCHANGED vars
  BY <1>3 DEF MarkDone, Shutdown, Nudge, vars, channelVars
<1>4. TypeOK
  BY DEF IInv
<1> QED BY <1>1, <1>2, <1>3, <1>4, NextCases DEF ServerMoves

\* The server takes the oldest connection from the backlog, or loses all.
LEMMA ServerQueue ==
    ASSUME ServerStep
    PROVE  queue' = queue \/ queue' = <<>> \/ (queue # <<>> /\ queue' = Tail(queue))
BY DEF ServerStep, Handshake, Messages, CreateStreams, Listen, ListenFails, Arm, LoopTest,
       BadDescriptor, AcceptClient, AcceptNudge, AcceptDenied, AcceptShut, GetCookie, GetParameters,
       HandshakeFails, CloseListener, Relisten, AskForStreams, ProtocolListenFails, ReadDone,
       ReadMessage, ReadNonsense, EndTest, ExchangeResults, ResultsFail, ClientTerminated, Overtaken,
       AcceptStream, AcceptStranger, StreamFails, RenewListener, ReopenListener, ReopenFails,
       StartTest, RunTest, StartFails, Cleanup, ServerTimer, RcvTimeout, ConnectionBreaks, channelVars,
       Accepts, ServesStream, ServesListener, ListenerReadable

\* Every step keeps the types.
LEMMA TypeStep ==
    ASSUME IInv, [Next]_vars
    PROVE  TypeOK'
<1>0. /\ TypeOK /\ ChannelTypeOK /\ ServerTypeOK /\ ClientTypeOK
      /\ faults \in 0 .. MaxFaults /\ stop \in {"idle", "shutdown", "nudge"} /\ stops \in 0 .. MaxStops
      /\ PlaceInv /\ CreationInv
  BY DEF IInv, TypeOK
<1>a. /\ setup \in [Clients -> Setups] /\ queue \in Seq(Connections)
      /\ mode \in Modes /\ ctrl_sck \in Clients \cup {None}
      /\ streams \in Seq(Connections) /\ stale \subseteq {"ctrl_sck", "streams", "listener"}
      /\ done \in BOOLEAN /\ dead \in BOOLEAN /\ threads \in BOOLEAN /\ stray \in BOOLEAN /\ timer \in BOOLEAN
      /\ pc \in Places /\ state \in States /\ <<>> \in Seq(Connections)
  BY <1>0 DEF ServerTypeOK, ChannelTypeOK
<1>1. CASE ServerMoves
  <2>1. ServerStep /\ UNCHANGED <<clientVars, faults, stop, stops>>
    BY <1>1 DEF ServerMoves
  <2>2. toClient' \in [Clients -> Seq(Tokens)] /\ toServer' \in [Clients -> Seq(Tokens)]
    BY <1>0, <2>1, ServerSpeaks, ServerHears DEF Spoken, Heard
  <2>3. setup' = setup
    BY SetupStays
  <2>4. listener' \in {"closed", "open", "shut"}
    BY <2>1, <1>0
    DEF ServerStep, Handshake, Messages, CreateStreams, Listen, ListenFails, Arm, LoopTest,
        BadDescriptor, AcceptClient, AcceptNudge, AcceptDenied, AcceptShut, GetCookie, GetParameters,
        HandshakeFails, CloseListener, Relisten, AskForStreams, ProtocolListenFails, ReadDone,
        ReadMessage, ReadNonsense, EndTest, ExchangeResults, ResultsFail, ClientTerminated, Overtaken,
        AcceptStream, AcceptStranger, StreamFails, RenewListener, ReopenListener, ReopenFails,
        StartTest, RunTest, StartFails, Cleanup, ServerTimer, RcvTimeout, ConnectionBreaks, channelVars,
        ChannelTypeOK
  <2>5. queue' = queue \/ queue' = <<>> \/ (queue # <<>> /\ queue' = Tail(queue))
    BY <2>1, ServerQueue
  <2>6. queue' \in Seq(Connections)
    BY <2>5, <1>0, <1>a, HeadTyped
  <2>7. ChannelTypeOK'
    BY <2>2, <2>3, <2>4, <2>6, <1>a DEF ChannelTypeOK
  <2>8. ClientTypeOK' /\ faults' = faults /\ stop' = stop /\ stops' = stops
    BY <2>1, <1>0 DEF ClientTypeOK, clientVars
  <2>9. ServerTypeOK'
    <3> USE DEF ServerTypeOK
    <3>1. CASE \/ Listen \/ ListenFails \/ Arm \/ LoopTest
               \/ BadDescriptor \/ AcceptShut \/ AcceptDenied
               \/ GetCookie \/ Relisten \/ AskForStreams
               \/ ReadDone \/ ReadMessage \/ ReadNonsense
               \/ ExchangeResults \/ ResultsFail \/ Overtaken
               \/ AcceptStranger \/ StreamFails \/ RenewListener
               \/ ReopenListener \/ ReopenFails \/ StartTest
               \/ RcvTimeout \/ ConnectionBreaks
      <4>1. CASE Listen \/ ListenFails \/ Arm \/ LoopTest
        <5>1. pc' \in Places /\ state' \in States BY <4>1, <1>a DEF Listen, ListenFails, Arm, LoopTest, Places, States
        <5>2. UNCHANGED <<testVars, controlVars>> BY <4>1 DEF Listen, ListenFails, Arm, LoopTest
        <5> QED BY <5>1, <5>2, <1>a DEF testVars, controlVars
      <4>2. CASE BadDescriptor \/ AcceptShut \/ AcceptDenied
        <5>1. pc' \in Places /\ state' \in States BY <4>2, <1>a DEF BadDescriptor, AcceptShut, AcceptDenied, Places, States
        <5>2. UNCHANGED <<testVars, controlVars>> BY <4>2 DEF BadDescriptor, AcceptShut, AcceptDenied
        <5> QED BY <5>1, <5>2, <1>a DEF testVars, controlVars
      <4>3. CASE GetCookie \/ Relisten \/ AskForStreams
        <5>1. pc' \in Places /\ state' \in States BY <4>3, <1>a DEF GetCookie, Relisten, AskForStreams, Places, States
        <5>2. UNCHANGED <<testVars, controlVars>> BY <4>3 DEF GetCookie, Relisten, AskForStreams
        <5> QED BY <5>1, <5>2, <1>a DEF testVars, controlVars
      <4>4. CASE ReadDone \/ ReadMessage \/ ReadNonsense
        <5>1. pc' \in Places /\ state' \in States BY <4>4, <1>a DEF ReadDone, ReadMessage, ReadNonsense, Places, States
        <5>2. UNCHANGED <<testVars, controlVars>> BY <4>4 DEF ReadDone, ReadMessage, ReadNonsense
        <5> QED BY <5>1, <5>2, <1>a DEF testVars, controlVars
      <4>5. CASE ExchangeResults \/ ResultsFail \/ Overtaken
        <5>1. pc' \in Places /\ state' \in States BY <4>5, <1>a DEF ExchangeResults, ResultsFail, Overtaken, Places, States
        <5>2. UNCHANGED <<testVars, controlVars>> BY <4>5 DEF ExchangeResults, ResultsFail, Overtaken
        <5> QED BY <5>1, <5>2, <1>a DEF testVars, controlVars
      <4>6. CASE AcceptStranger \/ StreamFails \/ RenewListener
        <5>1. pc' \in Places /\ state' \in States BY <4>6, <1>a DEF AcceptStranger, StreamFails, RenewListener, Places, States
        <5>2. UNCHANGED <<testVars, controlVars>> BY <4>6 DEF AcceptStranger, StreamFails, RenewListener
        <5> QED BY <5>1, <5>2, <1>a DEF testVars, controlVars
      <4>7. CASE ReopenListener \/ ReopenFails \/ StartTest
        <5>1. pc' \in Places /\ state' \in States BY <4>7, <1>a DEF ReopenListener, ReopenFails, StartTest, Places, States
        <5>2. UNCHANGED <<testVars, controlVars>> BY <4>7 DEF ReopenListener, ReopenFails, StartTest
        <5> QED BY <5>1, <5>2, <1>a DEF testVars, controlVars
      <4>8. CASE RcvTimeout \/ ConnectionBreaks
        <5>1. pc' \in Places /\ state' \in States BY <4>8, <1>a DEF RcvTimeout, ConnectionBreaks, Places, States
        <5>2. UNCHANGED <<testVars, controlVars>> BY <4>8 DEF RcvTimeout, ConnectionBreaks
        <5> QED BY <5>1, <5>2, <1>a DEF testVars, controlVars
      <4> QED BY <3>1, <4>1, <4>2, <4>3, <4>4, <4>5, <4>6, <4>7, <4>8
    <3>2. CASE AcceptClient
      <4>1. Head(queue) \in Connections /\ Head(queue) # NudgeConnection
        BY <3>2, <1>0, HeadTyped DEF AcceptClient, Accepts, ServesListener, ListenerReadable
      <4>2. Head(queue)[1] \in Clients
        BY <4>1, ConnectionsTyped
      <4> QED BY <3>2, <4>2, <1>a DEF AcceptClient, testVars, Places
    <3>3. CASE GetParameters \/ CloseListener
      <4>1. ctrl_sck \in Clients
        BY <3>3, <1>0, <1>a DEF GetParameters, CloseListener, PlaceInv, Talking
      <4>2. setup[ctrl_sck].mode \in Modes
        BY <4>1, <1>a DEF Setups
      <4>3. pc' \in {"listening", "relisten"} /\ mode' = setup[ctrl_sck].mode
        BY <3>3 DEF GetParameters, CloseListener
      <4>4. UNCHANGED <<state, testVars, ctrl_sck, stale>>
        BY <3>3 DEF GetParameters, CloseListener
      <4> QED BY <4>2, <4>3, <4>4, <1>a DEF testVars, Places
    <3>4. CASE AcceptStream
      <4>1. Head(queue) \in Connections
        BY <3>4, <1>0, HeadTyped DEF AcceptStream, ServesStream, ServesListener, ListenerReadable
      <4>2. streams' \in Seq(Connections)
        BY <3>4, <4>1, <1>a, AppendProperties DEF AcceptStream
      <4>3. pc' \in {"top", "renew", "start"}
        BY <3>4 DEF AcceptStream
      <4>4. UNCHANGED <<state, done, dead, threads, stray, timer, controlVars>>
        BY <3>4 DEF AcceptStream
      <4> QED BY <4>2, <4>3, <4>4, <1>a DEF controlVars, Places
    <3>5. CASE RunTest
      <4>1. ctrl_sck \in Clients
        BY <3>5, <1>0, <1>a DEF RunTest, PlaceInv, Talking
      <4>2. setup[ctrl_sck].timed \in BOOLEAN
        BY <4>1, <1>a DEF Setups
      <4>3. done' \in BOOLEAN /\ timer' \in BOOLEAN
        BY <3>5, <4>2, <1>a DEF RunTest
      <4> QED BY <3>5, <4>3, <1>a DEF RunTest, controlVars, Places, States
    <3>6. CASE HandshakeFails \/ AcceptNudge \/ ProtocolListenFails \/ ClientTerminated
      <4>1. pc' \in Places /\ state' \in States
        BY <3>6, <1>a DEF HandshakeFails, AcceptNudge, ProtocolListenFails, ClientTerminated, Places, States
      <4>2. stale' \subseteq {"ctrl_sck", "streams", "listener"}
        BY <3>6, <1>a DEF HandshakeFails, AcceptNudge, ProtocolListenFails, ClientTerminated
      <4>3. UNCHANGED <<testVars, mode, ctrl_sck>>
        BY <3>6 DEF HandshakeFails, AcceptNudge, ProtocolListenFails, ClientTerminated
      <4> QED BY <4>1, <4>2, <4>3, <1>a DEF testVars
    <3>7. CASE EndTest
      <4>1. pc' \in Places /\ state' \in States /\ stale' \subseteq {"ctrl_sck", "streams", "listener"}
        BY <3>7, <1>a DEF EndTest, Places, States
      <4>2. done' = TRUE /\ UNCHANGED <<dead, streams, threads, stray, timer, ctrl_sck, mode>>
        BY <3>7 DEF EndTest
      <4> QED BY <4>1, <4>2, <1>a
    <3>8. CASE StartFails
      <4>1. pc' \in Places /\ threads' \in BOOLEAN
        BY <3>8, <1>a DEF StartFails, Places
      <4>2. UNCHANGED <<state, done, dead, streams, stray, timer, controlVars>>
        BY <3>8 DEF StartFails
      <4> QED BY <4>1, <4>2, <1>a DEF controlVars
    <3>9. CASE Cleanup
      <4>1. pc' \in Places /\ ctrl_sck' \in Clients \cup {None}
        BY <3>9 DEF Cleanup, Places
      <4>2. threads' = FALSE /\ timer' = FALSE /\ UNCHANGED <<state, done, dead, streams, stray, mode, stale>>
        BY <3>9 DEF Cleanup
      <4> QED BY <4>1, <4>2, <1>a
    <3>10. CASE ServerTimer
      BY <3>10, <1>a DEF ServerTimer, Places, States
    <3> QED
      BY <2>1, <3>1, <3>2, <3>3, <3>4, <3>5, <3>6, <3>7, <3>8, <3>9, <3>10
      DEF ServerStep, Handshake, CreateStreams, Messages
  <2> QED BY <2>7, <2>8, <2>9, <1>0 DEF TypeOK
<1>2. CASE MarkDone
  BY <1>2, <1>0, SessionAssumption
  DEF MarkDone, TypeOK, ServerTypeOK, ChannelTypeOK, ClientTypeOK, States, controlVars, clientVars, channelVars
<1>3. CASE Shutdown
  <2>1. toClient' \in [Clients -> Seq(Tokens)]
    BY <1>3, <1>0, ServerClosesHas DEF Shutdown, ChannelTypeOK
  <2>2. listener' \in {"closed", "open", "shut"} /\ queue' \in Seq(Connections) /\ toServer' = toServer
        /\ setup' = setup /\ faults' = faults /\ stops' = stops /\ stop' = "nudge"
    BY <1>3, <1>0, <1>a DEF Shutdown, ChannelTypeOK
  <2>3. ServerTypeOK' /\ ClientTypeOK'
    BY <1>3, <1>0 DEF Shutdown, ServerTypeOK, ClientTypeOK, serverVars, testVars, controlVars, clientVars
  <2> QED BY <2>1, <2>2, <2>3, <1>0 DEF TypeOK, ChannelTypeOK
<1>4. CASE Nudge
  <2>1. NudgeConnection \in Connections
    BY DEF Connections
  <2>2. queue' \in Seq(Connections)
    BY <1>4, <2>1, <1>a, AppendProperties DEF Nudge
  <2>3. ServerTypeOK' /\ ClientTypeOK'
    BY <1>4, <1>0 DEF Nudge, ServerTypeOK, ClientTypeOK, serverVars, testVars, controlVars, clientVars
  <2>4. ChannelTypeOK'
    BY <1>4, <2>2, <1>0 DEF Nudge, ChannelTypeOK
  <2> QED BY <1>4, <2>3, <2>4, <1>0 DEF TypeOK, Nudge
<1>5. CASE UNCHANGED vars
  BY <1>5, <1>0
  DEF vars, TypeOK, ServerTypeOK, ChannelTypeOK, ClientTypeOK, serverVars, testVars, controlVars,
      clientVars, channelVars
<1>6. ASSUME NEW c \in Clients, ClientMoves(c), UNCHANGED <<serverVars, stop, stops>>,
             faults' \in 0 .. MaxFaults
      PROVE  TypeOK'
  <2>1. ServerTypeOK'
    BY <1>6, <1>0 DEF ServerTypeOK, serverVars, testVars, controlVars
  <2>2. toClient' \in [Clients -> Seq(Tokens)] /\ toServer' \in [Clients -> Seq(Tokens)]
    BY <1>0, <1>6, ClientHears, ClientSpeaks DEF ClientHeard, ClientSpoken
  <2>3. listener' = listener /\ setup' = setup
    BY <1>6
    DEF ClientMoves, ClientStep, Dial, SendCookie, SendParameters, HearCreateStreams, ConnectStream,
        HearTestStart, HearTestRunning, EndOfTest, SendResults, GetResults, HearDisplayResults,
        HearEnd, Fails, Killed, GoesSilent, channelVars
  <2>4. ASSUME ~ConnectStream(c) PROVE queue' \in Seq(Connections) /\ created' = created
    <3>1. CASE Dial(c)
      <4>1. Control(c) \in Connections
        BY StreamsAssumption DEF Connections, Control
      <4> QED BY <3>1, <4>1, <1>a, AppendProperties DEF Dial
    <3>2. CASE ~Dial(c)
      BY <1>6, <1>a, <2>4, <3>2
      DEF ClientMoves, ClientStep, SendCookie, SendParameters, HearCreateStreams,
          HearTestStart, HearTestRunning, EndOfTest, SendResults, GetResults, HearDisplayResults,
          HearEnd, Fails, Killed, GoesSilent, channelVars
    <3> QED BY <3>1, <3>2
  <2>5. ASSUME ConnectStream(c)
        PROVE  queue' \in Seq(Connections) /\ created' \in [Clients -> 0 .. 2 * NumStreams]
    <3>1. created \in [Clients -> 0 .. 2 * NumStreams] /\ created[c] < StreamsFor(setup[c].mode)
      BY <1>0, <2>5 DEF ClientTypeOK, CreationInv, ConnectStream
    <3>2. StreamsFor(setup[c].mode) <= 2 * NumStreams /\ StreamsFor(setup[c].mode) \in Nat
      BY StreamsAssumption DEF StreamsFor
    <3>3. created[c] + 1 \in 0 .. 2 * NumStreams
      BY <3>1, <3>2, StreamsAssumption
    <3>4. created' = [created EXCEPT ![c] = created[c] + 1] /\ queue' = Append(queue, Stream(c, created'[c]))
      BY <2>5 DEF ConnectStream
    <3>5. Stream(c, created'[c]) \in Connections
      BY <3>1, <3>3, <3>4 DEF Connections, Stream
    <3> QED BY <3>1, <3>3, <3>4, <3>5, <1>a, AppendProperties
  <2>6. created' \in [Clients -> 0 .. 2 * NumStreams] /\ queue' \in Seq(Connections)
    BY <2>4, <2>5, <1>0 DEF ClientTypeOK
  <2>7. cpc' \in [Clients -> {"idle", "dialled", "select", "creating", "results"} \cup Ended]
        /\ cthreads' \in [Clients -> BOOLEAN]
    BY <1>6, <1>0
    DEF ClientMoves, ClientStep, Dial, SendCookie, SendParameters, HearCreateStreams, ConnectStream,
        HearTestStart, HearTestRunning, EndOfTest, SendResults, GetResults, HearDisplayResults,
        HearEnd, Fails, CleanupAndFail, Killed, GoesSilent, Goto, Ended, ClientTypeOK
  <2>8. cstate' \in [Clients -> States]
    BY <1>6, <1>0
    DEF ClientMoves, ClientStep, Dial, SendCookie, SendParameters, HearCreateStreams, ConnectStream,
        HearTestStart, HearTestRunning, EndOfTest, SendResults, GetResults, HearDisplayResults,
        HearEnd, Fails, CleanupAndFail, Killed, GoesSilent, Becomes, States, ClientTypeOK
  <2>9. ChannelTypeOK' /\ ClientTypeOK'
    BY <2>2, <2>3, <2>6, <2>7, <2>8, <1>0 DEF ChannelTypeOK, ClientTypeOK
  <2> QED BY <1>6, <2>1, <2>9, <1>0 DEF TypeOK
<1> QED BY <1>0, <1>1, <1>2, <1>3, <1>4, <1>5, <1>6, NextCases

----------------------------------------------------------------------------
(* One client is served.                                                   *)

\* Every step keeps PlaceInv.
LEMMA PlaceStep ==
    ASSUME IInv, [Next]_vars
    PROVE  PlaceInv'
<1>0. TypeOK /\ PlaceInv /\ pc \in Places /\ ctrl_sck \in Clients \cup {None} /\ state \in States
  BY DEF IInv, TypeOK, ServerTypeOK
<1>a. ASSUME UNCHANGED serverVars PROVE PlaceInv'
  BY <1>0, <1>a DEF PlaceInv, serverVars, testVars, controlVars
<1>1. CASE ServerMoves
  <2>1. ServerStep
    BY <1>1 DEF ServerMoves
  <2> USE DEF PlaceInv, Before, Talking, Places, States
  <2>2. CASE Listen \/ ListenFails \/ Arm \/ LoopTest \/ BadDescriptor \/ AcceptShut \/ HandshakeFails
    BY <2>2, <1>0
    DEF Listen, ListenFails, Arm, LoopTest, BadDescriptor, AcceptShut, HandshakeFails, testVars,
        controlVars, ServesListener
  <2>3. CASE AcceptClient
    <3>1. Head(queue) \in Connections /\ Head(queue) # NudgeConnection
      BY <2>3, <1>0, HeadTyped DEF AcceptClient, Accepts, ServesListener, ListenerReadable
    <3>2. Head(queue)[1] \in Clients
      BY <3>1, ConnectionsTyped
    <3> QED BY <2>3, <3>2, <1>0, ClientsAssumption DEF AcceptClient, Accepts, ServesListener, testVars
  <2>4. CASE AcceptNudge
    BY <2>4, <1>0 DEF AcceptNudge, Accepts, ServesListener, testVars
  <2>5. CASE AcceptDenied
    BY <2>5, <1>0 DEF AcceptDenied, Accepts, ServesListener, testVars, controlVars
  <2>6. CASE GetCookie \/ GetParameters \/ CloseListener
    BY <2>6, <1>0 DEF GetCookie, GetParameters, CloseListener, testVars, controlVars
  <2>7. CASE Relisten \/ AskForStreams \/ ProtocolListenFails
    BY <2>7, <1>0 DEF Relisten, AskForStreams, ProtocolListenFails, testVars, controlVars
  <2>8. CASE ReadDone \/ ReadMessage \/ ReadNonsense
    BY <2>8, <1>0
    DEF ReadDone, ReadMessage, ReadNonsense, ServesControl, ControlReadable, testVars, controlVars
  <2>9. CASE EndTest \/ ExchangeResults \/ ResultsFail \/ ClientTerminated \/ Overtaken
    BY <2>9, <1>0
    DEF EndTest, ExchangeResults, ResultsFail, ClientTerminated, Overtaken, testVars, controlVars
  <2>10. CASE AcceptStream
    <3>1. Head(queue) \in Connections /\ Head(queue)[1] = ctrl_sck /\ Head(queue)[2] > 0
      BY <2>10, <1>0, HeadTyped DEF AcceptStream, ServesStream, ServesListener, ListenerReadable
    <3>2. ctrl_sck # None
      BY <3>1, ConnectionsTyped, ClientsAssumption
    <3>3. pc = "select" /\ ~dead /\ state' = state /\ dead' = dead /\ ctrl_sck' = ctrl_sck
          /\ pc' \in {"top", "renew", "start"}
      BY <2>10 DEF AcceptStream, ServesStream, ServesListener, controlVars
    <3> QED BY <3>2, <3>3, <1>0
  <2>11. CASE AcceptStranger \/ StreamFails
    BY <2>11, <1>0 DEF AcceptStranger, StreamFails, ServesStream, ServesListener, testVars, controlVars
  <2>12. CASE RenewListener \/ ReopenListener \/ ReopenFails \/ StartTest
    BY <2>12, <1>0 DEF RenewListener, ReopenListener, ReopenFails, StartTest, testVars, controlVars
  <2>13. CASE RunTest
    BY <2>13, <1>0 DEF RunTest, controlVars
  <2>17. CASE StartFails
    BY <2>17, <1>0 DEF StartFails, controlVars
  <2>14. CASE Cleanup
    BY <2>14, <1>0 DEF Cleanup
  <2>15. CASE ServerTimer
    BY <2>15, <1>0 DEF ServerTimer, Idle
  <2>16. CASE RcvTimeout \/ ConnectionBreaks
    BY <2>16, <1>0 DEF RcvTimeout, ConnectionBreaks, Idle, ServesControl, testVars, controlVars
  <2> QED
    BY <2>1, <2>2, <2>3, <2>4, <2>5, <2>6, <2>7, <2>8, <2>9, <2>10, <2>11, <2>12, <2>13, <2>14,
       <2>15, <2>16, <2>17
    DEF ServerStep, Handshake, Messages, CreateStreams
<1>2. CASE MarkDone
  BY <1>2, <1>0 DEF MarkDone, PlaceInv, controlVars
<1>3. CASE Shutdown \/ Nudge
  BY <1>3, <1>a DEF Shutdown, Nudge
<1>4. CASE UNCHANGED vars
  BY <1>4, <1>a DEF vars
<1> QED BY <1>0, <1>a, <1>1, <1>2, <1>3, <1>4, NextCases

\* A client the server says nothing to, but refusals, stays untouched.
LEMMA OthersUntouched ==
    ASSUME TypeOK, Spoken, Heard, UNCHANGED clientVars,
           NEW c \in Clients, Untouched(c), \A x : ~Says(c, x)
    PROVE  Untouched(c)'
<1>1. \A x \in Tokens : Has(toClient'[c], x) => x \in {"ACCESS_DENIED", "SERVER_ERROR", "FIN"}
  BY DEF Spoken, Untouched, Refusals
<1>2. \A x \in Tokens : Has(toServer'[c], x) => x \in {"COOKIE", "CLIENT_TERMINATE", "FIN"}
  BY DEF Heard, Untouched
<1> QED BY <1>1, <1>2 DEF Untouched, clientVars

\* An untouched client stays so by its own steps and those of others.
LEMMA ClientUntouched ==
    ASSUME TypeOK, NEW c \in Clients, NEW d \in Clients, ClientMoves(c), Untouched(d)
    PROVE  Untouched(d)'
<1>0. /\ toClient \in [Clients -> Seq(Tokens)]
      /\ cpc \in [Clients -> {"idle", "dialled", "select", "creating", "results"} \cup Ended]
      /\ cstate \in [Clients -> States] /\ cthreads \in [Clients -> BOOLEAN]
      /\ created \in [Clients -> 0 .. 2 * NumStreams]
  BY DEF TypeOK, ChannelTypeOK, ClientTypeOK
<1>1. ClientHeard(c) /\ ClientSpoken(c)
  BY ClientHears, ClientSpeaks
<1>2. CASE d # c
  <2>1. toClient'[d] = toClient[d] /\ toServer'[d] = toServer[d]
    BY <1>1, <1>2 DEF ClientHeard, ClientSpoken
  <2>2. cstate'[d] = cstate[d] /\ cpc'[d] = cpc[d] /\ cthreads'[d] = cthreads[d] /\ created'[d] = created[d]
    BY <1>0, <1>2
    DEF ClientMoves, ClientStep, Dial, SendCookie, SendParameters, HearCreateStreams, ConnectStream,
        HearTestStart, HearTestRunning, EndOfTest, SendResults, GetResults, HearDisplayResults,
        HearEnd, Fails, CleanupAndFail, Killed, GoesSilent, Goto, Becomes
  <2> QED BY <2>1, <2>2 DEF Untouched
<1>3. CASE d = c
  <2>1. ASSUME NEW x \in Tokens, Hears(c, x) PROVE x \in {"ACCESS_DENIED", "SERVER_ERROR", "FIN"}
    <3>1. Has(toClient[c], x)
      BY <2>1, <1>0, TailHas DEF Hears, NextIs
    <3> QED BY <3>1, <1>3 DEF Untouched
  <2>2. {"PARAM_EXCHANGE", "CREATE_STREAMS", "TEST_START", "TEST_RUNNING", "EXCHANGE_RESULTS", "DISPLAY_RESULTS"}
          \subseteq Tokens /\ Json \subseteq Tokens
    BY DEF Tokens, States
  <2>3. /\ ~SendParameters(c) /\ ~HearCreateStreams(c) /\ ~ConnectStream(c) /\ ~HearTestStart(c)
        /\ ~HearTestRunning(c) /\ ~EndOfTest(c) /\ ~SendResults(c) /\ ~GetResults(c)
        /\ ~HearDisplayResults(c) /\ ~Fails(c)
    BY <2>1, <2>2, <1>3
    DEF SendParameters, HearCreateStreams, ConnectStream, HearTestStart, HearTestRunning, EndOfTest,
        SendResults, GetResults, HearDisplayResults, Fails, Untouched
  <2>4. CASE HearEnd(c)
    <3>1. Head(toClient[c]) \in {"ACCESS_DENIED", "SERVER_ERROR", "FIN"}
      <4>1. Hears(c, Head(toClient[c])) /\ Head(toClient[c]) \in Tokens
        BY <2>4, <2>2, <1>0, TailHas DEF HearEnd, Hears, NextIs
      <4> QED BY <4>1, <2>1
    <3>2. cstate'[c] \in Early /\ cpc'[c] = "failed" /\ ~cthreads'[c] /\ created' = created
      BY <2>4, <3>1, <1>0, <1>3 DEF HearEnd, CleanupAndFail, Goto, Becomes, Early, Untouched, Json
    <3>3. \A x \in Tokens : Has(toServer'[c], x) => x \in {"COOKIE", "CLIENT_TERMINATE", "FIN"}
      BY <3>1, <3>2, <1>1, <1>3 DEF ClientSpoken, ClientSays, Answers, Hears, NextIs, Untouched
    <3>4. \A x \in Tokens : Has(toClient'[c], x) => x \in {"ACCESS_DENIED", "SERVER_ERROR", "FIN"}
      BY <1>1, <1>3 DEF ClientHeard, Untouched
    <3> QED BY <3>2, <3>3, <3>4, <1>3 DEF Untouched, Early
  <2>5. CASE SendCookie(c) \/ Dial(c) \/ Killed(c) \/ GoesSilent(c)
    <3>1. /\ cstate' = cstate /\ created' = created
          /\ cpc'[c] \notin {"creating", "results"} /\ ~cthreads'[c]
      BY <2>5, <1>0, <1>3 DEF SendCookie, Dial, Killed, GoesSilent, Goto, Untouched
    <3>2. \A x \in Tokens : Has(toServer'[c], x) => x \in {"COOKIE", "CLIENT_TERMINATE", "FIN"}
      <4>1. ~Hears(c, "PARAM_EXCHANGE") /\ ~Hears(c, "EXCHANGE_RESULTS")
        BY <2>1, <2>2
      <4> QED BY <4>1, <3>1, <1>1, <1>3 DEF ClientSpoken, ClientSays, Answers, Untouched, Early
    <3>3. \A x \in Tokens : Has(toClient'[c], x) => x \in {"ACCESS_DENIED", "SERVER_ERROR", "FIN"}
      BY <1>1, <1>3 DEF ClientHeard, Untouched
    <3> QED BY <3>1, <3>2, <3>3, <1>3 DEF Untouched
  <2> QED BY <2>3, <2>4, <2>5 DEF ClientMoves, ClientStep
<1> QED BY <1>2, <1>3

\* Whom the server serves, before and after its step.
LEMMA ServedClient ==
    ASSUME ServerStep
    PROVE  /\ pc # "out" /\ (dead => dead')
           /\ \/ ctrl_sck' = ctrl_sck /\ pc' # "cookie"
              \/ AcceptClient
              \/ ctrl_sck' = None /\ (dead' \/ pc' = "out")
<1> USE DEF testVars, controlVars
<1>1. CASE Listen \/ ListenFails \/ Arm \/ LoopTest \/ BadDescriptor
  BY <1>1 DEF Listen, ListenFails, Arm, LoopTest, BadDescriptor
<1>2. CASE Handshake
  BY <1>2
  DEF Handshake, AcceptClient, AcceptNudge, AcceptDenied, AcceptShut, GetCookie, GetParameters,
      HandshakeFails, CloseListener, Relisten, AskForStreams, ProtocolListenFails, Accepts, ServesListener
<1>3. CASE Messages
  BY <1>3
  DEF Messages, ReadDone, ReadMessage, ReadNonsense, EndTest, ExchangeResults, ResultsFail,
      ClientTerminated, Overtaken, ServesControl
<1>4. CASE CreateStreams
  <2>1. CASE AcceptStream
    BY <2>1 DEF AcceptStream, ServesStream, ServesListener
  <2>2. CASE AcceptStranger \/ StreamFails
    BY <2>2 DEF AcceptStranger, StreamFails, ServesStream, ServesListener
  <2>3. CASE RenewListener \/ ReopenListener \/ ReopenFails \/ StartTest \/ RunTest
    BY <2>3 DEF RenewListener, ReopenListener, ReopenFails, StartTest, RunTest
  <2>4. CASE StartFails
    BY <2>4 DEF StartFails
  <2> QED BY <1>4, <2>1, <2>2, <2>3, <2>4 DEF CreateStreams
<1>5. CASE Cleanup \/ ServerTimer \/ RcvTimeout \/ ConnectionBreaks
  BY <1>5 DEF Cleanup, ServerTimer, RcvTimeout, ConnectionBreaks, Idle, ServesControl
<1> QED BY <1>1, <1>2, <1>3, <1>4, <1>5 DEF ServerStep

\* Every step keeps OneInv.
LEMMA OneStep ==
    ASSUME IInv, [Next]_vars
    PROVE  OneInv'
<1>0. TypeOK /\ PlaceInv /\ OneInv /\ pc \in Places /\ ctrl_sck \in Clients \cup {None}
  BY DEF IInv, TypeOK, ServerTypeOK
<1>1. PICK s \in Clients \cup {None} :
        /\ \A c \in Clients \ {s} : Untouched(c)
        /\ \/ s = None
           \/ s = ctrl_sck /\ pc # "cookie"
           \/ ctrl_sck = None /\ (dead \/ pc = "out")
        /\ ctrl_sck # None /\ pc # "cookie" => s = ctrl_sck
  BY <1>0, ClientsAssumption DEF OneInv
<1>2. CASE ServerMoves
  <2>1. ServerStep /\ UNCHANGED clientVars /\ Spoken /\ Heard
    BY <1>2, <1>0, ServerSpeaks, ServerHears DEF ServerMoves
  <2>2. ASSUME NEW c \in Clients, c # s, c # ctrl_sck PROVE Untouched(c)'
    BY <2>1, <2>2, <1>0, <1>1, OthersUntouched DEF Says
  <2>3. CASE pc # "cookie"
    <3>1. \A c \in Clients \ {s} : Untouched(c)'
      BY <2>2, <2>3, <1>1, ClientsAssumption
    <3>2. CASE AcceptClient
      <4>1. s = None
        BY <3>2, <1>1 DEF AcceptClient, Accepts, ServesListener
      <4> QED BY <3>1, <4>1 DEF OneInv
    <3>3. CASE ~AcceptClient
      BY <3>1, <3>3, <2>1, <2>3, <1>1, ServedClient DEF OneInv
    <3> QED BY <3>2, <3>3
  <2>4. CASE pc = "cookie"
    <3>1. ctrl_sck # None /\ ctrl_sck \in Clients /\ s = None
      BY <2>4, <1>0, <1>1, ClientsAssumption DEF PlaceInv, Talking
    <3>2. CASE GetCookie
      <4>1. ctrl_sck' = ctrl_sck /\ pc' # "cookie"
        BY <3>2 DEF GetCookie, controlVars
      <4>2. \A c \in Clients \ {ctrl_sck} : Untouched(c)'
        BY <2>2, <3>1, ClientsAssumption
      <4> QED BY <3>1, <4>1, <4>2 DEF OneInv
    <3>3. CASE ~GetCookie
      <4>1. HandshakeFails
        BY <2>1, <2>4, <3>3
        DEF ServerStep, Handshake, Messages, CreateStreams, Listen, ListenFails, Arm, LoopTest,
            BadDescriptor, AcceptClient, AcceptNudge, AcceptDenied, AcceptShut, GetParameters,
            CloseListener, Relisten, AskForStreams, ProtocolListenFails, ReadDone,
            ReadMessage, ReadNonsense, EndTest, ExchangeResults, ResultsFail, ClientTerminated, Overtaken,
            AcceptStream, AcceptStranger, StreamFails, RenewListener, ReopenListener, ReopenFails,
            StartTest, RunTest, StartFails, Cleanup, ServerTimer, RcvTimeout, ConnectionBreaks,
            Accepts, ServesStream, ServesListener, ServesControl, Idle
      <4>2. \A c \in Clients \ {s} : Untouched(c)'
        BY <4>1, <2>1, <1>1 DEF HandshakeFails, Untouched, clientVars, channelVars
      <4> QED BY <4>2, <3>1 DEF OneInv
    <3> QED BY <3>2, <3>3
  <2> QED BY <2>3, <2>4
<1>3. CASE MarkDone
  BY <1>3, <1>1 DEF MarkDone, OneInv, Untouched, clientVars, channelVars, controlVars
<1>4. CASE Shutdown
  <2>1. Spoken /\ Heard /\ UNCHANGED <<clientVars, toServer, serverVars>>
    BY <1>4, <1>0, ClosesSpoken, SilentSpoken, DeafHeard DEF Shutdown, TypeOK
  <2>2. \A c \in Clients : \A x : x \notin Refusals => (Has(toClient'[c], x) => Has(toClient[c], x))
    <3>1. CASE UNCHANGED toClient
      BY <3>1
    <3>2. CASE ServerCloses(Waiting)
      <4>1. toClient \in [Clients -> Seq(Tokens)]
        BY <1>0 DEF TypeOK, ChannelTypeOK
      <4> QED BY <3>2, <4>1, ServerClosesHas DEF Refusals
    <3> QED BY <3>1, <3>2, <1>4 DEF Shutdown
  <2>3. \A c \in Clients : Untouched(c) => Untouched(c)'
    BY <2>1, <2>2 DEF Untouched, clientVars, Refusals
  <2> QED BY <2>1, <2>3, <1>1 DEF OneInv, serverVars, testVars, controlVars
<1>5. CASE Nudge
  BY <1>5, <1>1 DEF Nudge, OneInv, Untouched, clientVars, serverVars, testVars, controlVars
<1>6. CASE UNCHANGED vars
  BY <1>6, <1>1 DEF vars, OneInv, Untouched, clientVars, serverVars, testVars, controlVars, channelVars
<1>7. ASSUME NEW c \in Clients, ClientMoves(c), UNCHANGED serverVars
      PROVE  OneInv'
  BY <1>0, <1>1, <1>7, ClientUntouched DEF OneInv, serverVars, testVars, controlVars
<1> QED BY <1>0, <1>2, <1>3, <1>4, <1>5, <1>6, <1>7, NextCases

----------------------------------------------------------------------------
(* The streams that are asked for, connected and queued.                   *)

\* A server that is free, or waits for a cookie, has touched no client.
LEMMA AllUntouched ==
    ASSUME IInv, pc = "cookie" \/ (ctrl_sck = None /\ ~dead /\ pc # "out")
    PROVE  \A c \in Clients : Untouched(c)
BY ClientsAssumption DEF IInv, OneInv, PlaceInv, Talking

\* How the server gets from the cookie to CREATE_STREAMS.
LEMMA ServerPlaces ==
    ASSUME ServerStep
    PROVE  /\ pc' = "params" => pc = "cookie" /\ ctrl_sck' = ctrl_sck
           /\ pc' \in {"relisten", "listening"} =>
                pc \in {"params", "relisten"} /\ ctrl_sck' = ctrl_sck
           /\ pc' = "cookie" => AcceptClient
<1> USE DEF testVars, controlVars
<1>1. CASE Listen \/ ListenFails \/ Arm \/ LoopTest \/ BadDescriptor
  BY <1>1 DEF Listen, ListenFails, Arm, LoopTest, BadDescriptor
<1>2. CASE Handshake
  BY <1>2
  DEF Handshake, AcceptClient, AcceptNudge, AcceptDenied, AcceptShut, GetCookie, GetParameters,
      HandshakeFails, CloseListener, Relisten, AskForStreams, ProtocolListenFails
<1>3. CASE Messages
  BY <1>3
  DEF Messages, ReadDone, ReadMessage, ReadNonsense, EndTest, ExchangeResults, ResultsFail,
      ClientTerminated, Overtaken
<1>4. CASE AcceptStream
  BY <1>4 DEF AcceptStream
<1>5. CASE AcceptStranger \/ StreamFails \/ RenewListener \/ ReopenListener \/ ReopenFails \/ StartTest \/ RunTest
  BY <1>5 DEF AcceptStranger, StreamFails, RenewListener, ReopenListener, ReopenFails, StartTest, RunTest
<1>6. CASE StartFails
  BY <1>6 DEF StartFails
<1>7. CASE Cleanup \/ ServerTimer \/ RcvTimeout \/ ConnectionBreaks
  BY <1>7 DEF Cleanup, ServerTimer, RcvTimeout, ConnectionBreaks
<1> QED BY <1>1, <1>2, <1>3, <1>4, <1>5, <1>6, <1>7 DEF ServerStep, CreateStreams

\* The embedder's shutdown of the socket adds ends of streams, no token.
LEMMA ShutdownSpoken ==
    ASSUME TypeOK, Shutdown
    PROVE  /\ UNCHANGED <<serverVars, clientVars, toServer, setup>>
           /\ \A c \in Clients : \A x : x # "FIN" =>
                /\ Has(toClient'[c], x) => Has(toClient[c], x)
                /\ Once(toClient[c], x) => Once(toClient'[c], x)
<1>1. toClient \in [Clients -> Seq(Tokens)]
  BY DEF TypeOK, ChannelTypeOK
<1>2. UNCHANGED toClient \/ ServerCloses(Waiting)
  BY DEF Shutdown
<1>3. UNCHANGED <<serverVars, clientVars, toServer, setup>>
  BY DEF Shutdown
<1> QED BY <1>1, <1>2, <1>3, ServerClosesHas

\* Every step keeps CreationInv.
LEMMA CreationStep ==
    ASSUME IInv, [Next]_vars
    PROVE  CreationInv'
<1>0. /\ TypeOK /\ PlaceInv /\ CreationInv /\ setup' = setup
      /\ cpc \in [Clients -> {"idle", "dialled", "select", "creating", "results"} \cup Ended]
      /\ created \in [Clients -> 0 .. 2 * NumStreams]
      /\ ctrl_sck \in Clients \cup {None} /\ "CREATE_STREAMS" \in Tokens
  BY SetupStays DEF IInv, TypeOK, ServerTypeOK, ClientTypeOK, Tokens, States
<1>1. CASE ServerMoves
  <2>1. ServerStep /\ UNCHANGED clientVars /\ Spoken
    BY <1>1, <1>0, ServerSpeaks DEF ServerMoves
  <2>2. ASSUME NEW c \in Clients
        PROVE  /\ Has(toClient'[c], "CREATE_STREAMS")
                    => Has(toClient[c], "CREATE_STREAMS") \/ (c = ctrl_sck /\ pc = "listening")
               /\ Once(toClient'[c], "CREATE_STREAMS")
    BY <2>1, <1>0 DEF Spoken, Says, Script, Refusals, CreationInv
  <2>3. ASSUME NEW c \in Clients, c = ctrl_sck', pc' \in {"params", "relisten", "listening"}
        PROVE  /\ created[c] = 0 /\ cpc[c] # "creating" /\ ~Has(toClient[c], "CREATE_STREAMS")
               /\ c = ctrl_sck /\ pc # "listening"
    <3>1. CASE pc = "cookie"
      <4>1. Untouched(c)
        BY <3>1, AllUntouched
      <4>2. c = ctrl_sck
        BY <2>1, <2>3, <3>1, ServerPlaces
      <4> QED BY <3>1, <4>1, <4>2, <1>0 DEF Untouched
    <3>2. CASE pc # "cookie"
      BY <2>1, <2>3, <3>2, <1>0, ServerPlaces DEF CreationInv
    <3> QED BY <3>1, <3>2
  <2>4. created' = created /\ cpc' = cpc
    BY <2>1 DEF clientVars
  <2> QED BY <2>2, <2>3, <2>4, <1>0 DEF CreationInv
<1>2. CASE MarkDone
  BY <1>2, <1>0 DEF MarkDone, CreationInv, clientVars, channelVars, controlVars
<1>3. CASE Shutdown
  <2>1. /\ UNCHANGED <<serverVars, clientVars>>
        /\ \A c \in Clients : /\ Has(toClient'[c], "CREATE_STREAMS") => Has(toClient[c], "CREATE_STREAMS")
                              /\ Once(toClient[c], "CREATE_STREAMS") => Once(toClient'[c], "CREATE_STREAMS")
    BY <1>3, <1>0, ShutdownSpoken
  <2> QED BY <2>1, <1>0 DEF CreationInv, clientVars, serverVars, testVars, controlVars
<1>4. CASE Nudge
  BY <1>4, <1>0 DEF Nudge, CreationInv, clientVars, serverVars, testVars, controlVars
<1>5. CASE UNCHANGED vars
  BY <1>5, <1>0 DEF vars, CreationInv, clientVars, serverVars, testVars, controlVars, channelVars
<1>6. ASSUME NEW c \in Clients, ClientMoves(c), UNCHANGED serverVars
      PROVE  CreationInv'
  <2>0. ClientHeard(c) /\ pc' = pc /\ ctrl_sck' = ctrl_sck
    BY <1>6, <1>0, ClientHears DEF serverVars, controlVars
  <2>1. \A d \in Clients :
          /\ Has(toClient'[d], "CREATE_STREAMS") => Has(toClient[d], "CREATE_STREAMS")
          /\ Once(toClient[d], "CREATE_STREAMS") => Once(toClient'[d], "CREATE_STREAMS")
    BY <2>0 DEF ClientHeard
  <2>2. CASE HearCreateStreams(c)
    <3>1. Hears(c, "CREATE_STREAMS") /\ ClientReads(c)
      BY <2>2 DEF HearCreateStreams
    <3>2. Has(toClient[c], "CREATE_STREAMS") /\ ~Has(toClient'[c], "CREATE_STREAMS")
      <4>1. toClient \in [Clients -> Seq(Tokens)] /\ toClient[c] # <<>> /\ Head(toClient[c]) = "CREATE_STREAMS"
        BY <3>1, <1>0 DEF TypeOK, ChannelTypeOK, Hears, NextIs
      <4> QED BY <4>1, <3>1, <1>0, ClientReadsHas DEF Shorter, CreationInv
    <3>3. cpc' = [cpc EXCEPT ![c] = "creating"] /\ created' = created
      BY <2>2 DEF HearCreateStreams, Goto
    <3>4. created[c] = 0 /\ 0 < StreamsFor(setup[c].mode)
      BY <3>2, <1>0, StreamsAssumption DEF CreationInv, StreamsFor
    <3> QED BY <2>0, <2>1, <3>2, <3>3, <3>4, <1>0 DEF CreationInv
  <2>3. CASE ConnectStream(c)
    <3>1. /\ created' = [created EXCEPT ![c] = created[c] + 1]
          /\ cpc' = [cpc EXCEPT ![c] = IF created'[c] = StreamsFor(setup[c].mode) THEN "select" ELSE "creating"]
          /\ cpc[c] = "creating"
      BY <2>3 DEF ConnectStream, Goto
    <3>2. created[c] \in Nat /\ created[c] < StreamsFor(setup[c].mode) /\ StreamsFor(setup[c].mode) \in Nat
      BY <3>1, <1>0, StreamsAssumption DEF CreationInv, StreamsFor
    <3>3. created'[c] = created[c] + 1 /\ created'[c] <= StreamsFor(setup[c].mode)
      BY <3>1, <3>2, <1>0
    <3>4. cpc'[c] = "creating" => created'[c] < StreamsFor(setup[c].mode)
      BY <3>1, <3>2, <3>3, <1>0
    <3>5. ~Has(toClient[c], "CREATE_STREAMS")
          /\ ~(c = ctrl_sck /\ pc \in {"params", "relisten", "listening"})
      BY <3>1, <1>0 DEF CreationInv
    <3> QED BY <2>0, <2>1, <3>1, <3>3, <3>4, <3>5, <1>0 DEF CreationInv
  <2>4. CASE ~HearCreateStreams(c) /\ ~ConnectStream(c)
    <3>1. created' = created
      BY <1>6, <2>4
      DEF ClientMoves, ClientStep, Dial, SendCookie, SendParameters,
          HearTestStart, HearTestRunning, EndOfTest, SendResults, GetResults, HearDisplayResults,
          HearEnd, Fails, Killed, GoesSilent
    <3>2. \A d \in Clients : cpc'[d] = "creating" => cpc[d] = "creating"
      BY <1>6, <2>4, <1>0
      DEF ClientMoves, ClientStep, Dial, SendCookie, SendParameters,
          HearTestStart, HearTestRunning, EndOfTest, SendResults, GetResults, HearDisplayResults,
          HearEnd, Fails, CleanupAndFail, Killed, GoesSilent, Goto
    <3> QED BY <2>0, <2>1, <3>1, <3>2, <1>0 DEF CreationInv
  <2> QED BY <2>2, <2>3, <2>4
<1> QED BY <1>0, <1>1, <1>2, <1>3, <1>4, <1>5, <1>6, NextCases

\* A new connection at the end of the backlog keeps it in order.
LEMMA AppendQueue ==
    ASSUME TypeOK, QueueInv, NEW k \in Connections, queue' = Append(queue, k),
           \A d \in Clients : created[d] <= created'[d],
           created' \in [Clients -> 0 .. 2 * NumStreams],
           k[2] > 0 => created[k[1]] < k[2] /\ k[2] <= created'[k[1]]
    PROVE  QueueInv'
<1>1. /\ queue \in Seq(Connections) /\ created \in [Clients -> 0 .. 2 * NumStreams]
      /\ Len(queue) \in Nat /\ DOMAIN queue = 1 .. Len(queue)
  BY LenProperties DEF TypeOK, ChannelTypeOK, ClientTypeOK
<1>2. /\ queue' \in Seq(Connections) /\ DOMAIN queue' = 1 .. Len(queue) + 1
      /\ queue'[Len(queue) + 1] = k
      /\ \A i \in 1 .. Len(queue) : queue'[i] = queue[i]
  BY <1>1, AppendProperties, LenProperties
<1>3. \A i \in 1 .. Len(queue) : queue[i] \in Connections
  BY <1>1, ElementOfSeq
<1>4. \A j \in Connections : j[2] \in 0 .. 2 * NumStreams /\ (j[2] > 0 => j[1] \in Clients)
  BY ConnectionsTyped
<1>5. ASSUME NEW p \in 1 .. Len(queue) + 1, queue'[p][2] > 0
      PROVE  queue'[p][2] <= created'[queue'[p][1]]
  <2>1. CASE p = Len(queue) + 1
    BY <1>2, <1>5, <2>1
  <2>2. CASE p \in 1 .. Len(queue)
    <3>1. queue[p][2] <= created[queue[p][1]] /\ queue[p][1] \in Clients /\ queue[p][2] \in Nat
      BY <1>1, <1>2, <1>3, <1>4, <1>5, <2>2, StreamsAssumption DEF QueueInv
    <3>2. created[queue[p][1]] \in Nat /\ created'[queue[p][1]] \in Nat
      BY <3>1, <1>1, StreamsAssumption
    <3> QED BY <3>1, <3>2, <1>2, <2>2
  <2> QED BY <2>1, <2>2, <1>1
<1>6. ASSUME NEW p \in 1 .. Len(queue) + 1, queue'[p][2] > 0,
             NEW q \in 1 .. Len(queue) + 1, p < q, queue'[q][1] = queue'[p][1], queue'[q][2] > 0
      PROVE  queue'[p][2] < queue'[q][2]
  <2>1. p \in 1 .. Len(queue)
    BY <1>6, <1>1
  <2>2. CASE q \in 1 .. Len(queue)
    BY <1>1, <1>2, <1>6, <2>1, <2>2 DEF QueueInv
  <2>3. CASE q = Len(queue) + 1
    <3>1. queue[p][2] <= created[queue[p][1]] /\ queue[p][1] \in Clients /\ queue[p][2] \in Nat
      <4>1. queue'[p] = queue[p] /\ queue[p][2] > 0 /\ queue[p] \in Connections
        BY <1>2, <1>3, <1>6, <2>1
      <4>2. queue[p][2] <= created[queue[p][1]]
        BY <4>1, <2>1, <1>1 DEF QueueInv
      <4> QED BY <4>1, <4>2, <1>4, StreamsAssumption
    <3>2. created[k[1]] < k[2] /\ k[1] = queue[p][1] /\ k[2] \in Nat
      BY <1>2, <1>4, <1>6, <2>1, <2>3, StreamsAssumption
    <3>3. created[queue[p][1]] \in Nat
      BY <3>1, <1>1, StreamsAssumption
    <3> QED BY <3>1, <3>2, <3>3, <1>2, <2>1, <2>3
  <2> QED BY <2>2, <2>3, <1>1
<1> QED BY <1>2, <1>5, <1>6 DEF QueueInv

\* Every step keeps QueueInv.
LEMMA QueueStep ==
    ASSUME IInv, [Next]_vars
    PROVE  QueueInv'
<1>0. /\ TypeOK /\ QueueInv /\ CreationInv
      /\ created \in [Clients -> 0 .. 2 * NumStreams]
  BY DEF IInv, TypeOK, ClientTypeOK
<1>a. ASSUME created' = created, queue' = queue PROVE QueueInv'
  BY <1>0, <1>a DEF QueueInv
<1>b. ASSUME queue' = <<>> PROVE QueueInv'
  BY <1>b DEF QueueInv
<1>1. CASE ServerMoves
  <2>1. ServerStep /\ created' = created
    BY <1>1 DEF ServerMoves, clientVars
  <2>2. CASE queue # <<>> /\ queue' = Tail(queue)
    <3>1. /\ Len(queue) \in Nat \ {0}
          /\ DOMAIN queue = 1 .. Len(queue) /\ DOMAIN Tail(queue) = 1 .. Len(queue) - 1
          /\ \A i \in 1 .. Len(queue) - 1 : i + 1 \in 1 .. Len(queue) /\ Tail(queue)[i] = queue[i + 1]
      BY <2>2, <1>0, HeadTyped
    <3>2. ASSUME NEW p \in 1 .. Len(queue) - 1, NEW q \in 1 .. Len(queue) - 1, p < q
          PROVE  p + 1 < q + 1
      BY <3>2
    <3> QED BY <2>1, <2>2, <3>1, <3>2, <1>0 DEF QueueInv
  <2> QED BY <2>1, <2>2, <1>a, <1>b, ServerQueue
<1>2. CASE MarkDone \/ UNCHANGED vars
  BY <1>2, <1>a DEF MarkDone, vars, clientVars, channelVars
<1>3. CASE Shutdown
  BY <1>3, <1>a, <1>b DEF Shutdown, clientVars
<1>4. CASE Nudge
  <2>1. NudgeConnection \in Connections /\ NudgeConnection[2] = 0
    BY DEF Connections, NudgeConnection
  <2>2. created' = created
    BY <1>4 DEF Nudge, clientVars
  <2>3. \A d \in Clients : created[d] <= created'[d]
    BY <2>2, <1>0, StreamsAssumption
  <2>4. CASE queue' = Append(queue, NudgeConnection)
    BY <2>1, <2>2, <2>3, <2>4, <1>0, AppendQueue
  <2> QED BY <2>2, <2>4, <1>4, <1>a DEF Nudge
<1>5. ASSUME NEW c \in Clients, ClientMoves(c), UNCHANGED serverVars
      PROVE  QueueInv'
  <2>1. CASE Dial(c)
    <3>1. Control(c) \in Connections /\ Control(c)[2] = 0
      BY StreamsAssumption DEF Connections, Control
    <3>2. created' = created
      BY <2>1 DEF Dial
    <3>3. \A d \in Clients : created[d] <= created'[d]
      BY <3>2, <1>0, StreamsAssumption
    <3>4. CASE queue' = Append(queue, Control(c))
      BY <3>1, <3>2, <3>3, <3>4, <1>0, AppendQueue
    <3> QED BY <3>2, <3>4, <2>1, <1>a DEF Dial
  <2>2. CASE ConnectStream(c)
    <3>1. /\ created' = [created EXCEPT ![c] = created[c] + 1] /\ cpc[c] = "creating"
          /\ queue' = Append(queue, Stream(c, created'[c]))
      BY <2>2 DEF ConnectStream
    <3>2. created[c] \in Nat /\ created[c] < StreamsFor(setup[c].mode)
          /\ StreamsFor(setup[c].mode) \in Nat /\ StreamsFor(setup[c].mode) <= 2 * NumStreams
      BY <3>1, <1>0, StreamsAssumption DEF CreationInv, StreamsFor
    <3>3. created'[c] = created[c] + 1 /\ created[c] + 1 \in 0 .. 2 * NumStreams
      BY <3>1, <3>2, <1>0, StreamsAssumption
    <3>4. created' \in [Clients -> 0 .. 2 * NumStreams]
      BY <3>1, <3>3, <1>0
    <3>5. \A d \in Clients : created[d] <= created'[d]
      BY <3>1, <3>2, <1>0, StreamsAssumption
    <3>6. /\ Stream(c, created'[c]) \in Connections
          /\ Stream(c, created'[c])[1] = c /\ Stream(c, created'[c])[2] = created[c] + 1
      BY <3>3 DEF Connections, Stream
    <3>7. created[c] < created[c] + 1
      BY <3>2
    <3> QED BY <3>1, <3>2, <3>3, <3>4, <3>5, <3>6, <3>7, <1>0, AppendQueue
  <2>3. CASE ~Dial(c) /\ ~ConnectStream(c)
    BY <1>5, <2>3, <1>a
    DEF ClientMoves, ClientStep, SendCookie, SendParameters, HearCreateStreams,
        HearTestStart, HearTestRunning, EndOfTest, SendResults, GetResults, HearDisplayResults,
        HearEnd, Fails, Killed, GoesSilent, channelVars
  <2> QED BY <2>1, <2>2, <2>3
<1> QED BY <1>0, <1>1, <1>2, <1>3, <1>4, <1>5, NextCases

----------------------------------------------------------------------------
(* The streams that are accepted.                                          *)

\* What is in a stream with one token more.
LEMMA AppendHas ==
    ASSUME NEW S, NEW s \in Seq(S), NEW e \in S
    PROVE  \A x : Has(Append(s, e), x) <=> Has(s, x) \/ x = e
<1>1. Append(s, e) = s \o <<e>>
  BY AppendIsConcat
<1>2. <<e>> \in Seq(S) /\ \A x : Has(<<e>>, x) <=> x = e
  BY OneTokenHas
<1>3. \A x : Has(s \o <<e>>, x) <=> Has(s, x) \/ Has(<<e>>, x)
  BY <1>2, ConcatHas
<1> TAKE x
<1>4. Has(s \o <<e>>, x) <=> Has(s, x) \/ x = e
  BY <1>2, <1>3
<1> QED BY ONLY <1>1, <1>4

\* The next stream to be accepted has the next number (iperf_run_server).
LEMMA NextStream ==
    ASSUME IInv, AcceptStream
    PROVE  /\ ctrl_sck \in Clients /\ ctrl_sck # None
           /\ Len(streams) \in Nat
           /\ streams' \in Seq(Connections) /\ Len(streams') = Len(streams) + 1
           /\ \A i \in DOMAIN streams' : streams'[i] = Stream(ctrl_sck, i)
           /\ Len(streams) < created[ctrl_sck]
           /\ created[ctrl_sck] <= StreamsFor(setup[ctrl_sck].mode)
           /\ Head(queue) = Stream(ctrl_sck, Len(streams) + 1)
<1>0. /\ TypeOK /\ PlaceInv /\ CreationInv /\ QueueInv /\ StreamInv
      /\ streams \in Seq(Connections) /\ queue \in Seq(Connections)
      /\ created \in [Clients -> 0 .. 2 * NumStreams]
  BY DEF IInv, TypeOK, ServerTypeOK, ChannelTypeOK, ClientTypeOK
<1>1. /\ pc = "select" /\ ~dead /\ listener = "open" /\ queue # <<>> /\ state = "CREATE_STREAMS"
      /\ Head(queue)[1] = ctrl_sck /\ Head(queue)[2] > 0
      /\ streams' = Append(streams, Head(queue))
  BY DEF AcceptStream, ServesStream, ServesListener, ListenerReadable
<1>2. Head(queue) \in Connections /\ Head(queue) = queue[1] /\ 1 \in DOMAIN queue
      /\ DOMAIN queue = 1 .. Len(queue)
  BY <1>0, <1>1, HeadTyped
<1>3. /\ ctrl_sck \in Clients /\ ctrl_sck # None /\ Head(queue)[2] \in Nat
      /\ Head(queue) = <<ctrl_sck, Head(queue)[2]>>
  BY <1>1, <1>2, ConnectionsTyped, ClientsAssumption, StreamsAssumption
<1>4. created[ctrl_sck] \in Nat /\ Len(streams) \in Nat
  BY <1>0, <1>3, StreamsAssumption, LenProperties
<1>5. /\ Head(queue)[2] <= created[ctrl_sck] /\ Head(queue)[2] > Len(streams)
  BY <1>0, <1>1, <1>2, <1>3 DEF QueueInv, StreamInv
<1>6. Len(streams) + 1 \in Len(streams) + 1 .. created[ctrl_sck] /\ Len(streams) < created[ctrl_sck]
  BY <1>3, <1>4, <1>5
<1>7. PICK p \in DOMAIN queue : queue[p] = Stream(ctrl_sck, Len(streams) + 1)
  BY <1>0, <1>1, <1>3, <1>6 DEF StreamInv, Has
<1>8. p = 1
  <2>1. SUFFICES ASSUME p # 1 PROVE FALSE
    OBVIOUS
  <2>2. queue[p][1] = queue[1][1] /\ queue[p][2] = Len(streams) + 1
    BY <1>1, <1>2, <1>7 DEF Stream
  <2>3. 1 < p
    BY <2>1, <1>2, <1>0, LenProperties
  <2>4. queue[1][2] < Len(streams) + 1
    <3>1. queue[1][2] > 0 /\ queue[p][2] > 0
      BY <1>1, <1>2, <1>4, <2>2
    <3> QED BY <3>1, <1>0, <1>2, <1>7, <2>2, <2>3 DEF QueueInv
  <2> QED BY <2>4, <1>2, <1>3, <1>4, <1>5
<1>9. Head(queue) = Stream(ctrl_sck, Len(streams) + 1)
  BY <1>2, <1>7, <1>8
<1>10. /\ streams' \in Seq(Connections) /\ Len(streams') = Len(streams) + 1
       /\ DOMAIN streams' = 1 .. Len(streams) + 1 /\ DOMAIN streams = 1 .. Len(streams)
       /\ \A i \in 1 .. Len(streams) : streams'[i] = streams[i]
       /\ streams'[Len(streams) + 1] = Head(queue)
  BY <1>0, <1>1, <1>2, AppendProperties, LenProperties
<1>11. ASSUME NEW i \in DOMAIN streams' PROVE streams'[i] = Stream(ctrl_sck, i)
  <2>1. CASE i = Len(streams) + 1
    BY <2>1, <1>9, <1>10
  <2>2. CASE i \in 1 .. Len(streams)
    BY <2>2, <1>0, <1>3, <1>10 DEF StreamInv
  <2> QED BY <2>1, <2>2, <1>4, <1>10
<1>12. created[ctrl_sck] <= StreamsFor(setup[ctrl_sck].mode)
  BY <1>0, <1>3 DEF CreationInv
<1> QED BY <1>3, <1>4, <1>6, <1>9, <1>10, <1>11, <1>12

\* Every step keeps StreamInv.
LEMMA StreamStep ==
    ASSUME IInv, [Next]_vars
    PROVE  StreamInv'
<1>0. /\ TypeOK /\ PlaceInv /\ CreationInv /\ QueueInv /\ StreamInv /\ RunInv
      /\ streams \in Seq(Connections) /\ queue \in Seq(Connections)
      /\ created \in [Clients -> 0 .. 2 * NumStreams] /\ setup' = setup
      /\ ctrl_sck \in Clients \cup {None} /\ Len(streams) \in Nat /\ pc \in Places
  BY SetupStays, LenProperties DEF IInv, TypeOK, ServerTypeOK, ChannelTypeOK, ClientTypeOK
<1>a. ASSUME UNCHANGED <<ctrl_sck, streams, created>>,
             queue' \in {queue, <<>>} \/ (queue # <<>> /\ queue' = Tail(queue)),
             listener' = "open" /\ state' = "CREATE_STREAMS" /\ pc' # "err" =>
                \/ queue' = queue /\ listener = "open" /\ state = "CREATE_STREAMS" /\ pc # "err"
                \/ created[ctrl_sck] <= Len(streams)
      PROVE  StreamInv'
  <2>1. SUFFICES ASSUME ctrl_sck # None PROVE StreamInv'
    BY <1>a DEF StreamInv
  <2>2. created[ctrl_sck] \in Nat
    BY <1>0, <2>1, StreamsAssumption
  <2>3. ASSUME NEW p \in DOMAIN queue', queue'[p][1] = ctrl_sck, queue'[p][2] > 0
        PROVE  queue'[p][2] > Len(streams)
    <3>1. CASE queue' = queue
      BY <2>1, <2>3, <3>1, <1>0 DEF StreamInv
    <3>2. CASE queue' = <<>>
      BY <2>3, <3>2
    <3>3. CASE queue # <<>> /\ queue' = Tail(queue)
      <4>1. p + 1 \in DOMAIN queue /\ queue'[p] = queue[p + 1]
        BY <2>3, <3>3, <1>0, HeadTyped
      <4> QED BY <2>1, <2>3, <4>1, <1>0 DEF StreamInv
    <3> QED BY <3>1, <3>2, <3>3, <1>a
  <2>4. ASSUME listener' = "open", state' = "CREATE_STREAMS", pc' # "err",
               NEW k \in Len(streams) + 1 .. created[ctrl_sck]
        PROVE  Has(queue', Stream(ctrl_sck, k))
    <3>1. CASE queue' = queue /\ listener = "open" /\ state = "CREATE_STREAMS" /\ pc # "err"
      BY <2>1, <2>4, <3>1, <1>0 DEF StreamInv
    <3>2. CASE created[ctrl_sck] <= Len(streams)
      BY <2>2, <2>4, <3>2, <1>0
    <3> QED BY <2>4, <3>1, <3>2, <1>a
  <2> QED BY <2>1, <2>3, <2>4, <1>a, <1>0 DEF StreamInv
<1>1. CASE ServerMoves
  <2>0. /\ ServerStep /\ created' = created
        /\ queue' \in {queue, <<>>} \/ (queue # <<>> /\ queue' = Tail(queue))
    BY <1>1, ServerQueue DEF ServerMoves, clientVars
  <2>a. ASSUME UNCHANGED <<ctrl_sck, streams, listener, queue>>,
               state' = state \/ state' # "CREATE_STREAMS",
               pc # "err"
        PROVE  StreamInv'
    BY <2>0, <2>a, <1>a
  <2>1. CASE Listen \/ ListenFails \/ Arm \/ LoopTest \/ BadDescriptor
    <3>1. CASE Listen
      <4>1. ctrl_sck' = None
        BY <3>1, <1>0 DEF Listen, controlVars, PlaceInv
      <4> QED BY <4>1 DEF StreamInv
    <3>2. CASE ~Listen
      BY <2>1, <3>2, <2>a DEF ListenFails, Arm, LoopTest, BadDescriptor, channelVars, testVars, controlVars
    <3> QED BY <3>1, <3>2
  <2>2. CASE AcceptClient
    <3>1. /\ pc = "select" /\ ~dead /\ ctrl_sck = None /\ state' # "CREATE_STREAMS"
          /\ streams' = streams /\ queue # <<>> /\ queue' = Tail(queue)
          /\ ctrl_sck' = Head(queue)[1] /\ Head(queue) # NudgeConnection
      BY <2>2 DEF AcceptClient, Accepts, ServesListener, ListenerReadable, testVars
    <3>2. streams' = <<>> /\ Len(streams') = 0
      BY <3>1, <1>0 DEF PlaceInv
    <3>3. ctrl_sck' \in Clients
      BY <3>1, <1>0, HeadTyped, ConnectionsTyped
    <3>4. created'[ctrl_sck'] \in Nat
      BY <3>3, <2>0, <1>0, StreamsAssumption
    <3> QED BY <3>1, <3>2, <3>4 DEF StreamInv
  <2>3. CASE AcceptNudge \/ AcceptDenied
    BY <2>3, <2>0, <1>a DEF AcceptNudge, AcceptDenied, Accepts, testVars, controlVars
  <2>4. CASE AcceptShut \/ GetCookie \/ GetParameters \/ HandshakeFails \/ ProtocolListenFails
    BY <2>4, <2>a
    DEF AcceptShut, ServesListener, GetCookie, GetParameters, HandshakeFails, ProtocolListenFails,
        testVars, controlVars, channelVars
  <2>5. CASE CloseListener \/ RenewListener
    BY <2>5, <2>0, <1>a DEF CloseListener, RenewListener, testVars, controlVars
  <2>6. CASE Relisten
    BY <2>6, <2>0, <1>0, <1>a DEF Relisten, PlaceInv, Before, testVars, controlVars
  <2>7. CASE AskForStreams
    <3>1. ctrl_sck \in Clients /\ created[ctrl_sck] = 0 /\ Len(streams) = 0
      BY <2>7, <1>0 DEF AskForStreams, PlaceInv, Before, Talking, CreationInv
    <3> QED BY <2>7, <3>1, <2>0, <1>a DEF AskForStreams, testVars, controlVars
  <2>8. CASE Messages
    BY <2>8, <2>a
    DEF Messages, ReadDone, ReadMessage, ReadNonsense, EndTest, ExchangeResults, ResultsFail,
        ClientTerminated, Overtaken, ServesControl, testVars, controlVars, channelVars
  <2>9. CASE AcceptStream
    <3>1. /\ ctrl_sck' = ctrl_sck /\ queue # <<>> /\ queue' = Tail(queue) /\ created' = created
          /\ listener = "open" /\ state = "CREATE_STREAMS" /\ pc = "select"
      BY <2>9, <2>0 DEF AcceptStream, ServesStream, ServesListener, ListenerReadable, controlVars
    <3>2. /\ ctrl_sck \in Clients /\ ctrl_sck # None
          /\ Len(streams') = Len(streams) + 1
          /\ \A i \in DOMAIN streams' : streams'[i] = Stream(ctrl_sck, i)
          /\ Len(streams) < created[ctrl_sck]
          /\ Head(queue) = Stream(ctrl_sck, Len(streams) + 1)
      BY <2>9, NextStream
    <3>3. created[ctrl_sck] \in Nat
      BY <3>2, <1>0, StreamsAssumption
    <3>4. /\ Len(queue) \in Nat \ {0} /\ Head(queue) = queue[1]
          /\ DOMAIN queue = 1 .. Len(queue) /\ DOMAIN Tail(queue) = 1 .. Len(queue) - 1
          /\ \A i \in 1 .. Len(queue) - 1 : i + 1 \in 1 .. Len(queue) /\ Tail(queue)[i] = queue[i + 1]
          /\ \A i \in DOMAIN queue : queue[i] \in Connections
      BY <3>1, <1>0, HeadTyped
    <3>5. ASSUME NEW p \in DOMAIN queue', queue'[p][1] = ctrl_sck, queue'[p][2] > 0
          PROVE  queue'[p][2] > Len(streams) + 1
      <4>1. p + 1 \in DOMAIN queue /\ queue'[p] = queue[p + 1] /\ 1 < p + 1 /\ 1 \in DOMAIN queue
        BY <3>1, <3>4, <3>5
      <4>2. queue[1][1] = ctrl_sck /\ queue[1][2] = Len(streams) + 1 /\ queue[1][2] > 0
        BY <3>2, <3>4, <1>0 DEF Stream
      <4>3. queue[1][2] < queue[p + 1][2]
        BY <3>5, <4>1, <4>2, <1>0 DEF QueueInv
      <4>4. queue[p + 1][2] \in Nat
        BY <4>1, <3>4, ConnectionsTyped, StreamsAssumption
      <4> QED BY <4>1, <4>2, <4>3, <4>4, <1>0
    <3>6. ASSUME NEW k \in Len(streams) + 2 .. created[ctrl_sck]
          PROVE  Has(queue', Stream(ctrl_sck, k))
      <4>1. k \in Len(streams) + 1 .. created[ctrl_sck] /\ k # Len(streams) + 1
        BY <3>3, <1>0
      <4>2. Has(queue, Stream(ctrl_sck, k))
        BY <3>1, <3>2, <4>1, <1>0 DEF StreamInv
      <4>3. Head(queue) # Stream(ctrl_sck, k)
        BY <3>2, <4>1 DEF Stream
      <4> QED BY <3>1, <4>2, <4>3, <1>0, TailHas
    <3>7. Len(streams') + 1 = Len(streams) + 2 /\ Len(streams') <= created'[ctrl_sck']
      BY <3>1, <3>2, <3>3, <1>0
    <3> QED BY <3>1, <3>2, <3>5, <3>6, <3>7 DEF StreamInv
  <2>10. CASE AcceptStranger
    <3>1. /\ UNCHANGED <<ctrl_sck, streams, state, listener>> /\ queue # <<>> /\ queue' = Tail(queue)
          /\ Head(queue)[1] # ctrl_sck \/ Head(queue)[2] = 0
          /\ pc = "select"
      BY <2>10
      DEF AcceptStranger, ServesStream, ServesListener, ListenerReadable, testVars, controlVars
    <3>2. SUFFICES ASSUME ctrl_sck # None PROVE StreamInv'
      BY <3>1 DEF StreamInv
    <3>3. ASSUME NEW p \in DOMAIN queue', queue'[p][1] = ctrl_sck, queue'[p][2] > 0
          PROVE  queue'[p][2] > Len(streams)
      <4>1. p + 1 \in DOMAIN queue /\ queue'[p] = queue[p + 1]
        BY <3>1, <3>3, <1>0, HeadTyped
      <4> QED BY <3>2, <3>3, <4>1, <1>0 DEF StreamInv
    <3>4. ASSUME listener' = "open", state' = "CREATE_STREAMS", pc' # "err",
                 NEW k \in Len(streams) + 1 .. created[ctrl_sck]
          PROVE  Has(queue', Stream(ctrl_sck, k))
      <4>1. Has(queue, Stream(ctrl_sck, k))
        BY <3>1, <3>2, <3>4, <1>0 DEF StreamInv
      <4>2. Head(queue) # Stream(ctrl_sck, k)
        BY <3>1, <3>4, <1>0 DEF Stream
      <4> QED BY <3>1, <4>1, <4>2, <1>0, TailHas
    <3> QED BY <3>1, <3>2, <3>3, <3>4, <2>0, <1>0 DEF StreamInv
  <2>11. CASE StreamFails
    BY <2>11, <2>0, <1>a DEF StreamFails, testVars, controlVars
  <2>12. CASE ReopenListener
    <3>1. /\ pc = "reopen" /\ UNCHANGED <<ctrl_sck, streams, queue>>
      BY <2>12 DEF ReopenListener, testVars, controlVars
    <3>2. ctrl_sck \in Clients /\ ctrl_sck # None
      BY <3>1, <1>0 DEF PlaceInv, Talking
    <3>3. Len(streams) = StreamsFor(mode) /\ Len(streams) # 0
      BY <3>1, <3>2, <1>0, StreamsAssumption DEF RunInv, Complete, StreamsFor
    <3>4. mode = setup[ctrl_sck].mode
      BY <3>2, <3>3, <1>0 DEF RunInv
    <3>5. created[ctrl_sck] <= Len(streams)
      BY <3>2, <3>3, <3>4, <1>0 DEF CreationInv
    <3> QED BY <3>1, <3>5, <2>0, <1>a
  <2>13. CASE ReopenFails \/ StartTest \/ RunTest
    BY <2>13, <2>a DEF ReopenFails, StartTest, RunTest, testVars, controlVars, channelVars
  <2>14. CASE StartFails
    BY <2>14, <2>a DEF StartFails, controlVars, channelVars
  <2>15. CASE Cleanup
    BY <2>15 DEF Cleanup, StreamInv
  <2>16. CASE ServerTimer
    <3>1. CASE ctrl_sck' = None
      BY <3>1 DEF StreamInv
    <3>2. CASE ctrl_sck' # None
      BY <2>16, <3>2, <2>a DEF ServerTimer, Idle
    <3> QED BY <3>1, <3>2
  <2>17. CASE RcvTimeout \/ ConnectionBreaks
    BY <2>17, <2>a DEF RcvTimeout, ConnectionBreaks, Idle, ServesControl, testVars, controlVars, channelVars
  <2> QED
    BY <2>0, <2>1, <2>2, <2>3, <2>4, <2>5, <2>6, <2>7, <2>8, <2>9, <2>10, <2>11, <2>12, <2>13, <2>14,
       <2>15, <2>16, <2>17
    DEF ServerStep, Handshake, CreateStreams
<1>2. CASE MarkDone
  BY <1>2, <1>a DEF MarkDone, clientVars, channelVars, controlVars
<1>3. CASE Shutdown
  BY <1>3, <1>a DEF Shutdown, clientVars, serverVars, testVars, controlVars
<1>4. CASE UNCHANGED vars
  BY <1>4, <1>a DEF vars, clientVars, serverVars, testVars, controlVars, channelVars
<1>b. ASSUME NEW k \in Connections, queue' = Append(queue, k),
             UNCHANGED <<ctrl_sck, streams, state, listener, pc>>,
             ctrl_sck # None =>
                \/ created'[ctrl_sck] = created[ctrl_sck] /\ (k[1] # ctrl_sck \/ k[2] = 0)
                \/ created'[ctrl_sck] = created[ctrl_sck] + 1 /\ k = Stream(ctrl_sck, created[ctrl_sck] + 1)
      PROVE  StreamInv'
  <2>1. SUFFICES ASSUME ctrl_sck # None PROVE StreamInv'
    BY <1>b DEF StreamInv
  <2>2. created[ctrl_sck] \in Nat /\ Len(streams) <= created[ctrl_sck]
    BY <1>0, <2>1, StreamsAssumption DEF StreamInv
  <2>3. /\ DOMAIN queue' = 1 .. Len(queue) + 1 /\ DOMAIN queue = 1 .. Len(queue) /\ Len(queue) \in Nat
        /\ queue'[Len(queue) + 1] = k
        /\ \A i \in 1 .. Len(queue) : queue'[i] = queue[i]
    BY <1>0, <1>b, AppendProperties, LenProperties
  <2>4. ASSUME NEW p \in DOMAIN queue', queue'[p][1] = ctrl_sck, queue'[p][2] > 0
        PROVE  queue'[p][2] > Len(streams)
    <3>1. CASE p \in 1 .. Len(queue)
      BY <2>1, <2>3, <2>4, <3>1, <1>0 DEF StreamInv
    <3>2. CASE p = Len(queue) + 1
      <4>1. queue'[p] = k
        BY <3>2, <2>3
      <4>2. k = Stream(ctrl_sck, created[ctrl_sck] + 1)
        BY <4>1, <2>1, <2>4, <1>b
      <4>3. queue'[p][2] = created[ctrl_sck] + 1
        BY <4>1, <4>2 DEF Stream
      <4> QED BY <4>3, <2>2, <1>0
    <3> QED BY <3>1, <3>2, <2>3, <2>4
  <2>5. ASSUME listener' = "open", state' = "CREATE_STREAMS", pc' # "err",
               NEW j \in Len(streams) + 1 .. created'[ctrl_sck]
        PROVE  Has(queue', Stream(ctrl_sck, j))
    <3>1. CASE j \in Len(streams) + 1 .. created[ctrl_sck]
      <4>1. Has(queue, Stream(ctrl_sck, j))
        BY <2>1, <2>5, <3>1, <1>b, <1>0 DEF StreamInv
      <4> QED BY <4>1, <1>0, <1>b, AppendHas
    <3>2. CASE j \notin Len(streams) + 1 .. created[ctrl_sck]
      <4>1. k = Stream(ctrl_sck, created[ctrl_sck] + 1) /\ j = created[ctrl_sck] + 1
        BY <2>1, <2>2, <2>5, <3>2, <1>b, <1>0
      <4> QED BY <4>1, <1>0, <1>b, AppendHas
    <3> QED BY <3>1, <3>2
  <2>6. Len(streams) <= created'[ctrl_sck]
    BY <2>1, <2>2, <1>b, <1>0
  <2> QED BY <2>1, <2>4, <2>5, <2>6, <1>b, <1>0 DEF StreamInv
<1>5. CASE Nudge
  <2>1. NudgeConnection \in Connections /\ NudgeConnection[2] = 0
    BY DEF Connections, NudgeConnection
  <2>2. UNCHANGED <<created, ctrl_sck, streams, state, listener, pc>>
    BY <1>5 DEF Nudge, clientVars, serverVars, testVars, controlVars
  <2>3. CASE queue' = Append(queue, NudgeConnection)
    BY <2>1, <2>2, <2>3, <1>b
  <2> QED BY <2>2, <2>3, <1>5, <1>a DEF Nudge
<1>6. ASSUME NEW c \in Clients, ClientMoves(c), UNCHANGED serverVars
      PROVE  StreamInv'
  <2>0. UNCHANGED <<ctrl_sck, streams, state, pc>>
    BY <1>6 DEF serverVars, testVars, controlVars
  <2>1. CASE Dial(c)
    <3>1. Control(c) \in Connections /\ Control(c)[2] = 0
      BY StreamsAssumption DEF Connections, Control
    <3>2. created' = created /\ listener' = listener
      BY <2>1 DEF Dial
    <3>3. CASE queue' = Append(queue, Control(c))
      BY <2>0, <3>1, <3>2, <3>3, <1>b
    <3> QED BY <2>0, <3>2, <3>3, <2>1, <1>a DEF Dial
  <2>2. CASE ConnectStream(c)
    <3>1. /\ created' = [created EXCEPT ![c] = created[c] + 1] /\ cpc[c] = "creating"
          /\ queue' = Append(queue, Stream(c, created'[c])) /\ listener' = listener
      BY <2>2 DEF ConnectStream
    <3>2. created[c] \in Nat /\ created[c] < StreamsFor(setup[c].mode)
          /\ StreamsFor(setup[c].mode) \in Nat /\ StreamsFor(setup[c].mode) <= 2 * NumStreams
      BY <3>1, <1>0, StreamsAssumption DEF CreationInv, StreamsFor
    <3>3. created'[c] = created[c] + 1 /\ created[c] + 1 \in 0 .. 2 * NumStreams
      BY <3>1, <3>2, <1>0, StreamsAssumption
    <3>4. Stream(c, created'[c]) \in Connections /\ Stream(c, created'[c])[1] = c
      BY <3>3 DEF Connections, Stream
    <3>5. ctrl_sck # None =>
                \/ created'[ctrl_sck] = created[ctrl_sck] /\ Stream(c, created'[c])[1] # ctrl_sck
                \/ created'[ctrl_sck] = created[ctrl_sck] + 1
                   /\ Stream(c, created'[c]) = Stream(ctrl_sck, created[ctrl_sck] + 1)
      BY <3>1, <3>3, <3>4, <1>0
    <3> QED BY <2>0, <3>1, <3>4, <3>5, <1>b
  <2>3. CASE ~Dial(c) /\ ~ConnectStream(c)
    <3>1. UNCHANGED <<queue, created, listener>>
      BY <1>6, <2>3
      DEF ClientMoves, ClientStep, SendCookie, SendParameters, HearCreateStreams,
          HearTestStart, HearTestRunning, EndOfTest, SendResults, GetResults, HearDisplayResults,
          HearEnd, Fails, Killed, GoesSilent, channelVars
    <3> QED BY <2>0, <3>1, <1>a
  <2> QED BY <2>1, <2>2, <2>3
<1> QED BY <1>0, <1>1, <1>2, <1>3, <1>4, <1>5, <1>6, NextCases

----------------------------------------------------------------------------
(* When the test runs.                                                     *)

\* Every step keeps RunInv.
LEMMA RunStep ==
    ASSUME IInv, [Next]_vars
    PROVE  RunInv'
<1>0. /\ TypeOK /\ PlaceInv /\ RunInv /\ setup' = setup
      /\ cthreads \in [Clients -> BOOLEAN]
      /\ ctrl_sck \in Clients \cup {None} /\ pc \in Places /\ "TEST_RUNNING" \in Tokens
  BY SetupStays DEF IInv, TypeOK, ServerTypeOK, ClientTypeOK, Tokens, States
<1>1. CASE ServerMoves
  <2>0. ServerStep /\ cthreads' = cthreads /\ Spoken
    BY <1>1, <1>0, ServerSpeaks DEF ServerMoves, clientVars
  <2>a. ASSUME UNCHANGED <<ctrl_sck, streams, mode>>,
               state' = "CREATE_STREAMS" => state = "CREATE_STREAMS" \/ pc = "listening",
               pc' \in {"relisten", "listening"} => pc = "relisten",
               pc' \in {"renew", "reopen", "start", "running"} => pc \in {"renew", "reopen", "start"}
        PROVE  RunInv'
    <3>1. SUFFICES ASSUME ctrl_sck # None, ctrl_sck \in Clients PROVE RunInv'
      BY <2>a, <1>0 DEF RunInv
    <3>2. Has(toClient'[ctrl_sck], "TEST_RUNNING")
            => Has(toClient[ctrl_sck], "TEST_RUNNING") \/ pc = "running"
      BY <2>0, <3>1 DEF Spoken, Says, Script, Refusals
    <3>3. streams # <<>> \/ state' = "CREATE_STREAMS" \/ pc' \in {"relisten", "listening"}
            => mode = setup[ctrl_sck].mode
      BY <2>a, <3>1, <1>0 DEF RunInv
    <3>4. \/ pc' \in {"renew", "reopen", "start", "running"}
          \/ Has(toClient'[ctrl_sck], "TEST_RUNNING")
          \/ cthreads[ctrl_sck]
          => Complete(streams)
      BY <2>a, <3>1, <3>2, <1>0 DEF RunInv
    <3> QED BY <2>a, <3>3, <3>4, <2>0, <1>0 DEF RunInv, Complete
  <2>1. CASE Listen \/ ListenFails \/ Arm \/ LoopTest \/ BadDescriptor
    BY <2>1, <2>a DEF Listen, ListenFails, Arm, LoopTest, BadDescriptor, testVars, controlVars
  <2>2. CASE AcceptClient
    <3>1. /\ pc = "select" /\ ~dead /\ ctrl_sck = None /\ state' # "CREATE_STREAMS" /\ pc' = "cookie"
          /\ streams' = streams /\ queue # <<>>
          /\ ctrl_sck' = Head(queue)[1] /\ Head(queue) # NudgeConnection /\ toClient' = toClient
      BY <2>2 DEF AcceptClient, Accepts, ServesListener, ListenerReadable, testVars
    <3>2. streams' = <<>>
      BY <3>1, <1>0 DEF PlaceInv
    <3>3. ctrl_sck' \in Clients
      BY <3>1, <1>0, HeadTyped, ConnectionsTyped
    <3>4. Untouched(ctrl_sck')
      BY <3>1, <3>3, AllUntouched
    <3>5. ~cthreads'[ctrl_sck'] /\ ~Has(toClient'[ctrl_sck'], "TEST_RUNNING")
      BY <3>1, <3>4, <2>0, <1>0 DEF Untouched
    <3> QED BY <3>1, <3>2, <3>5 DEF RunInv
  <2>3. CASE AcceptNudge \/ AcceptDenied \/ AcceptShut \/ HandshakeFails \/ ProtocolListenFails
    BY <2>3, <2>a
    DEF AcceptNudge, AcceptDenied, AcceptShut, HandshakeFails, ProtocolListenFails, testVars, controlVars
  <2>4. CASE GetCookie \/ Relisten
    BY <2>4, <2>a DEF GetCookie, Relisten, testVars, controlVars
  <2>5. CASE GetParameters \/ CloseListener
    <3>1. /\ pc = "params" /\ ctrl_sck' = ctrl_sck /\ streams' = streams /\ state' = state
          /\ mode' = setup[ctrl_sck].mode /\ pc' \in {"listening", "relisten"}
      BY <2>5 DEF GetParameters, CloseListener, testVars
    <3>2. ctrl_sck \in Clients /\ ctrl_sck # None /\ streams = <<>> /\ state # "CREATE_STREAMS"
      BY <3>1, <1>0 DEF PlaceInv, Talking, Before
    <3>3. Has(toClient'[ctrl_sck], "TEST_RUNNING") => Has(toClient[ctrl_sck], "TEST_RUNNING")
      BY <2>0, <3>1, <3>2 DEF Spoken, Says, Script, Refusals
    <3>4. Has(toClient[ctrl_sck], "TEST_RUNNING") \/ cthreads[ctrl_sck] => FALSE
      <4>1. SUFFICES ASSUME Complete(streams) PROVE FALSE
        BY <3>2, <1>0 DEF RunInv
      <4> QED BY <4>1, <3>2, <1>0, StreamsAssumption DEF Complete, StreamsFor
    <3> QED BY <3>1, <3>2, <3>3, <3>4, <2>0, <1>0 DEF RunInv
  <2>6. CASE AskForStreams
    BY <2>6, <2>a DEF AskForStreams, testVars, controlVars
  <2>7. CASE Messages
    BY <2>7, <2>a
    DEF Messages, ReadDone, ReadMessage, ReadNonsense, EndTest, ExchangeResults, ResultsFail,
        ClientTerminated, Overtaken, testVars, controlVars
  <2>8. CASE AcceptStream
    <3>1. /\ ctrl_sck' = ctrl_sck /\ mode' = mode /\ state = "CREATE_STREAMS" /\ toClient' = toClient
          /\ pc' \in {"top", "renew", "start"} /\ (pc' # "top" => Complete(streams'))
      BY <2>8 DEF AcceptStream, ServesStream, controlVars
    <3>2. /\ ctrl_sck \in Clients /\ ctrl_sck # None /\ Len(streams) \in Nat
          /\ Len(streams) < created[ctrl_sck]
          /\ created[ctrl_sck] <= StreamsFor(setup[ctrl_sck].mode)
      BY <2>8, NextStream
    <3>3. mode = setup[ctrl_sck].mode
      BY <3>1, <3>2, <1>0 DEF RunInv
    <3>4. created[ctrl_sck] \in Nat /\ StreamsFor(setup[ctrl_sck].mode) \in Nat
      BY <3>2, <1>0, StreamsAssumption DEF TypeOK, ClientTypeOK, StreamsFor
    <3>5. ~Complete(streams)
      BY <3>2, <3>3, <3>4 DEF Complete
    <3>6. ~Has(toClient[ctrl_sck], "TEST_RUNNING") /\ ~cthreads[ctrl_sck]
      BY <3>2, <3>5, <1>0 DEF RunInv
    <3>7. Complete(streams)' <=> Complete(streams')
      BY <3>1 DEF Complete
    <3> QED BY <3>1, <3>2, <3>3, <3>6, <3>7, <2>0, <1>0 DEF RunInv
  <2>9. CASE AcceptStranger \/ StreamFails
    BY <2>9, <2>a DEF AcceptStranger, StreamFails, testVars, controlVars
  <2>10. CASE RenewListener \/ ReopenListener \/ ReopenFails \/ StartTest \/ RunTest
    BY <2>10, <2>a DEF RenewListener, ReopenListener, ReopenFails, StartTest, RunTest, testVars, controlVars
  <2>11. CASE StartFails
    BY <2>11, <2>a DEF StartFails, controlVars
  <2>12. CASE Cleanup
    BY <2>12 DEF Cleanup, RunInv
  <2>13. CASE ServerTimer
    <3>1. CASE ctrl_sck' = None
      BY <3>1 DEF RunInv
    <3>2. CASE ctrl_sck' # None
      BY <2>13, <3>2, <2>a DEF ServerTimer
    <3> QED BY <3>1, <3>2
  <2>14. CASE RcvTimeout \/ ConnectionBreaks
    BY <2>14, <2>a DEF RcvTimeout, ConnectionBreaks, testVars, controlVars
  <2> QED
    BY <2>0, <2>1, <2>2, <2>3, <2>4, <2>5, <2>6, <2>7, <2>8, <2>9, <2>10, <2>11, <2>12, <2>13, <2>14
    DEF ServerStep, Handshake, CreateStreams
<1>2. CASE MarkDone
  BY <1>2, <1>0 DEF MarkDone, RunInv, Complete, clientVars, channelVars, controlVars
<1>3. CASE Shutdown
  <2>1. /\ UNCHANGED <<serverVars, clientVars>>
        /\ \A c \in Clients : Has(toClient'[c], "TEST_RUNNING") => Has(toClient[c], "TEST_RUNNING")
    BY <1>3, <1>0, ShutdownSpoken
  <2>2. ctrl_sck # None => ctrl_sck \in Clients
    BY <1>0
  <2> QED BY <2>1, <2>2, <1>0 DEF RunInv, Complete, clientVars, serverVars, testVars, controlVars
<1>4. CASE Nudge \/ UNCHANGED vars
  BY <1>4, <1>0 DEF Nudge, vars, RunInv, Complete, clientVars, serverVars, testVars, controlVars, channelVars
<1>5. ASSUME NEW c \in Clients, ClientMoves(c), UNCHANGED serverVars
      PROVE  RunInv'
  <2>1. ClientHeard(c) /\ UNCHANGED <<ctrl_sck, streams, mode, state, pc>>
    BY <1>5, <1>0, ClientHears DEF serverVars, testVars, controlVars
  <2>2. SUFFICES ASSUME ctrl_sck # None, ctrl_sck \in Clients PROVE RunInv'
    BY <2>1, <1>0 DEF RunInv
  <2>3. Has(toClient'[ctrl_sck], "TEST_RUNNING") => Has(toClient[ctrl_sck], "TEST_RUNNING")
    BY <2>1, <2>2 DEF ClientHeard
  <2>4. cthreads'[ctrl_sck] => cthreads[ctrl_sck] \/ Has(toClient[ctrl_sck], "TEST_RUNNING")
    <3>1. CASE HearTestRunning(c)
      <4>1. toClient[c] \in Seq(Tokens) /\ toClient[c] # <<>> /\ Head(toClient[c]) = "TEST_RUNNING"
        BY <3>1, <1>0 DEF HearTestRunning, Hears, NextIs, TypeOK, ChannelTypeOK
      <4>2. Has(toClient[c], "TEST_RUNNING")
        BY <4>1, TailHas
      <4>3. cthreads' = [cthreads EXCEPT ![c] = TRUE]
        BY <3>1 DEF HearTestRunning
      <4> QED BY <4>2, <4>3, <2>2, <1>0
    <3>2. CASE ~HearTestRunning(c)
      BY <1>5, <2>2, <3>2, <1>0
      DEF ClientMoves, ClientStep, Dial, SendCookie, SendParameters, HearCreateStreams, ConnectStream,
          HearTestStart, EndOfTest, SendResults, GetResults, HearDisplayResults,
          HearEnd, Fails, CleanupAndFail, Killed, GoesSilent
    <3> QED BY <3>1, <3>2
  <2> QED BY <2>1, <2>2, <2>3, <2>4, <1>0 DEF RunInv, Complete
<1> QED BY <1>0, <1>1, <1>2, <1>3, <1>4, <1>5, NextCases

----------------------------------------------------------------------------
(* Requests, answers and the cookie.                                       *)

\* Which steps leave the places where the server waits for an answer.
LEMMA WaitingPlaces ==
    ASSUME ServerStep
    PROVE  /\ pc = "cookie" => GetCookie \/ HandshakeFails
           /\ pc = "params" => GetParameters \/ CloseListener \/ HandshakeFails
           /\ pc = "handle" => EndTest \/ ClientTerminated \/ Overtaken
           /\ pc = "results" => ExchangeResults \/ ResultsFail
           /\ pc = "err" => Cleanup
BY DEF ServerStep, Handshake, Messages, CreateStreams, Listen, ListenFails, Arm, LoopTest,
       BadDescriptor, AcceptClient, AcceptNudge, AcceptDenied, AcceptShut, GetCookie, GetParameters,
       CloseListener, HandshakeFails, Relisten, AskForStreams, ProtocolListenFails, ReadDone,
       ReadMessage, ReadNonsense, EndTest, ExchangeResults, ResultsFail, ClientTerminated, Overtaken,
       AcceptStream, AcceptStranger, StreamFails, RenewListener, ReopenListener, ReopenFails,
       StartTest, RunTest, StartFails, Cleanup, ServerTimer, RcvTimeout, ConnectionBreaks,
       Accepts, ServesStream, ServesListener, ServesControl, Idle

\* What the server waited for, and read, is not there any more.
LEMMA ReadOnce ==
    ASSUME TypeOK, NEW token, NEW c \in Clients, NextIs(toServer[c], token), ServerReads(c)
    PROVE  /\ Has(toServer[c], token)
           /\ Once(toServer[c], token) => ~Has(toServer'[c], token)
<1>1. toServer \in [Clients -> Seq(Tokens)] /\ toServer[c] # <<>> /\ Head(toServer[c]) = token
  BY DEF TypeOK, ChannelTypeOK, NextIs
<1> QED BY <1>1, ServerReadsHas DEF Shorter

\* What a client waited for, and read, is not there any more.
LEMMA ClientReadOnce ==
    ASSUME TypeOK, NEW token, NEW c \in Clients, NextIs(toClient[c], token), ClientReads(c)
    PROVE  /\ Has(toClient[c], token)
           /\ Once(toClient[c], token) => ~Has(toClient'[c], token)
<1>1. toClient \in [Clients -> Seq(Tokens)] /\ toClient[c] # <<>> /\ Head(toClient[c]) = token
  BY DEF TypeOK, ChannelTypeOK, NextIs
<1> QED BY <1>1, ClientReadsHas DEF Shorter

\* What a client hears is in its stream.
LEMMA HearsHas ==
    ASSUME TypeOK, NEW token, NEW c \in Clients, Hears(c, token)
    PROVE  Has(toClient[c], token)
<1>1. toClient[c] \in Seq(Tokens) /\ toClient[c] # <<>> /\ Head(toClient[c]) = token
  BY DEF TypeOK, ChannelTypeOK, Hears, NextIs
<1> QED BY <1>1, TailHas

\* Every step keeps RequestInv.
LEMMA RequestStep ==
    ASSUME IInv, [Next]_vars
    PROVE  RequestInv'
<1>0. /\ TypeOK /\ PlaceInv /\ RequestInv /\ ctrl_sck \in Clients \cup {None} /\ pc \in Places
      /\ {"PARAM_EXCHANGE", "PARAMS", "EXCHANGE_RESULTS", "RESULTS"} \subseteq Tokens
  BY DEF IInv, TypeOK, ServerTypeOK, Tokens, States, Json
<1>1. CASE ServerMoves
  <2>1. ServerStep /\ Spoken /\ Heard
    BY <1>1, <1>0, ServerSpeaks, ServerHears DEF ServerMoves
  <2>2. ASSUME NEW c \in Clients
        PROVE  /\ Has(toClient'[c], "PARAM_EXCHANGE") =>
                    \/ Has(toClient[c], "PARAM_EXCHANGE")
                    \/ c = ctrl_sck /\ pc = "cookie" /\ Untouched(c)
               /\ Once(toClient'[c], "PARAM_EXCHANGE")
    <3>1. c = ctrl_sck /\ pc = "cookie" => Untouched(c) /\ ~Has(toClient[c], "PARAM_EXCHANGE")
      BY <1>0, AllUntouched DEF Untouched
    <3>2. /\ Has(toClient'[c], "PARAM_EXCHANGE") =>
                Has(toClient[c], "PARAM_EXCHANGE") \/ Says(c, "PARAM_EXCHANGE")
          /\ Once(toClient[c], "PARAM_EXCHANGE")
             /\ ~(Says(c, "PARAM_EXCHANGE") /\ Has(toClient[c], "PARAM_EXCHANGE"))
             => Once(toClient'[c], "PARAM_EXCHANGE")
      BY <2>1 DEF Spoken, Refusals
    <3>3. Says(c, "PARAM_EXCHANGE") => c = ctrl_sck /\ pc = "cookie"
      BY DEF Says, Script
    <3>4. Once(toClient[c], "PARAM_EXCHANGE")
      BY <1>0 DEF RequestInv
    <3> QED BY <3>1, <3>2, <3>3, <3>4
  <2>3. ASSUME NEW c \in Clients
        PROVE  /\ Has(toClient'[c], "EXCHANGE_RESULTS") =>
                    Has(toClient[c], "EXCHANGE_RESULTS") \/ (c = ctrl_sck /\ EndTest)
               /\ Once(toClient'[c], "EXCHANGE_RESULTS")
    <3>1. pc = "handle" => EndTest \/ UNCHANGED toClient
      BY <2>1, WaitingPlaces DEF ClientTerminated, Overtaken, channelVars
    <3>2. c = ctrl_sck /\ pc = "handle" => ~Has(toClient[c], "EXCHANGE_RESULTS")
      BY <1>0 DEF RequestInv
    <3>3. /\ Has(toClient'[c], "EXCHANGE_RESULTS") =>
                Has(toClient[c], "EXCHANGE_RESULTS") \/ Says(c, "EXCHANGE_RESULTS")
          /\ Once(toClient[c], "EXCHANGE_RESULTS")
             /\ ~(Says(c, "EXCHANGE_RESULTS") /\ Has(toClient[c], "EXCHANGE_RESULTS"))
             => Once(toClient'[c], "EXCHANGE_RESULTS")
      BY <2>1 DEF Spoken, Refusals
    <3>4. Says(c, "EXCHANGE_RESULTS") => c = ctrl_sck /\ pc = "handle"
      BY DEF Says, Script
    <3>5. Once(toClient[c], "EXCHANGE_RESULTS")
      BY <1>0 DEF RequestInv
    <3>6. UNCHANGED toClient => toClient'[c] = toClient[c]
      OBVIOUS
    <3> QED BY <3>1, <3>2, <3>3, <3>4, <3>5, <3>6
  <2>4. ASSUME NEW c \in Clients
        PROVE  /\ Once(toServer'[c], "PARAMS") /\ Once(toServer'[c], "RESULTS")
               /\ Has(toServer'[c], "PARAMS") => Has(toServer[c], "PARAMS")
               /\ Has(toServer'[c], "RESULTS") => Has(toServer[c], "RESULTS")
    BY <2>1, <1>0 DEF Heard, RequestInv
  <2>5. ASSUME NEW c \in Clients, c = ctrl_sck', ctrl_sck' # ctrl_sck
        PROVE  /\ ~Has(toClient[c], "PARAM_EXCHANGE") /\ ~Has(toServer[c], "PARAMS")
               /\ ~Has(toClient[c], "EXCHANGE_RESULTS") /\ ~Has(toServer[c], "RESULTS")
               /\ c # ctrl_sck /\ ~EndTest
    <3>1. AcceptClient
      BY <2>1, <2>5, ServedClient, ClientsAssumption
    <3>2. Untouched(c)
      BY <3>1, AllUntouched DEF AcceptClient, Accepts, ServesListener
    <3>3. ~EndTest
      BY <3>1 DEF AcceptClient, Accepts, ServesListener, EndTest
    <3> QED BY <2>5, <3>2, <3>3, <1>0 DEF Untouched
  <2>6. ASSUME NEW c \in Clients, c = ctrl_sck', c = ctrl_sck, pc' \notin {"params", "err"}
        PROVE  ~Has(toClient'[c], "PARAM_EXCHANGE") /\ ~Has(toServer'[c], "PARAMS")
    <3>1. pc # "cookie"
      BY <2>1, <2>6, WaitingPlaces DEF GetCookie, HandshakeFails
    <3>2. pc # "err"
      BY <2>1, <2>6, WaitingPlaces, ClientsAssumption DEF Cleanup
    <3>3. CASE pc = "params"
      <4>1. NextIs(toServer[c], "PARAMS") /\ ServerReads(c)
        BY <2>1, <2>6, <3>3, WaitingPlaces DEF GetParameters, CloseListener, HandshakeFails
      <4>2. Has(toServer[c], "PARAMS") /\ ~Has(toServer'[c], "PARAMS")
        BY <4>1, <1>0, ReadOnce DEF RequestInv
      <4> QED BY <2>2, <3>1, <4>2, <1>0 DEF RequestInv
    <3>4. CASE pc # "params"
      BY <2>2, <2>4, <2>6, <3>1, <3>2, <3>4, <1>0 DEF RequestInv
    <3> QED BY <3>3, <3>4
  <2>7. ASSUME NEW c \in Clients, c = ctrl_sck', c = ctrl_sck, pc' \notin {"results", "err"}
        PROVE  ~Has(toClient'[c], "EXCHANGE_RESULTS") /\ ~Has(toServer'[c], "RESULTS")
    <3>1. ~EndTest
      BY <2>7 DEF EndTest
    <3>2. pc # "err"
      BY <2>1, <2>7, WaitingPlaces, ClientsAssumption DEF Cleanup
    <3>3. CASE pc = "results"
      <4>1. NextIs(toServer[c], "RESULTS") /\ ServerReads(c)
        BY <2>1, <2>7, <3>3, WaitingPlaces DEF ExchangeResults, ResultsFail
      <4>2. Has(toServer[c], "RESULTS") /\ ~Has(toServer'[c], "RESULTS")
        BY <4>1, <1>0, ReadOnce DEF RequestInv
      <4> QED BY <2>3, <3>1, <4>2, <1>0 DEF RequestInv
    <3>4. CASE pc # "results"
      BY <2>3, <2>4, <2>7, <3>1, <3>2, <3>4, <1>0 DEF RequestInv
    <3> QED BY <3>3, <3>4
  <2>8. ASSUME NEW c \in Clients
        PROVE  /\ ~(Has(toClient'[c], "PARAM_EXCHANGE") /\ Has(toServer'[c], "PARAMS"))
               /\ ~(Has(toClient'[c], "EXCHANGE_RESULTS") /\ Has(toServer'[c], "RESULTS"))
    <3>1. EndTest /\ c = ctrl_sck => ~Has(toServer[c], "RESULTS")
      BY <1>0 DEF EndTest, RequestInv
    <3>2. Untouched(c) => ~Has(toServer[c], "PARAMS")
      BY <1>0 DEF Untouched
    <3> QED BY <2>2, <2>3, <2>4, <3>1, <3>2, <1>0 DEF RequestInv
  <2>9. ASSUME NEW c \in Clients, c = ctrl_sck', pc' \notin {"params", "err"}
        PROVE  ~Has(toClient'[c], "PARAM_EXCHANGE") /\ ~Has(toServer'[c], "PARAMS")
    BY <2>2, <2>4, <2>5, <2>6, <2>9
  <2>10. ASSUME NEW c \in Clients, c = ctrl_sck', pc' \notin {"results", "err"}
         PROVE  ~Has(toClient'[c], "EXCHANGE_RESULTS") /\ ~Has(toServer'[c], "RESULTS")
    BY <2>3, <2>4, <2>5, <2>7, <2>10
  <2> QED BY <2>2, <2>3, <2>4, <2>8, <2>9, <2>10 DEF RequestInv
<1>2. CASE MarkDone
  BY <1>2, <1>0 DEF MarkDone, RequestInv, clientVars, channelVars, controlVars
<1>3. CASE Shutdown
  <2>1. /\ UNCHANGED <<serverVars, clientVars, toServer>>
        /\ \A c \in Clients : \A x : x # "FIN" =>
            /\ Has(toClient'[c], x) => Has(toClient[c], x)
            /\ Once(toClient[c], x) => Once(toClient'[c], x)
    BY <1>3, <1>0, ShutdownSpoken
  <2> QED BY <2>1, <1>0 DEF RequestInv, serverVars, testVars, controlVars
<1>4. CASE Nudge \/ UNCHANGED vars
  BY <1>4, <1>0 DEF Nudge, vars, RequestInv, clientVars, serverVars, testVars, controlVars, channelVars
<1>5. ASSUME NEW c \in Clients, ClientMoves(c), UNCHANGED serverVars
      PROVE  RequestInv'
  <2>1. ClientHeard(c) /\ ClientSpoken(c) /\ UNCHANGED <<ctrl_sck, pc>>
    BY <1>5, <1>0, ClientHears, ClientSpeaks DEF serverVars, testVars, controlVars
  <2>2. ASSUME NEW d \in Clients, d # c
        PROVE  toClient'[d] = toClient[d] /\ toServer'[d] = toServer[d]
    BY <2>1, <2>2 DEF ClientHeard, ClientSpoken
  <2>3. ASSUME NEW x \in {"PARAM_EXCHANGE", "EXCHANGE_RESULTS"}
        PROVE  /\ Has(toClient'[c], x) => Has(toClient[c], x)
               /\ Once(toClient'[c], x)
    BY <2>1, <1>0 DEF ClientHeard, RequestInv
  <2>4. /\ ClientSays(c, "PARAMS") =>
            Has(toClient[c], "PARAM_EXCHANGE") /\ ~Has(toClient'[c], "PARAM_EXCHANGE")
        /\ ClientSays(c, "RESULTS") =>
            Has(toClient[c], "EXCHANGE_RESULTS") /\ ~Has(toClient'[c], "EXCHANGE_RESULTS")
    BY <1>0, HearsHas DEF ClientSays, Answers, RequestInv
  <2>5. /\ Has(toServer'[c], "PARAMS") => Has(toServer[c], "PARAMS") \/ ClientSays(c, "PARAMS")
        /\ Has(toServer'[c], "RESULTS") => Has(toServer[c], "RESULTS") \/ ClientSays(c, "RESULTS")
        /\ Once(toServer'[c], "PARAMS") /\ Once(toServer'[c], "RESULTS")
    BY <2>1, <2>4, <1>0 DEF ClientSpoken, RequestInv
  <2> QED BY <2>1, <2>2, <2>3, <2>4, <2>5, <1>0 DEF RequestInv
<1> QED BY <1>0, <1>1, <1>2, <1>3, <1>4, <1>5, NextCases

\* Every step keeps CookieInv.
LEMMA CookieStep ==
    ASSUME IInv, [Next]_vars
    PROVE  CookieInv'
<1>0. /\ TypeOK /\ PlaceInv /\ CookieInv /\ ctrl_sck \in Clients \cup {None} /\ pc \in Places
      /\ cpc \in [Clients -> {"idle", "dialled", "select", "creating", "results"} \cup Ended]
  BY DEF IInv, TypeOK, ServerTypeOK, ClientTypeOK
<1>1. CASE ServerMoves
  <2>1. ServerStep /\ Heard /\ cpc' = cpc
    BY <1>1, <1>0, ServerHears DEF ServerMoves, clientVars
  <2>2. ASSUME NEW c \in Clients
        PROVE  /\ Once(toServer'[c], "COOKIE")
               /\ Has(toServer'[c], "COOKIE") => Has(toServer[c], "COOKIE")
    BY <2>1, <1>0 DEF Heard, CookieInv
  <2>3. ASSUME NEW c \in Clients, c = ctrl_sck', pc' \notin {"cookie", "err"}
        PROVE  cpc[c] \notin {"idle", "dialled"} /\ ~Has(toServer'[c], "COOKIE")
    <3>1. ctrl_sck' = ctrl_sck
      BY <2>1, <2>3, ServedClient, ClientsAssumption DEF AcceptClient
    <3>2. pc # "err"
      BY <2>1, <2>3, WaitingPlaces, ClientsAssumption DEF Cleanup
    <3>3. CASE pc = "cookie"
      <4>1. NextIs(toServer[c], "COOKIE") /\ ServerReads(c)
        BY <2>1, <2>3, <3>1, <3>3, WaitingPlaces DEF GetCookie, HandshakeFails
      <4>2. Has(toServer[c], "COOKIE") /\ ~Has(toServer'[c], "COOKIE")
        BY <4>1, <1>0, ReadOnce DEF CookieInv
      <4> QED BY <4>2, <1>0 DEF CookieInv
    <3>4. CASE pc # "cookie"
      BY <2>2, <2>3, <3>1, <3>2, <3>4, <1>0 DEF CookieInv
    <3> QED BY <3>3, <3>4
  <2> QED BY <2>1, <2>2, <2>3, <1>0 DEF CookieInv
<1>2. CASE MarkDone \/ Shutdown \/ Nudge \/ UNCHANGED vars
  BY <1>2, <1>0
  DEF MarkDone, Shutdown, Nudge, vars, CookieInv, clientVars, channelVars, serverVars, testVars, controlVars
<1>3. ASSUME NEW c \in Clients, ClientMoves(c), UNCHANGED serverVars
      PROVE  CookieInv'
  <2>1. ClientSpoken(c) /\ UNCHANGED <<ctrl_sck, pc>>
    BY <1>3, <1>0, ClientSpeaks DEF serverVars, testVars, controlVars
  <2>2. ASSUME NEW d \in Clients, d # c PROVE toServer'[d] = toServer[d] /\ cpc'[d] = cpc[d]
    <3>1. cpc'[d] = cpc[d]
      BY <1>3, <2>2, <1>0
      DEF ClientMoves, ClientStep, Dial, SendCookie, SendParameters, HearCreateStreams, ConnectStream,
          HearTestStart, HearTestRunning, EndOfTest, SendResults, GetResults, HearDisplayResults,
          HearEnd, Fails, CleanupAndFail, Killed, GoesSilent, Goto
    <3> QED BY <2>1, <2>2, <3>1 DEF ClientSpoken
  <2>3. cpc'[c] \in {"idle", "dialled"} => cpc[c] \in {"idle", "dialled"}
    BY <1>3, <1>0
    DEF ClientMoves, ClientStep, Dial, SendCookie, SendParameters, HearCreateStreams, ConnectStream,
        HearTestStart, HearTestRunning, EndOfTest, SendResults, GetResults, HearDisplayResults,
        HearEnd, Fails, CleanupAndFail, Killed, GoesSilent, Goto
  <2>4. ClientSays(c, "COOKIE") => cpc[c] = "dialled" /\ cpc'[c] = "select"
    BY DEF ClientSays
  <2>5. /\ Has(toServer'[c], "COOKIE") => Has(toServer[c], "COOKIE") \/ ClientSays(c, "COOKIE")
        /\ Once(toServer'[c], "COOKIE")
    BY <2>1, <2>4, <1>0 DEF ClientSpoken, CookieInv
  <2> QED BY <2>1, <2>2, <2>3, <2>4, <2>5, <1>0 DEF CookieInv
<1> QED BY <1>0, <1>1, <1>2, <1>3, NextCases

\* Every step keeps JsonInv.
LEMMA JsonStep ==
    ASSUME IInv, [Next]_vars
    PROVE  JsonInv'
<1>0. /\ TypeOK /\ PlaceInv /\ JsonInv /\ RequestInv /\ ctrl_sck \in Clients \cup {None} /\ pc \in Places
      /\ cpc \in [Clients -> {"idle", "dialled", "select", "creating", "results"} \cup Ended]
      /\ {"PARAMS", "RESULTS"} \subseteq Tokens
  BY DEF IInv, TypeOK, ServerTypeOK, ClientTypeOK, Tokens, Json
<1>1. CASE ServerMoves
  <2>1. ServerStep /\ Spoken /\ Heard /\ cpc' = cpc
    BY <1>1, <1>0, ServerSpeaks, ServerHears DEF ServerMoves, clientVars
  <2>2. ASSUME NEW c \in Clients
        PROVE  /\ Has(toServer'[c], "RESULTS") => Has(toServer[c], "RESULTS")
               /\ ~Has(toClient'[c], "PARAMS")
               /\ \A x \in Tokens : Has(toServer'[c], x) => Has(toServer[c], x)
    BY <2>1, <1>0 DEF Heard, Spoken, Says, Script, Refusals, JsonInv
  <2>3. ASSUME NEW c \in Clients
        PROVE  /\ Has(toClient'[c], "RESULTS") =>
                    \/ Has(toClient[c], "RESULTS")
                    \/ Has(toServer[c], "RESULTS") /\ ~Has(toServer'[c], "RESULTS")
               /\ Once(toClient'[c], "RESULTS")
    <3>1. CASE c = ctrl_sck /\ pc = "results" /\ ExchangeResults
      <4>1. NextIs(toServer[c], "RESULTS") /\ ServerReads(c)
        BY <3>1 DEF ExchangeResults
      <4>2. Has(toServer[c], "RESULTS") /\ ~Has(toServer'[c], "RESULTS")
        BY <4>1, <1>0, ReadOnce DEF RequestInv
      <4>3. Once(toClient'[c], "RESULTS")
        BY <2>1, <4>2, <1>0 DEF Spoken, Refusals, JsonInv
      <4> QED BY <4>2, <4>3
    <3>2. CASE ~(c = ctrl_sck /\ pc = "results" /\ ExchangeResults)
      <4>1. ~Says(c, "RESULTS") \/ toClient' = toClient
        BY <2>1, <3>2, WaitingPlaces DEF Says, Script, ResultsFail, channelVars
      <4> QED BY <2>1, <4>1, <1>0 DEF Spoken, Refusals, JsonInv
    <3> QED BY <3>1, <3>2
  <2> QED BY <2>1, <2>2, <2>3, <1>0 DEF JsonInv
<1>2. CASE MarkDone
  BY <1>2, <1>0 DEF MarkDone, JsonInv, clientVars, channelVars, controlVars
<1>3. CASE Shutdown
  <2>1. /\ UNCHANGED <<serverVars, clientVars, toServer>>
        /\ \A c \in Clients : \A x : x # "FIN" =>
            /\ Has(toClient'[c], x) => Has(toClient[c], x)
            /\ Once(toClient[c], x) => Once(toClient'[c], x)
    BY <1>3, <1>0, ShutdownSpoken
  <2> QED BY <2>1, <1>0 DEF JsonInv, clientVars
<1>4. CASE Nudge \/ UNCHANGED vars
  BY <1>4, <1>0 DEF Nudge, vars, JsonInv, clientVars, serverVars, testVars, controlVars, channelVars
<1>5. ASSUME NEW c \in Clients, ClientMoves(c), UNCHANGED serverVars
      PROVE  JsonInv'
  <2>1. ClientHeard(c) /\ ClientSpoken(c)
    BY <1>5, <1>0, ClientHears, ClientSpeaks
  <2>2. ASSUME NEW d \in Clients, d # c
        PROVE  toClient'[d] = toClient[d] /\ toServer'[d] = toServer[d] /\ cpc'[d] = cpc[d]
    <3>1. cpc'[d] = cpc[d]
      BY <1>5, <2>2, <1>0
      DEF ClientMoves, ClientStep, Dial, SendCookie, SendParameters, HearCreateStreams, ConnectStream,
          HearTestStart, HearTestRunning, EndOfTest, SendResults, GetResults, HearDisplayResults,
          HearEnd, Fails, CleanupAndFail, Killed, GoesSilent, Goto
    <3> QED BY <2>1, <2>2, <3>1 DEF ClientHeard, ClientSpoken
  <2>3. /\ ~Has(toClient'[c], "PARAMS") /\ Once(toClient'[c], "RESULTS")
        /\ Has(toClient'[c], "RESULTS") => Has(toClient[c], "RESULTS")
    BY <2>1, <1>0 DEF ClientHeard, JsonInv
  <2>4. \A x \in Tokens : Has(toServer'[c], x) =>
          x \in {"COOKIE", "PARAMS", "RESULTS", "TEST_END", "IPERF_DONE", "CLIENT_TERMINATE", "FIN"}
    BY <2>1, <1>0 DEF ClientSpoken, ClientSays, JsonInv
  <2>5. Has(toServer'[c], "RESULTS") => Has(toServer[c], "RESULTS") \/ ClientSays(c, "RESULTS")
    BY <2>1 DEF ClientSpoken
  <2>6. CASE ClientSays(c, "RESULTS")
    <3>1. cpc[c] = "select" /\ cpc'[c] = "results"
      BY <2>6 DEF ClientSays, Answers, Hears
    <3>2. ~Has(toClient[c], "RESULTS")
      BY <3>1, <1>0 DEF JsonInv, Ended
    <3> QED BY <2>2, <2>3, <2>4, <3>1, <3>2, <1>0 DEF JsonInv
  <2>7. CASE ~ClientSays(c, "RESULTS") /\ GetResults(c)
    <3>1. NextIs(toClient[c], "RESULTS") /\ ClientReads(c)
      BY <2>7 DEF GetResults
    <3>2. Has(toClient[c], "RESULTS") /\ ~Has(toClient'[c], "RESULTS")
      BY <3>1, <1>0, ClientReadOnce DEF JsonInv
    <3> QED BY <2>2, <2>3, <2>4, <2>5, <2>7, <3>2, <1>0 DEF JsonInv
  <2>8. CASE ~ClientSays(c, "RESULTS") /\ ~GetResults(c)
    <3>1. cpc[c] \in {"results"} \cup Ended => cpc'[c] \in {"results"} \cup Ended
      BY <1>5, <2>8, <1>0
      DEF ClientMoves, ClientStep, Dial, SendCookie, SendParameters, HearCreateStreams, ConnectStream,
          HearTestStart, HearTestRunning, EndOfTest, SendResults, HearDisplayResults,
          HearEnd, Fails, CleanupAndFail, Killed, GoesSilent, Goto, Ended, Hears, Running
    <3> QED BY <2>2, <2>3, <2>4, <2>5, <2>8, <3>1, <1>0 DEF JsonInv
  <2> QED BY <2>6, <2>7, <2>8
<1> QED BY <1>0, <1>1, <1>2, <1>3, <1>4, <1>5, NextCases

----------------------------------------------------------------------------
(* The end of a test.                                                      *)

\* While its client's test runs and after its results, the server leaves these
\* places only by a message.
LEMMA RestSteps ==
    ASSUME ServerStep, pc \in Rest, state # "CREATE_STREAMS", ctrl_sck # None, ctrl_sck' = ctrl_sck
    PROVE  \/ ReadMessage
           \/ /\ pc' \in Rest /\ (done => done')
              /\ state' = state \/ state' = "IPERF_DONE"
<1> USE DEF Rest, testVars
<1>1. CASE Listen \/ ListenFails \/ Arm \/ LoopTest \/ BadDescriptor
  BY <1>1 DEF Listen, ListenFails, Arm, LoopTest, BadDescriptor
<1>2. CASE Handshake
  BY <1>2
  DEF Handshake, AcceptClient, AcceptNudge, AcceptDenied, AcceptShut, GetCookie, GetParameters,
      HandshakeFails, CloseListener, Relisten, AskForStreams, ProtocolListenFails
<1>3. CASE Messages
  BY <1>3
  DEF Messages, ReadDone, ReadNonsense, EndTest, ExchangeResults, ResultsFail, ClientTerminated, Overtaken
<1>4. CASE CreateStreams
  BY <1>4
  DEF CreateStreams, AcceptStream, AcceptStranger, StreamFails, ServesStream, RenewListener,
      ReopenListener, ReopenFails, StartTest, RunTest, StartFails
<1>5. CASE Cleanup \/ ServerTimer \/ RcvTimeout \/ ConnectionBreaks
  BY <1>5 DEF Cleanup, ServerTimer, RcvTimeout, ConnectionBreaks
<1> QED BY <1>1, <1>2, <1>3, <1>4, <1>5 DEF ServerStep

\* Which steps start a test and which end it.
LEMMA TestPlaces ==
    ASSUME ServerStep
    PROVE  /\ pc = "running" => RunTest \/ StartFails
           /\ pc' = "results" => EndTest
<1> USE DEF testVars
<1>1. CASE Listen \/ ListenFails \/ Arm \/ LoopTest \/ BadDescriptor
  BY <1>1 DEF Listen, ListenFails, Arm, LoopTest, BadDescriptor
<1>2. CASE Handshake
  BY <1>2
  DEF Handshake, AcceptClient, AcceptNudge, AcceptDenied, AcceptShut, GetCookie, GetParameters,
      HandshakeFails, CloseListener, Relisten, AskForStreams, ProtocolListenFails, Accepts, ServesListener
<1>3. CASE EndTest
  <2>1. pc = "handle"
    BY <1>3 DEF EndTest
  <2> QED BY <1>3, <2>1
<1>6. CASE Messages /\ ~EndTest
  BY <1>6
  DEF Messages, ReadDone, ReadMessage, ReadNonsense, ExchangeResults, ResultsFail, ClientTerminated,
      Overtaken, ServesControl
<1>4. CASE RunTest
  <2>1. pc' = "top"
    BY <1>4 DEF RunTest
  <2> QED BY <1>4, <2>1
<1>7. CASE StartFails
  <2>1. pc' = "err"
    BY <1>7 DEF StartFails
  <2> QED BY <1>7, <2>1
<1>8. CASE CreateStreams /\ ~RunTest /\ ~StartFails
  BY <1>8
  DEF CreateStreams, AcceptStream, AcceptStranger, StreamFails, ServesStream, ServesListener,
      RenewListener, ReopenListener, ReopenFails, StartTest
<1>5. CASE Cleanup \/ ServerTimer \/ RcvTimeout \/ ConnectionBreaks
  BY <1>5 DEF Cleanup, ServerTimer, RcvTimeout, ConnectionBreaks, Idle, ServesControl
<1> QED BY <1>1, <1>2, <1>3, <1>4, <1>5, <1>6, <1>7, <1>8 DEF ServerStep

\* Every step keeps FinishInv.
LEMMA FinishStep ==
    ASSUME SessionInv, [Next]_vars
    PROVE  FinishInv'
<1>0. /\ IInv /\ TypeOK /\ FinishInv /\ ctrl_sck \in Clients \cup {None} /\ pc \in Places
      /\ cpc \in [Clients -> {"idle", "dialled", "select", "creating", "results"} \cup Ended]
      /\ cstate \in [Clients -> States]
      /\ {"TEST_RUNNING", "TEST_END", "DISPLAY_RESULTS", "CLIENT_TERMINATE"} \subseteq Tokens
  BY DEF SessionInv, IInv, TypeOK, ServerTypeOK, ClientTypeOK, Tokens, States
<1>1. CASE ServerMoves
  <2>1. ServerStep /\ Spoken /\ Heard /\ cpc' = cpc /\ cstate' = cstate
    BY <1>1, <1>0, ServerSpeaks, ServerHears DEF ServerMoves, clientVars, IInv
  <2>2. ASSUME NEW c \in Clients
        PROVE  /\ Has(toServer'[c], "TEST_END") => Has(toServer[c], "TEST_END")
               /\ Has(toServer'[c], "CLIENT_TERMINATE") => Has(toServer[c], "CLIENT_TERMINATE")
               /\ Once(toServer[c], "TEST_END") => Once(toServer'[c], "TEST_END")
    BY <2>1 DEF Heard
  <2>3. ASSUME NEW c \in Clients
        PROVE  /\ Has(toClient'[c], "TEST_RUNNING") =>
                    Has(toClient[c], "TEST_RUNNING") \/ (c = ctrl_sck /\ pc = "running" /\ RunTest)
               /\ Has(toClient'[c], "DISPLAY_RESULTS") =>
                    Has(toClient[c], "DISPLAY_RESULTS") \/ (c = ctrl_sck /\ ExchangeResults)
               /\ Live(c) => Once(toClient'[c], "TEST_RUNNING")
    <3>1. pc = "running" => RunTest \/ UNCHANGED toClient
      BY <2>1, TestPlaces DEF StartFails, channelVars
    <3>2. pc = "results" => ExchangeResults \/ UNCHANGED toClient
      BY <2>1, WaitingPlaces DEF ResultsFail, channelVars
    <3>3. Live(c) /\ c = ctrl_sck /\ pc = "running" => ~Has(toClient[c], "TEST_RUNNING")
      BY <1>0 DEF FinishInv, Chain, Rest
    <3> QED BY <2>1, <3>1, <3>2, <3>3, <1>0 DEF Spoken, Says, Script, Refusals, FinishInv
  <2>4. ASSUME NEW c \in Clients, Live(c)
        PROVE  /\ ~(Has(toClient'[c], "TEST_RUNNING") /\ Has(toServer'[c], "TEST_END"))
               /\ cstate[c] = "TEST_RUNNING" =>
                    ~Has(toClient'[c], "TEST_RUNNING") /\ ~Has(toServer'[c], "TEST_END")
    <3>1. c = ctrl_sck /\ pc = "running" => ~Chain(c)
      BY <2>4, <1>0 DEF FinishInv, Rest
    <3> QED BY <2>2, <2>3, <2>4, <3>1, <1>0 DEF FinishInv, Chain
  <2>5. ASSUME NEW c \in Clients, Live(c), c = ctrl_sck', ctrl_sck' # ctrl_sck
        PROVE  ~Chain(c)' /\ ~Displayed(c)'
    <3>1. AcceptClient
      BY <2>1, <2>5, ServedClient, ClientsAssumption
    <3>2. Untouched(c)
      BY <3>1, <1>0, AllUntouched DEF AcceptClient, Accepts, ServesListener
    <3>3. UNCHANGED <<toClient, toServer>>
      BY <3>1 DEF AcceptClient
    <3> QED BY <2>1, <3>2, <3>3, <1>0 DEF Untouched, Chain, Displayed, FinishInv
  <2>6. ASSUME NEW c \in Clients, Live(c), c = ctrl_sck', c = ctrl_sck
        PROVE  /\ Chain(c)' => pc' \in Rest /\ state' # "CREATE_STREAMS"
               /\ Displayed(c)' =>
                    ~Chain(c)' /\ pc' \in Rest /\ done' /\ state' \in {"DISPLAY_RESULTS", "IPERF_DONE"}
    <3>1. CASE RunTest
      <4>1. pc = "running" /\ pc' = "top" /\ state' = "TEST_RUNNING"
        BY <3>1 DEF RunTest
      <4>2. ~Displayed(c)
        BY <2>6, <4>1, <1>0 DEF FinishInv, Rest
      <4>3. ~Displayed(c)'
        BY <2>1, <2>3, <4>1, <4>2 DEF Displayed, ExchangeResults
      <4> QED BY <4>1, <4>3 DEF Rest
    <3>2. CASE ExchangeResults
      <4>1. pc = "results" /\ pc' = "top" /\ state' = "DISPLAY_RESULTS" /\ done' = done /\ done
        BY <3>2, <1>0 DEF ExchangeResults, testVars, FinishInv
      <4>2. ~Chain(c)
        BY <2>6, <4>1, <1>0 DEF FinishInv, Rest
      <4>3. ~Chain(c)'
        BY <2>1, <2>2, <2>3, <4>1, <4>2 DEF Chain
      <4> QED BY <4>1, <4>3 DEF Rest
    <3>3. CASE ~RunTest /\ ~ExchangeResults
      <4>1. (Chain(c)' => Chain(c)) /\ (Displayed(c)' => Displayed(c))
        BY <2>1, <2>2, <2>3, <3>3 DEF Chain, Displayed
      <4>2. CASE ReadMessage
        <5>1. toServer[c] # <<>> /\ ServerReads(c) /\ Head(toServer[c]) \in {"TEST_END", "CLIENT_TERMINATE"}
          BY <2>6, <4>2 DEF ReadMessage, ServesControl, ControlReadable
        <5>2. toServer[c] \in Seq(Tokens)
          BY <1>0 DEF TypeOK, ChannelTypeOK
        <5>3. Has(toServer[c], Head(toServer[c]))
          BY <5>1, <5>2, TailHas
        <5>4. Head(toServer[c]) = "TEST_END"
          BY <2>6, <5>1, <5>3, <1>0 DEF FinishInv, Live
        <5>5. Chain(c) /\ ~Displayed(c)
          BY <2>6, <5>3, <5>4, <1>0 DEF FinishInv, Chain
        <5>6. ~Has(toServer'[c], "TEST_END")
          BY <2>6, <5>1, <5>4, <1>0, ReadOnce DEF NextIs, FinishInv
        <5>7. ~Has(toClient[c], "TEST_RUNNING") /\ cstate[c] # "TEST_RUNNING"
          BY <2>6, <5>3, <5>4, <1>0 DEF FinishInv
        <5>8. ~Chain(c)'
          BY <2>1, <2>3, <3>3, <5>6, <5>7 DEF Chain
        <5> QED BY <4>1, <5>5, <5>8
      <4>3. CASE ~ReadMessage
        <5>1. SUFFICES ASSUME Chain(c) \/ Displayed(c)
                       PROVE  /\ pc' \in Rest /\ state' # "CREATE_STREAMS"
                              /\ Displayed(c) => done' /\ state' \in {"DISPLAY_RESULTS", "IPERF_DONE"}
          BY <2>6, <4>1, <1>0 DEF FinishInv
        <5>2. pc \in Rest /\ state # "CREATE_STREAMS"
              /\ (Displayed(c) => done /\ state \in {"DISPLAY_RESULTS", "IPERF_DONE"})
          BY <2>6, <5>1, <1>0 DEF FinishInv
        <5>3. /\ pc' \in Rest /\ (done => done')
              /\ state' = state \/ state' = "IPERF_DONE"
          BY <2>1, <2>6, <4>3, <5>2, RestSteps, ClientsAssumption
        <5> QED BY <5>2, <5>3
      <4> QED BY <4>2, <4>3
    <3> QED BY <3>1, <3>2, <3>3
  <2>7. pc' = "results" => done'
    BY <2>1, TestPlaces DEF EndTest
  <2>8. ASSUME NEW c \in Clients, Live(c), c = ctrl_sck'
        PROVE  /\ Chain(c)' => pc' \in Rest /\ state' # "CREATE_STREAMS"
               /\ Displayed(c)' =>
                    ~Chain(c)' /\ pc' \in Rest /\ done' /\ state' \in {"DISPLAY_RESULTS", "IPERF_DONE"}
    BY <2>5, <2>6, <2>8
  <2> QED BY <2>1, <2>2, <2>3, <2>4, <2>7, <2>8, <1>0 DEF FinishInv, Live
<1>2. CASE MarkDone
  BY <1>2, <1>0
  DEF MarkDone, FinishInv, Live, Chain, Displayed, clientVars, channelVars, controlVars
<1>3. CASE Shutdown
  <2>1. /\ UNCHANGED <<serverVars, clientVars, toServer>>
        /\ \A c \in Clients : \A x : x # "FIN" =>
            /\ Has(toClient'[c], x) => Has(toClient[c], x)
            /\ Once(toClient[c], x) => Once(toClient'[c], x)
    BY <1>3, <1>0, ShutdownSpoken
  <2> QED BY <2>1, <1>0 DEF FinishInv, Live, Chain, Displayed, clientVars, serverVars, testVars, controlVars
<1>4. CASE Nudge \/ UNCHANGED vars
  BY <1>4, <1>0
  DEF Nudge, vars, FinishInv, Live, Chain, Displayed, clientVars, serverVars, testVars, controlVars, channelVars
<1>5. ASSUME NEW c \in Clients, ClientMoves(c), UNCHANGED serverVars
      PROVE  FinishInv'
  <2>1. ClientHeard(c) /\ ClientSpoken(c) /\ UNCHANGED <<ctrl_sck, pc, state, done>>
    BY <1>5, <1>0, ClientHears, ClientSpeaks DEF serverVars, testVars, controlVars
  <2>2. ASSUME NEW d \in Clients, d # c
        PROVE  /\ toClient'[d] = toClient[d] /\ toServer'[d] = toServer[d]
               /\ cpc'[d] = cpc[d] /\ cstate'[d] = cstate[d]
    <3>1. cpc'[d] = cpc[d] /\ cstate'[d] = cstate[d]
      BY <1>5, <2>2, <1>0
      DEF ClientMoves, ClientStep, Dial, SendCookie, SendParameters, HearCreateStreams, ConnectStream,
          HearTestStart, HearTestRunning, EndOfTest, SendResults, GetResults, HearDisplayResults,
          HearEnd, Fails, CleanupAndFail, Killed, GoesSilent, Goto, Becomes
    <3> QED BY <2>1, <2>2, <3>1 DEF ClientHeard, ClientSpoken
  <2>3. /\ Has(toClient'[c], "TEST_RUNNING") => Has(toClient[c], "TEST_RUNNING")
        /\ Has(toClient'[c], "DISPLAY_RESULTS") => Has(toClient[c], "DISPLAY_RESULTS")
        /\ Once(toClient[c], "TEST_RUNNING") => Once(toClient'[c], "TEST_RUNNING")
    BY <2>1 DEF ClientHeard
  <2>4. /\ Live(c)' => Live(c)
        /\ cpc'[c] = "done" => cstate'[c] = "IPERF_DONE"
        /\ cpc'[c] = "done" => cpc[c] = "done" \/ Has(toClient[c], "DISPLAY_RESULTS")
    <3>1. CASE HearDisplayResults(c)
      <4>1. Has(toClient[c], "DISPLAY_RESULTS")
        BY <3>1, <1>0, HearsHas DEF HearDisplayResults
      <4> QED BY <3>1, <4>1, <1>0 DEF HearDisplayResults, Goto, Becomes, Live, Hears
    <3>2. CASE ~HearDisplayResults(c)
      BY <1>5, <3>2, <1>0
      DEF ClientMoves, ClientStep, Dial, SendCookie, SendParameters, HearCreateStreams, ConnectStream,
          HearTestStart, HearTestRunning, EndOfTest, SendResults, GetResults,
          HearEnd, Fails, CleanupAndFail, Killed, GoesSilent, Goto, Becomes, Live, Hears, Running,
          FinishInv
    <3> QED BY <3>1, <3>2
  <2>5. Has(toServer'[c], "CLIENT_TERMINATE") => cpc'[c] = "killed"
    <3>1. ClientSays(c, "CLIENT_TERMINATE") => cpc'[c] = "killed"
      BY DEF ClientSays
    <3>2. cpc[c] = "killed" => cpc'[c] = "killed"
      BY <1>5, <1>0
      DEF ClientMoves, ClientStep, Dial, SendCookie, SendParameters, HearCreateStreams, ConnectStream,
          HearTestStart, HearTestRunning, EndOfTest, SendResults, GetResults, HearDisplayResults,
          HearEnd, Fails, Killed, GoesSilent, Hears, Running
    <3> QED BY <2>1, <3>1, <3>2, <1>0 DEF ClientSpoken, FinishInv
  <2>6. ClientSays(c, "TEST_END") => cstate[c] = "TEST_RUNNING" /\ cstate'[c] = "TEST_END"
    BY DEF ClientSays
  <2>7. ASSUME Live(c)', cstate'[c] = "TEST_RUNNING"
        PROVE  \/ cstate[c] = "TEST_RUNNING"
               \/ Has(toClient[c], "TEST_RUNNING") /\ ~Has(toClient'[c], "TEST_RUNNING")
    <3>1. CASE HearTestRunning(c)
      <4>1. NextIs(toClient[c], "TEST_RUNNING") /\ ClientReads(c)
        BY <3>1 DEF HearTestRunning, Hears
      <4> QED BY <2>4, <2>7, <4>1, <1>0, ClientReadOnce DEF FinishInv
    <3>2. CASE ~HearTestRunning(c)
      BY <1>5, <2>7, <3>2, <1>0
      DEF ClientMoves, ClientStep, Dial, SendCookie, SendParameters, HearCreateStreams, ConnectStream,
          HearTestStart, EndOfTest, SendResults, GetResults, HearDisplayResults,
          HearEnd, Fails, CleanupAndFail, Killed, GoesSilent, Goto, Becomes, Live
    <3> QED BY <3>1, <3>2
  <2>8. /\ Has(toServer'[c], "TEST_END") => Has(toServer[c], "TEST_END") \/ ClientSays(c, "TEST_END")
        /\ Once(toServer[c], "TEST_END") /\ ~(Has(toServer[c], "TEST_END") /\ ClientSays(c, "TEST_END"))
           => Once(toServer'[c], "TEST_END")
    BY <2>1 DEF ClientSpoken
  <2>9. ASSUME Live(c)' PROVE (Chain(c)' => Chain(c)) /\ (Displayed(c)' => Displayed(c))
    BY <2>3, <2>4, <2>6, <2>7, <2>8, <2>9 DEF Chain, Displayed
  <2>10. ASSUME Live(c)'
         PROVE  /\ Once(toClient'[c], "TEST_RUNNING") /\ Once(toServer'[c], "TEST_END")
                /\ ~(Has(toClient'[c], "TEST_RUNNING") /\ Has(toServer'[c], "TEST_END"))
                /\ cstate'[c] = "TEST_RUNNING" =>
                    ~Has(toClient'[c], "TEST_RUNNING") /\ ~Has(toServer'[c], "TEST_END")
    BY <2>3, <2>4, <2>6, <2>7, <2>8, <2>10, <1>0 DEF FinishInv
  <2>11. ASSUME Live(c)', c = ctrl_sck
         PROVE  /\ Chain(c)' => pc \in Rest /\ state # "CREATE_STREAMS"
                /\ Displayed(c)' =>
                    ~Chain(c)' /\ pc \in Rest /\ done /\ state \in {"DISPLAY_RESULTS", "IPERF_DONE"}
    BY <2>4, <2>9, <2>11, <1>0 DEF FinishInv
  <2>12. ASSUME NEW d \in Clients, d # c
         PROVE  Live(d)' = Live(d) /\ Chain(d)' = Chain(d) /\ Displayed(d)' = Displayed(d)
    BY <2>2, <2>12 DEF Live, Chain, Displayed
  <2>13. ASSUME NEW d \in Clients
         PROVE  /\ cpc'[d] = "done" => cstate'[d] = "IPERF_DONE"
                /\ Has(toServer'[d], "CLIENT_TERMINATE") => cpc'[d] = "killed"
    BY <2>2, <2>4, <2>5, <1>0 DEF FinishInv
  <2>14. ASSUME NEW d \in Clients, Live(d)'
         PROVE  /\ Once(toClient'[d], "TEST_RUNNING") /\ Once(toServer'[d], "TEST_END")
                /\ ~(Has(toClient'[d], "TEST_RUNNING") /\ Has(toServer'[d], "TEST_END"))
                /\ cstate'[d] = "TEST_RUNNING" =>
                    ~Has(toClient'[d], "TEST_RUNNING") /\ ~Has(toServer'[d], "TEST_END")
    BY <2>2, <2>10, <2>12, <2>14, <1>0 DEF FinishInv
  <2>15. ASSUME NEW d \in Clients, Live(d)', d = ctrl_sck
         PROVE  /\ Chain(d)' => pc \in Rest /\ state # "CREATE_STREAMS"
                /\ Displayed(d)' =>
                    ~Chain(d)' /\ pc \in Rest /\ done /\ state \in {"DISPLAY_RESULTS", "IPERF_DONE"}
    BY <2>11, <2>12, <2>15, <1>0 DEF FinishInv
  <2> QED BY <2>1, <2>13, <2>14, <2>15, <1>0 DEF FinishInv
<1> QED BY <1>0, <1>1, <1>2, <1>3, <1>4, <1>5, NextCases

----------------------------------------------------------------------------
(* What the invariant gives.                                               *)

\* A call before its first step, clients before they dial.
LEMMA InitInv == ASSUME Init PROVE SessionInv
<1>0. /\ ChannelInit(TestSetups) /\ ServerInit /\ ClientInit
      /\ faults = 0 /\ stop = "idle" /\ stops = 0
  BY DEF Init
<1>1. /\ listener = "closed" /\ queue = <<>> /\ streams = <<>> /\ ctrl_sck = None /\ pc = "enter"
      /\ state = "INIT" /\ mode = "RECEIVER" /\ stale = {}
      /\ done = FALSE /\ dead = FALSE /\ timer = FALSE /\ threads = FALSE /\ stray = FALSE
  BY <1>0 DEF ChannelInit, ServerInit
<1>2. /\ toServer \in [Clients -> Seq(Tokens)] /\ toClient \in [Clients -> Seq(Tokens)]
      /\ \A c \in Clients : toServer[c] = <<>> /\ toClient[c] = <<>>
      /\ setup \in [Clients -> Setups]
  BY <1>0, SessionAssumption DEF ChannelInit
<1>3. /\ cpc \in [Clients -> {"idle"}] /\ cstate \in [Clients -> {"INIT"}]
      /\ created \in [Clients -> {0}] /\ cthreads \in [Clients -> {FALSE}]
  BY <1>0 DEF ClientInit
<1>4. \A c \in Clients : \A x :
        ~Has(toServer[c], x) /\ Once(toServer[c], x) /\ ~Has(toClient[c], x) /\ Once(toClient[c], x)
  BY <1>2 DEF Has, Once
<1>5. TypeOK
  <2>1. ChannelTypeOK
    BY <1>1, <1>2 DEF ChannelTypeOK
  <2>2. ServerTypeOK
    <3>1. <<>> \in Seq(Connections)
      OBVIOUS
    <3> QED BY <1>1, <3>1 DEF ServerTypeOK, Places, States, Modes
  <2>3. ClientTypeOK
    <3>1. 0 \in 0 .. 2 * NumStreams /\ "INIT" \in States /\ FALSE \in BOOLEAN
      BY StreamsAssumption DEF States
    <3>2. \A c \in Clients : cpc[c] = "idle" /\ cstate[c] = "INIT" /\ created[c] = 0 /\ cthreads[c] = FALSE
      BY <1>3
    <3> QED BY <1>3, <3>1, <3>2 DEF ClientTypeOK
  <2> QED BY <1>0, <2>1, <2>2, <2>3, SessionAssumption DEF TypeOK
<1>6. PlaceInv
  BY <1>1 DEF PlaceInv, Talking
<1>7. OneInv
  <2>1. \A c \in Clients : Untouched(c)
    BY <1>3, <1>4 DEF Untouched
  <2> QED BY <2>1 DEF OneInv
<1>8. CreationInv
  <2>1. ASSUME NEW c \in Clients
        PROVE  /\ created[c] = 0 /\ cpc[c] = "idle" /\ c # ctrl_sck
               /\ created[c] <= StreamsFor(setup[c].mode)
    <3>1. created[c] = 0 /\ cpc[c] = "idle" /\ c # ctrl_sck
      BY <1>1, <1>3, ClientsAssumption
    <3>2. StreamsFor(setup[c].mode) \in Nat
      BY StreamsAssumption DEF StreamsFor
    <3> QED BY <3>1, <3>2
  <2> QED BY <1>4, <2>1 DEF CreationInv
<1>9. QueueInv /\ StreamInv /\ RunInv
  BY <1>1 DEF QueueInv, StreamInv, RunInv
<1>10. RequestInv /\ CookieInv /\ JsonInv
  BY <1>1, <1>3, <1>4, ClientsAssumption DEF RequestInv, CookieInv, JsonInv
<1>11. FinishInv
  BY <1>1, <1>3, <1>4, ClientsAssumption DEF FinishInv, Chain, Displayed
<1> QED BY <1>5, <1>6, <1>7, <1>8, <1>9, <1>10, <1>11 DEF SessionInv, IInv

\* Every step preserves the inductive invariant.
LEMMA SessionStep ==
    ASSUME SessionInv, [Next]_vars
    PROVE  SessionInv'
<1>1. IInv
  BY DEF SessionInv
<1> QED
  BY <1>1, TypeStep, PlaceStep, OneStep, CreationStep, QueueStep, StreamStep, RunStep, RequestStep,
     CookieStep, JsonStep, FinishStep DEF SessionInv, IInv

\* The inductive invariant holds in every state of a session.
THEOREM Inductive == Spec => []SessionInv
<1>1. Init => SessionInv
  BY InitInv
<1>2. SessionInv /\ [Next]_vars => SessionInv'
  BY SessionStep
<1> QED BY <1>1, <1>2, PTL DEF Spec

\* Every variable of a session has its type, in every state.
THEOREM TypeCorrect == Spec => []TypeOK
<1>1. SessionInv => TypeOK
  BY DEF SessionInv, IInv
<1> QED BY <1>1, Inductive, PTL

\* One call of iperf_run_server serves one client: no other gets past the
\* handshake, whatever connects, in which order, and whoever disappears.
THEOREM OneClientServed == Spec => []OneClient
<1>1. SessionInv => OneClient
  BY DEF SessionInv, IInv, OneInv, Untouched, OneClient
<1> QED BY <1>1, Inductive, PTL

\* The i-th stream of the server is the i-th stream of its client, and one end
\* sends on it where the other receives (iperf_run_server, iperf_create_streams).
THEOREM StreamsPairUp == Spec => []StreamsPair
<1>1. ASSUME SessionInv, ctrl_sck # None, NEW i \in DOMAIN streams
      PROVE  streams[i] = Stream(ctrl_sck, i) /\ ServerSendsOn(i) # SendsOn(ctrl_sck, i)
  <2>1. /\ ctrl_sck \in Clients /\ streams[i] = Stream(ctrl_sck, i)
        /\ streams \in Seq(Connections) /\ setup \in [Clients -> Setups]
    BY <1>1 DEF SessionInv, IInv, StreamInv, TypeOK, ServerTypeOK, ChannelTypeOK
  <2>2. i \in Nat /\ streams # <<>>
    BY <2>1
  <2>3. mode = setup[ctrl_sck].mode /\ mode \in Modes
    BY <1>1, <2>1, <2>2 DEF SessionInv, IInv, RunInv, Setups
  <2>4. SendsOn(ctrl_sck, i) = ~ServerSendsOn(i)
    BY <2>2, <2>3, StreamsAssumption DEF Modes, SendsOn, ServerSendsOn, Mirror
  <2> QED BY <2>1, <2>4 DEF ServerSendsOn
<1>2. SessionInv => StreamsPair
  BY <1>1 DEF StreamsPair
<1> QED BY <1>2, Inductive, PTL

\* A client's stream threads run only when both ends have all streams of the test
\* (TEST_START and TEST_RUNNING follow the last accept in iperf_run_server).
THEOREM DataWaits == Spec => []DataNeedsBothEnds
<1>1. ASSUME SessionInv, NEW c \in Clients, cthreads[c], ctrl_sck # None
      PROVE  ctrl_sck = c /\ Complete(streams) /\ created[c] = Len(streams)
  <2>0. /\ TypeOK /\ OneInv /\ RunInv /\ StreamInv /\ CreationInv /\ PlaceInv
        /\ ctrl_sck \in Clients /\ streams \in Seq(Connections)
        /\ created \in [Clients -> 0 .. 2 * NumStreams]
    BY <1>1 DEF SessionInv, IInv, TypeOK, ServerTypeOK, ClientTypeOK
  <2>1. ctrl_sck = c
    BY <1>1, <2>0, ClientsAssumption DEF OneInv, Untouched
  <2>2. Complete(streams)
    BY <1>1, <2>0, <2>1 DEF RunInv
  <2>3. streams # <<>>
    BY <2>2, StreamsAssumption DEF Complete, StreamsFor
  <2>4. Len(streams) = StreamsFor(setup[c].mode)
    BY <1>1, <2>0, <2>1, <2>2, <2>3 DEF RunInv, Complete
  <2>5. created[c] <= Len(streams) /\ Len(streams) <= created[c]
    BY <1>1, <2>0, <2>1, <2>4 DEF CreationInv, StreamInv
  <2> QED BY <2>0, <2>1, <2>2, <2>5, StreamsAssumption
<1>2. SessionInv => DataNeedsBothEnds
  BY <1>1 DEF DataNeedsBothEnds
<1> QED BY <1>2, Inductive, PTL

\* The server never takes parameters, results or a cookie for a message, nor a
\* client JSON for a state, although nothing in the stream tells them apart.
THEOREM FramingIsAgreed == Spec => []FramingAgrees
<1>1. ASSUME SessionInv, ServesControl
      PROVE  Head(toServer[ctrl_sck]) \in {"TEST_END", "CLIENT_TERMINATE", "IPERF_DONE", "FIN"}
  <2>1. /\ pc \in {"control", "select"} /\ ctrl_sck \in Clients /\ toServer[ctrl_sck] # <<>>
        /\ toServer[ctrl_sck] \in Seq(Tokens)
        /\ RequestInv /\ CookieInv /\ JsonInv
    BY <1>1
    DEF ServesControl, ControlReadable, SessionInv, IInv, TypeOK, ServerTypeOK, ChannelTypeOK
  <2>2. Has(toServer[ctrl_sck], Head(toServer[ctrl_sck])) /\ Head(toServer[ctrl_sck]) \in Tokens
    BY <2>1, TailHas
  <2>3. /\ ~Has(toServer[ctrl_sck], "COOKIE") /\ ~Has(toServer[ctrl_sck], "PARAMS")
        /\ ~Has(toServer[ctrl_sck], "RESULTS")
    BY <2>1 DEF RequestInv, CookieInv
  <2> QED BY <2>1, <2>2, <2>3 DEF JsonInv
<1>2. ASSUME SessionInv, NEW c \in Clients, cpc[c] = "select", toClient[c] # <<>>
      PROVE  Head(toClient[c]) \notin Json
  <2>1. toClient[c] \in Seq(Tokens) /\ JsonInv
    BY <1>2 DEF SessionInv, IInv, TypeOK, ChannelTypeOK
  <2>2. Has(toClient[c], Head(toClient[c]))
    BY <1>2, <2>1, TailHas
  <2>3. ~Has(toClient[c], "PARAMS") /\ ~Has(toClient[c], "RESULTS")
    BY <1>2, <2>1 DEF JsonInv, Ended
  <2> QED BY <2>2, <2>3 DEF Json
<1>3. SessionInv => FramingAgrees
  BY <1>1, <1>2 DEF FramingAgrees
<1> QED BY <1>3, Inductive, PTL

\* A client that ends well leaves a server that is done with its test: it has
\* gone through EXCHANGE_RESULTS and DISPLAY_RESULTS, or been stopped.
THEOREM FinishedTogether == Spec => []FinishedOnBothEnds
<1>1. SessionInv => FinishedOnBothEnds
  BY DEF SessionInv, FinishInv, Live, Displayed, FinishedOnBothEnds
<1> QED BY <1>1, Inductive, PTL

----------------------------------------------------------------------------
(* The refinement: a session is a call of RunServer.  First, its steps as   *)
(* what they make of the five variables of RunServer.                      *)

\* What the next state is to an embedder.
View(a, s, l, b, w) ==
    /\ RunPlace' = a /\ RunState' = s /\ listener' = l /\ RunBacklog' = b /\ RunSession' = w

\* The steps of RunServer outside select, as what they make of the view.
RunMoves ==
    \/ RunPlace = "enter" /\ View("arm", RunState, "open", RunBacklog, RunSession)
    \/ RunPlace = "enter" /\ View("err", RunState, listener, RunBacklog, RunSession)
    \/ RunPlace = "arm" /\ View("top", "IPERF_START", listener, RunBacklog, RunSession)
    \/ /\ RunPlace = "top"
       /\ View(IF RunState = "IPERF_DONE" THEN "ok" ELSE "select",
               RunState, listener, RunBacklog, RunSession)
    \/ RunPlace \in {"ok", "err"} /\ View("out", RunState, "closed", <<>>, FALSE)

\* Its steps at the listening socket: AcceptShut, AcceptClient, AcceptFails, AcceptDenied.
RunAccepts ==
    /\ RunPlace = "select"
    /\ \/ listener = "shut" /\ View("err", RunState, listener, RunBacklog, RunSession)
       \/ /\ listener = "open" /\ RunBacklog # <<>>
          /\ \/ /\ Head(RunBacklog) = "client" /\ ~RunSession
                /\ View("select", RunState, listener, Tail(RunBacklog), TRUE)
             \/ /\ Head(RunBacklog) = "nudge" /\ ~RunSession
                /\ View("err", RunState, listener, Tail(RunBacklog), TRUE)
             \/ /\ RunSession
                /\ \E p \in {"select", "top", "err"} :
                    View(p, RunState, listener, Tail(RunBacklog), RunSession)

\* Its steps in a session: SessionStores, SessionMessage, SessionFails, SelectTimeout,
\* CloseListener, and those of a socket being replaced.
RunServes ==
    \/ /\ RunPlace = "select" /\ RunSession
       /\ \/ View("select", "ACTIVE", listener, RunBacklog, RunSession)
          \/ \E s \in {"ACTIVE", "IPERF_DONE"} : View("top", s, listener, RunBacklog, RunSession)
          \/ View("err", RunState, listener, RunBacklog, RunSession)
          \/ View("top", RunState, listener, RunBacklog, RunSession)
          \/ View("relisten", RunState, "closed", <<>>, RunSession)
    \/ /\ RunPlace = "relisten"
       /\ \/ View("select", RunState, "open", RunBacklog, RunSession)
          \/ \E s \in {RunState, "ACTIVE"} : View("err", s, listener, RunBacklog, RunSession)

\* Such a view is a step of RunServer.
LEMMA MovesView == ASSUME RunMoves PROVE Run!CallStep("s")
BY DEF View, RunMoves, Run!CallStep, Run!Advance, Run!Listen, Run!ListenFails, Run!Arm, Run!LoopTest,
       Run!Return, Run!Finished

\* The streams of the session are TCP streams: its rounds serve the listening socket
\* in every state.
LEMMA NoUdpStreams == RunState # "UDP_STREAMS"
BY DEF RunState

\* Such a view is an accept of RunServer.
LEMMA AcceptsView == ASSUME RunAccepts PROVE Run!CallStep("s")
BY NoUdpStreams
   DEF View, RunAccepts, Run!CallStep, Run!Advance, Run!AcceptShut, Run!AcceptClient, Run!AcceptFails,
       Run!AcceptDenied, Run!HasConnection, Run!PopBacklog, Run!LooksAtListener

\* Such a view is a step of a session of RunServer.
LEMMA ServesView == ASSUME RunServes PROVE Run!CallStep("s")
BY NoUdpStreams
   DEF View, RunServes, Run!CallStep, Run!Advance, Run!SessionStores, Run!SessionMessage, Run!Testing,
       Run!SessionFails, Run!SelectTimeout, Run!InTest, Run!CloseListener, Run!LooksAtListener,
       Run!Reopen, Run!ReopenFails

\* A view that stays is a stutter.
LEMMA StillView ==
    ASSUME View(RunPlace, RunState, listener, RunBacklog, RunSession)
    PROVE  UNCHANGED Run!serverVars
BY DEF View, Run!serverVars

\* What the embedder and the clients do to the view.
LEMMA OthersView ==
    ASSUME \/ View(RunPlace, "IPERF_DONE", listener, RunBacklog, RunSession)
           \/ /\ TRUE \in ShutdownOutcomes /\ listener = "open"
              /\ View(RunPlace, RunState, "shut", <<>>, RunSession)
           \/ /\ listener = "open" /\ Run!Waiting("s", "client") < Cardinality(Connections)
              /\ View(RunPlace, RunState, listener, Append(RunBacklog, "client"), RunSession)
           \/ /\ listener = "open" /\ Run!Waiting("s", "nudge") < MaxStops + 1
              /\ View(RunPlace, RunState, listener, Append(RunBacklog, "nudge"), RunSession)
    PROVE  Run!CallStep("s")
<1>1. CASE View(RunPlace, "IPERF_DONE", listener, RunBacklog, RunSession)
  BY <1>1 DEF View, Run!CallStep, Run!MarkDone
<1>2. CASE /\ TRUE \in ShutdownOutcomes /\ listener = "open"
           /\ View(RunPlace, RunState, "shut", <<>>, RunSession)
  <2>1. Run!Shutdown("s")
    BY <1>2 DEF View, Run!Shutdown
  <2> QED BY <2>1 DEF Run!CallStep
<1>3. CASE /\ listener = "open" /\ Run!Waiting("s", "client") < Cardinality(Connections)
           /\ View(RunPlace, RunState, listener, Append(RunBacklog, "client"), RunSession)
  <2>1. Run!ClientConnects("s")
    BY <1>3 DEF View, Run!ClientConnects
  <2> QED BY <2>1 DEF Run!CallStep
<1>4. CASE /\ listener = "open" /\ Run!Waiting("s", "nudge") < MaxStops + 1
           /\ View(RunPlace, RunState, listener, Append(RunBacklog, "nudge"), RunSession)
  <2>1. Run!Nudge("s")
    BY <1>4 DEF View, Run!Nudge
  <2> QED BY <2>1 DEF Run!CallStep
<1> QED BY <1>1, <1>2, <1>3, <1>4

\* What a connection is to RunServer.
Kind(k) == IF k = NudgeConnection THEN "nudge" ELSE "client"

\* Where nudges wait in a backlog.
Nudges(q) == {i \in DOMAIN q : q[i] = NudgeConnection}

\* The view of the backlog changes as the backlog does.
LEMMA BacklogView ==
    ASSUME TypeOK
    PROVE  /\ RunBacklog \in Seq({"nudge", "client"}) /\ Len(RunBacklog) = Len(queue)
           /\ queue' = queue => RunBacklog' = RunBacklog
           /\ queue' = <<>> => RunBacklog' = <<>>
           /\ queue # <<>> => RunBacklog # <<>> /\ Head(RunBacklog) = Kind(Head(queue))
           /\ queue # <<>> /\ queue' = Tail(queue) => RunBacklog' = Tail(RunBacklog)
           /\ \A k \in Connections :
                queue' = Append(queue, k) => RunBacklog' = Append(RunBacklog, Kind(k))
<1>1. queue \in Seq(Connections) /\ Len(queue) \in Nat /\ DOMAIN queue = 1 .. Len(queue)
  BY LenProperties DEF TypeOK, ChannelTypeOK
<1>2. /\ RunBacklog \in Seq({"nudge", "client"}) /\ Len(RunBacklog) = Len(queue)
      /\ DOMAIN RunBacklog = 1 .. Len(queue)
      /\ \A i \in 1 .. Len(queue) : RunBacklog[i] = Kind(queue[i])
  BY <1>1 DEF RunBacklog, Kind
<1>3. queue' = queue => RunBacklog' = RunBacklog
  BY DEF RunBacklog
<1>4. queue' = <<>> => RunBacklog' = <<>>
  <2> SUFFICES ASSUME queue' = <<>> PROVE RunBacklog' = <<>>
    OBVIOUS
  <2>1. RunBacklog' = [i \in DOMAIN <<>> |-> IF <<>>[i] = NudgeConnection THEN "nudge" ELSE "client"]
    BY DEF RunBacklog
  <2> QED BY <2>1
<1>5. ASSUME queue # <<>>
      PROVE  /\ RunBacklog # <<>> /\ Head(RunBacklog) = Kind(Head(queue))
             /\ queue' = Tail(queue) => RunBacklog' = Tail(RunBacklog)
  <2>1. /\ Len(queue) \in Nat \ {0} /\ Head(queue) = queue[1]
        /\ DOMAIN Tail(queue) = 1 .. Len(queue) - 1
        /\ \A i \in 1 .. Len(queue) - 1 : i + 1 \in 1 .. Len(queue) /\ Tail(queue)[i] = queue[i + 1]
    BY <1>5, HeadTyped
  <2>2. 1 \in 1 .. Len(queue)
    BY <2>1
  <2>3. RunBacklog # <<>> /\ Head(RunBacklog) = RunBacklog[1]
    BY <1>2, <2>1, HeadTailProperties, EmptySeq
  <2>4. ASSUME queue' = Tail(queue) PROVE RunBacklog' = Tail(RunBacklog)
    <3>1. /\ Tail(RunBacklog) \in Seq({"nudge", "client"}) /\ Len(Tail(RunBacklog)) = Len(queue) - 1
          /\ \A i \in 1 .. Len(queue) - 1 : Tail(RunBacklog)[i] = RunBacklog[i + 1]
      BY <1>2, <2>3, HeadTailProperties
    <3>2. queue' \in Seq(Connections) /\ Len(queue') = Len(queue) - 1 /\ DOMAIN queue' = 1 .. Len(queue) - 1
      BY <2>1, <2>4, <1>1, <1>5, HeadTailProperties
    <3>3. /\ RunBacklog' \in Seq({"nudge", "client"}) /\ Len(RunBacklog') = Len(queue) - 1
          /\ \A i \in 1 .. Len(queue) - 1 : RunBacklog'[i] = Kind(queue[i + 1])
      BY <2>1, <2>4, <3>2 DEF RunBacklog, Kind
    <3>4. \A i \in 1 .. Len(queue) - 1 : RunBacklog'[i] = Tail(RunBacklog)[i]
      BY <3>1, <3>3, <2>1, <1>2
    <3> QED BY <3>1, <3>3, <3>4, SeqEqual
  <2> QED BY <2>2, <2>3, <2>4, <1>2, <2>1
<1>6. ASSUME NEW k \in Connections, queue' = Append(queue, k)
      PROVE  RunBacklog' = Append(RunBacklog, Kind(k))
  <2>1. /\ Append(queue, k) \in Seq(Connections) /\ Len(Append(queue, k)) = Len(queue) + 1
        /\ \A i \in 1 .. Len(queue) : Append(queue, k)[i] = queue[i]
        /\ Append(queue, k)[Len(queue) + 1] = k
        /\ DOMAIN Append(queue, k) = 1 .. Len(queue) + 1
    BY <1>1, AppendProperties, LenProperties
  <2>2. Kind(k) \in {"nudge", "client"}
    BY DEF Kind
  <2>3. /\ Append(RunBacklog, Kind(k)) \in Seq({"nudge", "client"})
        /\ Len(Append(RunBacklog, Kind(k))) = Len(queue) + 1
        /\ \A i \in 1 .. Len(queue) : Append(RunBacklog, Kind(k))[i] = RunBacklog[i]
        /\ Append(RunBacklog, Kind(k))[Len(queue) + 1] = Kind(k)
    BY <1>2, <2>2, AppendProperties
  <2>4. Len(queue) + 1 \in Nat
    BY <1>1
  <2>5. /\ RunBacklog' \in Seq({"nudge", "client"}) /\ Len(RunBacklog') = Len(queue) + 1
        /\ \A i \in 1 .. Len(queue) + 1 : RunBacklog'[i] = Kind(Append(queue, k)[i])
    BY <1>6, <2>1, <2>4 DEF RunBacklog, Kind
  <2>6. \A i \in 1 .. Len(queue) + 1 : i \in 1 .. Len(queue) \/ i = Len(queue) + 1
    BY <1>1
  <2>7. \A i \in 1 .. Len(queue) + 1 : RunBacklog'[i] = Append(RunBacklog, Kind(k))[i]
    BY <2>1, <2>3, <2>5, <2>6, <1>2
  <2> QED BY <2>3, <2>5, <2>7, SeqEqual
<1> QED BY <1>2, <1>3, <1>4, <1>5, <1>6

----------------------------------------------------------------------------
(* What the mapping rests on besides the inductive invariant.              *)

\* Where the view says there is a session, and where there cannot be one: a stale
\* control descriptor ends the call, CREATE_STREAMS and the timer are a client's.
PeerInv ==
    /\ "ctrl_sck" \in stale => pc \in {"err", "out"}
    /\ state = "CREATE_STREAMS" /\ ctrl_sck = None => dead \/ pc = "out"
    /\ timer => ctrl_sck # None \/ dead

\* A client's control connection waits in the backlog at most once.
DialInv ==
    \A c \in Clients :
        /\ Once(queue, Control(c))
        /\ cpc[c] = "idle" => ~Has(queue, Control(c))

\* Each nudge that waits belongs to a stop of its own.
NudgeInv == Cardinality(Nudges(queue)) + (IF stop = "idle" THEN 0 ELSE 1) <= stops

\* What the refinement rests on.
ViewInv == SessionInv /\ PeerInv /\ DialInv /\ NudgeInv

\* PeerInv is preserved.
LEMMA PeerStep ==
    ASSUME IInv, PeerInv, [Next]_vars
    PROVE  PeerInv'
<1>0. TypeOK /\ PlaceInv /\ ctrl_sck \in Clients \cup {None} /\ None \notin Clients
      /\ pc \in Places /\ timer \in BOOLEAN /\ dead \in BOOLEAN /\ stale \subseteq {"ctrl_sck", "streams", "listener"}
  BY ClientsAssumption DEF IInv, TypeOK, ServerTypeOK
<1>1. CASE ServerMoves
  <2>1. ServerStep
    BY <1>1 DEF ServerMoves
  <2> USE DEF PeerInv, testVars, controlVars
  <2>2. CASE Listen \/ ListenFails \/ Arm \/ LoopTest \/ BadDescriptor
    BY <2>2, <1>0 DEF Listen, ListenFails, Arm, LoopTest, BadDescriptor, PlaceInv
  <2>3. CASE AcceptClient
    <3>1. Head(queue) \in Connections /\ Head(queue) # NudgeConnection
      BY <2>3, <1>0, HeadTyped DEF AcceptClient, Accepts, ServesListener, ListenerReadable
    <3>2. Head(queue)[1] \in Clients
      BY <3>1, ConnectionsTyped
    <3> QED BY <2>3, <3>2, <1>0 DEF AcceptClient, Accepts, ServesListener
  <2>4. CASE AcceptNudge \/ AcceptDenied \/ AcceptShut
    BY <2>4, <1>0 DEF AcceptNudge, AcceptDenied, AcceptShut, Accepts, ServesListener
  <2>5. CASE GetCookie \/ GetParameters \/ HandshakeFails \/ CloseListener \/ Relisten
    BY <2>5, <1>0 DEF GetCookie, GetParameters, HandshakeFails, CloseListener, Relisten, PlaceInv, Talking
  <2>6. CASE AskForStreams \/ ProtocolListenFails
    BY <2>6, <1>0 DEF AskForStreams, ProtocolListenFails, PlaceInv, Talking
  <2>7. CASE ReadDone \/ ReadMessage \/ ReadNonsense
    BY <2>7, <1>0 DEF ReadDone, ReadMessage, ReadNonsense, ServesControl, ControlReadable
  <2>8. CASE EndTest \/ ExchangeResults \/ ResultsFail \/ ClientTerminated \/ Overtaken
    BY <2>8, <1>0
    DEF EndTest, ExchangeResults, ResultsFail, ClientTerminated, Overtaken, PlaceInv, Talking
  <2>9. CASE AcceptStream \/ AcceptStranger \/ StreamFails
    BY <2>9, <1>0 DEF AcceptStream, AcceptStranger, StreamFails, ServesStream, ServesListener
  <2>10. CASE RenewListener \/ ReopenListener \/ ReopenFails \/ StartTest \/ RunTest \/ StartFails
    BY <2>10, <1>0
    DEF RenewListener, ReopenListener, ReopenFails, StartTest, RunTest, StartFails, PlaceInv, Talking
  <2>11. CASE Cleanup \/ RcvTimeout \/ ConnectionBreaks
    BY <2>11, <1>0 DEF Cleanup, RcvTimeout, ConnectionBreaks, ServesControl
  <2>12. CASE ServerTimer
    BY <2>12, <1>0 DEF ServerTimer, Idle
  <2> QED
    BY <2>1, <2>2, <2>3, <2>4, <2>5, <2>6, <2>7, <2>8, <2>9, <2>10, <2>11, <2>12
    DEF ServerStep, Handshake, Messages, CreateStreams
<1>2. CASE MarkDone
  BY <1>2 DEF MarkDone, PeerInv, controlVars
<1>3. ASSUME UNCHANGED serverVars PROVE PeerInv'
  BY <1>3 DEF PeerInv, serverVars, testVars, controlVars
<1> QED BY <1>0, <1>1, <1>2, <1>3, NextCases DEF Shutdown, Nudge, vars

\* DialInv is preserved.
LEMMA DialStep ==
    ASSUME IInv, DialInv, [Next]_vars
    PROVE  DialInv'
<1>0. TypeOK /\ queue \in Seq(Connections)
      /\ cpc \in [Clients -> {"idle", "dialled", "select", "creating", "results"} \cup Ended]
  BY DEF IInv, TypeOK, ChannelTypeOK, ClientTypeOK
<1>1. ASSUME queue' = queue \/ queue' = <<>> \/ (queue # <<>> /\ queue' = Tail(queue)),
             \A c \in Clients : cpc'[c] = "idle" => cpc[c] = "idle"
      PROVE  DialInv'
  <2>1. CASE queue' = queue
    BY <1>1, <2>1 DEF DialInv
  <2>2. CASE queue' = <<>>
    BY <2>2 DEF DialInv, Has, Once
  <2>3. CASE queue # <<>> /\ queue' = Tail(queue)
    <3>1. /\ \A x : Has(Tail(queue), x) => Has(queue, x)
          /\ \A x : Once(queue, x) => Once(Tail(queue), x)
      BY <2>3, <1>0, TailHas
    <3> QED BY <1>1, <2>3, <3>1 DEF DialInv
  <2> QED BY <1>1, <2>1, <2>2, <2>3
<1>2. ASSUME NEW k \in Connections, queue' = Append(queue, k),
             \A c \in Clients : cpc'[c] = "idle" => cpc[c] = "idle" /\ k # Control(c),
             \A c \in Clients : k = Control(c) => ~Has(queue, Control(c))
      PROVE  DialInv'
  <2>1. queue' = queue \o <<k>>
    BY <1>0, <1>2, AppendIsConcat
  <2>2. <<k>> \in Seq(Connections) /\ \A x : (Has(<<k>>, x) <=> x = k) /\ Once(<<k>>, x)
    BY OneTokenHas
  <2>3. /\ \A x : Has(queue', x) <=> Has(queue, x) \/ Has(<<k>>, x)
        /\ \A x : Once(queue, x) /\ Once(<<k>>, x) /\ ~(Has(queue, x) /\ Has(<<k>>, x)) => Once(queue', x)
    BY <1>0, <2>1, <2>2, ConcatHas
  <2> QED BY <1>2, <2>2, <2>3 DEF DialInv
<1>3. CASE ServerMoves
  <2>1. queue' = queue \/ queue' = <<>> \/ (queue # <<>> /\ queue' = Tail(queue))
    BY <1>3, ServerQueue DEF ServerMoves
  <2> QED BY <1>1, <1>3, <2>1 DEF ServerMoves, clientVars
<1>4. CASE MarkDone \/ Shutdown \/ UNCHANGED vars
  BY <1>1, <1>4 DEF MarkDone, Shutdown, vars, channelVars, clientVars
<1>5. CASE Nudge
  <2>1. NudgeConnection \in Connections /\ \A c \in Clients : NudgeConnection # Control(c)
    BY ClientsAssumption DEF NudgeConnection, Connections, Control
  <2> QED BY <1>1, <1>2, <1>5, <2>1 DEF Nudge, clientVars
<1>6. ASSUME NEW c \in Clients, ClientMoves(c) PROVE DialInv'
  <2>1. CASE Dial(c)
    <3>1. \A d \in Clients : cpc'[d] = "idle" => cpc[d] = "idle" /\ d # c
      BY <2>1, <1>0 DEF Dial, Goto
    <3>2. Control(c) \in Connections /\ \A d \in Clients : Control(c) = Control(d) => c = d
      BY StreamsAssumption DEF Control, Connections
    <3>3. ~Has(queue, Control(c))
      BY <2>1 DEF Dial, DialInv
    <3>4. queue' = queue \/ queue' = Append(queue, Control(c))
      BY <2>1 DEF Dial
    <3>5. CASE queue' = queue
      BY <1>1, <3>1, <3>5
    <3>6. CASE queue' = Append(queue, Control(c))
      <4>1. \A d \in Clients : cpc'[d] = "idle" => cpc[d] = "idle" /\ Control(c) # Control(d)
        BY <3>1, <3>2
      <4>2. \A d \in Clients : Control(c) = Control(d) => ~Has(queue, Control(d))
        BY <3>2, <3>3
      <4> QED BY <1>2, <3>2, <3>6, <4>1, <4>2
    <3> QED BY <3>4, <3>5, <3>6
  <2>2. CASE ConnectStream(c)
    <3>1. TypeOK'
      BY TypeStep
    <3>2. created[c] \in Nat /\ created'[c] = created[c] + 1 /\ created'[c] \in 0 .. 2 * NumStreams
      <4>1. created \in [Clients -> 0 .. 2 * NumStreams] /\ created' \in [Clients -> 0 .. 2 * NumStreams]
        BY <1>0, <3>1 DEF TypeOK, ClientTypeOK
      <4>2. created' = [created EXCEPT ![c] = created[c] + 1]
        BY <2>2 DEF ConnectStream
      <4> QED BY <4>1, <4>2, StreamsAssumption
    <3>3. Stream(c, created'[c]) \in Connections
      BY <3>2 DEF Stream, Connections
    <3>4. \A d \in Clients : Stream(c, created'[c]) # Control(d)
      BY <3>2 DEF Stream, Control
    <3>5. \A d \in Clients : cpc'[d] = "idle" => cpc[d] = "idle"
      BY <2>2, <1>0 DEF ConnectStream, Goto
    <3>6. queue' = Append(queue, Stream(c, created'[c]))
      BY <2>2 DEF ConnectStream
    <3> QED BY <1>2, <3>3, <3>4, <3>5, <3>6
  <2>3. CASE ~Dial(c) /\ ~ConnectStream(c)
    <3>1. queue' = queue /\ \A d \in Clients : cpc'[d] = "idle" => cpc[d] = "idle"
      BY <1>6, <2>3, <1>0
      DEF ClientMoves, ClientStep, SendCookie, SendParameters, HearCreateStreams,
          HearTestStart, HearTestRunning, EndOfTest, SendResults, GetResults, HearDisplayResults,
          HearEnd, Fails, CleanupAndFail, Killed, GoesSilent, Goto, channelVars
    <3> QED BY <1>1, <3>1
  <2> QED BY <2>1, <2>2, <2>3
<1> QED BY <1>0, <1>3, <1>4, <1>5, <1>6, NextCases

\* How many nudges wait, after each change of the backlog.
LEMMA NudgesCounted ==
    ASSUME TypeOK
    PROVE  /\ IsFiniteSet(Nudges(queue)) /\ Cardinality(Nudges(queue)) \in Nat
           /\ queue' = queue => Cardinality(Nudges(queue')) = Cardinality(Nudges(queue))
           /\ queue' = <<>> => Cardinality(Nudges(queue')) = 0
           /\ queue # <<>> /\ queue' = Tail(queue) =>
                /\ Cardinality(Nudges(queue')) \in Nat
                /\ Cardinality(Nudges(queue')) <= Cardinality(Nudges(queue))
           /\ \A k \in Connections : queue' = Append(queue, k) =>
                Cardinality(Nudges(queue')) = IF k = NudgeConnection THEN Cardinality(Nudges(queue)) + 1
                                              ELSE Cardinality(Nudges(queue))
<1>1. queue \in Seq(Connections) /\ Len(queue) \in Nat /\ DOMAIN queue = 1 .. Len(queue)
  BY LenProperties DEF TypeOK, ChannelTypeOK
<1>2. IsFiniteSet(Nudges(queue)) /\ Cardinality(Nudges(queue)) \in Nat
  <2>1. IsFiniteSet(1 .. Len(queue))
    BY <1>1, FS_Interval
  <2>2. Nudges(queue) \in SUBSET (1 .. Len(queue))
    BY <1>1 DEF Nudges
  <2> QED BY <2>1, <2>2, FS_Subset, FS_CardinalityType
<1>3. ASSUME queue' = <<>> PROVE Cardinality(Nudges(queue')) = 0
  <2>1. Nudges(queue') = {}
    BY <1>3 DEF Nudges
  <2> QED BY <2>1, FS_EmptySet
<1>4. ASSUME queue # <<>>, queue' = Tail(queue)
      PROVE  /\ Cardinality(Nudges(queue')) \in Nat
             /\ Cardinality(Nudges(queue')) <= Cardinality(Nudges(queue))
  <2> DEFINE next == [i \in Nudges(queue') |-> i + 1]
  <2>1. /\ DOMAIN queue' = 1 .. Len(queue) - 1
        /\ \A i \in 1 .. Len(queue) - 1 : i + 1 \in 1 .. Len(queue) /\ queue'[i] = queue[i + 1]
    BY <1>4, HeadTyped
  <2>2. \A i \in Nudges(queue') : i \in Nat /\ i + 1 \in Nudges(queue)
    BY <2>1, <1>1 DEF Nudges
  <2>3. next \in [Nudges(queue') -> Nudges(queue)] /\ \A i, j \in Nudges(queue') : next[i] = next[j] => i = j
    BY <2>2
  <2> HIDE DEF next
  <2>4. next \in Injection(Nudges(queue'), Nudges(queue))
    BY <2>3 DEF Injection, IsInjective
  <2> QED BY <2>4, <1>2, FS_Injection, FS_CardinalityType
<1>5. ASSUME NEW k \in Connections, queue' = Append(queue, k)
      PROVE  Cardinality(Nudges(queue')) = IF k = NudgeConnection THEN Cardinality(Nudges(queue)) + 1
                                           ELSE Cardinality(Nudges(queue))
  <2>1. /\ DOMAIN queue' = 1 .. Len(queue) + 1 /\ queue'[Len(queue) + 1] = k
        /\ \A i \in 1 .. Len(queue) : queue'[i] = queue[i]
    BY <1>1, <1>5, AppendProperties, LenProperties
  <2>2. \A i : i \in 1 .. Len(queue) + 1 <=> i \in 1 .. Len(queue) \/ i = Len(queue) + 1
    BY <1>1
  <2>3. Len(queue) + 1 \notin Nudges(queue)
    BY <1>1 DEF Nudges
  <2>4. Nudges(queue') = IF k = NudgeConnection THEN Nudges(queue) \cup {Len(queue) + 1} ELSE Nudges(queue)
    BY <2>1, <2>2, <1>1 DEF Nudges
  <2> QED BY <2>3, <2>4, <1>2, FS_AddElement
<1>6. queue' = queue => Nudges(queue') = Nudges(queue)
  OBVIOUS
<1> QED BY <1>2, <1>3, <1>4, <1>5, <1>6

\* NudgeInv is preserved.
LEMMA NudgeStep ==
    ASSUME IInv, NudgeInv, [Next]_vars
    PROVE  NudgeInv'
<1>0. /\ TypeOK /\ stops \in Nat /\ Cardinality(Nudges(queue)) \in Nat
      /\ stop \in {"idle", "shutdown", "nudge"}
  BY SessionAssumption, NudgesCounted DEF IInv, TypeOK
<1>1. ASSUME queue' = queue \/ queue' = <<>> \/ (queue # <<>> /\ queue' = Tail(queue)),
             \/ stop' = stop /\ stops' = stops
             \/ stop = "idle" /\ stop' = "shutdown" /\ stops' = stops + 1
             \/ stop = "shutdown" /\ stop' = "nudge" /\ stops' = stops
      PROVE  NudgeInv'
  <2>1. Cardinality(Nudges(queue')) \in Nat /\ Cardinality(Nudges(queue')) <= Cardinality(Nudges(queue))
    BY <1>0, <1>1, NudgesCounted
  <2>2. Cardinality(Nudges(queue))' = Cardinality(Nudges(queue'))
    OBVIOUS
  <2> QED BY <1>0, <1>1, <2>1, <2>2 DEF NudgeInv
<1>2. ASSUME NEW k \in Connections, k # NudgeConnection, queue' = Append(queue, k), UNCHANGED <<stop, stops>>
      PROVE  NudgeInv'
  <2>1. Cardinality(Nudges(queue')) = Cardinality(Nudges(queue))
    BY <1>0, <1>2, NudgesCounted
  <2> QED BY <1>2, <2>1 DEF NudgeInv
<1>3. CASE ServerMoves
  <2>1. queue' = queue \/ queue' = <<>> \/ (queue # <<>> /\ queue' = Tail(queue))
    BY <1>3, ServerQueue DEF ServerMoves
  <2> QED BY <1>1, <1>3, <2>1 DEF ServerMoves
<1>4. CASE MarkDone \/ Shutdown \/ UNCHANGED vars
  BY <1>1, <1>4 DEF MarkDone, Shutdown, vars, channelVars
<1>5. CASE Nudge
  <2>1. NudgeConnection \in Connections /\ stop = "nudge" /\ stop' = "idle" /\ stops' = stops
        /\ (queue' = queue \/ queue' = Append(queue, NudgeConnection))
    BY <1>5 DEF Nudge, Connections
  <2>2. Cardinality(Nudges(queue')) \in Nat /\ Cardinality(Nudges(queue')) <= Cardinality(Nudges(queue)) + 1
    BY <2>1, <1>0, NudgesCounted
  <2> QED BY <1>0, <2>1, <2>2 DEF NudgeInv
<1>6. ASSUME NEW c \in Clients, ClientMoves(c), UNCHANGED <<serverVars, stop, stops>> PROVE NudgeInv'
  <2>1. CASE Dial(c)
    <3>1. Control(c) \in Connections /\ Control(c) # NudgeConnection
      BY StreamsAssumption, ClientsAssumption DEF Control, Connections, NudgeConnection
    <3> QED BY <1>1, <1>2, <1>6, <2>1, <3>1 DEF Dial
  <2>2. CASE ConnectStream(c)
    <3>1. TypeOK'
      BY TypeStep
    <3>2. created'[c] \in 0 .. 2 * NumStreams
      BY <3>1 DEF TypeOK, ClientTypeOK
    <3>3. Stream(c, created'[c]) \in Connections /\ Stream(c, created'[c]) # NudgeConnection
      BY <3>2, ClientsAssumption DEF Stream, Connections, NudgeConnection
    <3>4. queue' = Append(queue, Stream(c, created'[c]))
      BY <2>2 DEF ConnectStream
    <3> QED BY <1>2, <1>6, <3>3, <3>4
  <2>3. CASE ~Dial(c) /\ ~ConnectStream(c)
    <3>1. queue' = queue
      BY <1>6, <2>3
      DEF ClientMoves, ClientStep, SendCookie, SendParameters, HearCreateStreams,
          HearTestStart, HearTestRunning, EndOfTest, SendResults, GetResults, HearDisplayResults,
          HearEnd, Fails, CleanupAndFail, Killed, GoesSilent, Goto, channelVars
    <3> QED BY <1>1, <1>6, <3>1
  <2> QED BY <2>1, <2>2, <2>3
<1> QED BY <1>0, <1>3, <1>4, <1>5, <1>6, NextCases

\* What RunServer counts in its backlog is what the view of the backlog holds.
LEMMA WaitingView ==
    ASSUME NEW kind
    PROVE  Run!Waiting("s", kind) = Cardinality({i \in DOMAIN RunBacklog : RunBacklog[i] = kind})
<1> DEFINE b == [w \in {"s"} |-> RunBacklog]
<1>1. b["s"] = RunBacklog
  OBVIOUS
<1>2. ASSUME NEW S PROVE Run!Cardinality(S) = Cardinality(S)
  BY DEF Run!Cardinality, Cardinality
<1>3. Run!Waiting("s", kind) = Run!Cardinality({i \in DOMAIN b["s"] : b["s"][i] = kind})
  BY Zenon DEF Run!Waiting
<1> HIDE DEF b
<1> QED BY <1>1, <1>2, <1>3

\* A nudge finds room within the bound of RunServer.
LEMMA RoomForNudge ==
    ASSUME TypeOK, NudgeInv, stop = "nudge"
    PROVE  Run!Waiting("s", "nudge") < MaxStops + 1
<1>1. Run!Waiting("s", "nudge") = Cardinality({i \in DOMAIN RunBacklog : RunBacklog[i] = "nudge"})
  BY WaitingView
<1>2. {i \in DOMAIN RunBacklog : RunBacklog[i] = "nudge"} = Nudges(queue)
  BY DEF RunBacklog, Nudges
<1>3. Cardinality(Nudges(queue)) \in Nat /\ stops \in 0 .. MaxStops
  BY NudgesCounted DEF TypeOK
<1> QED BY <1>1, <1>2, <1>3, SessionAssumption DEF NudgeInv

\* A connection that is not in the backlog finds fewer there than there are.
LEMMA RoomForClient ==
    ASSUME TypeOK, DialInv, QueueInv,
           NEW k \in Connections, k # NudgeConnection, ~Has(queue, k)
    PROVE  Run!Waiting("s", "client") < Cardinality(Connections)
<1> DEFINE W == {i \in DOMAIN queue : queue[i] # NudgeConnection}
           f == [i \in W |-> queue[i]]
<1>1. Run!Waiting("s", "client") = Cardinality({i \in DOMAIN RunBacklog : RunBacklog[i] = "client"})
  BY WaitingView
<1>2. {i \in DOMAIN RunBacklog : RunBacklog[i] = "client"} = W
  BY DEF RunBacklog
<1>3. IsFiniteSet(Connections)
  <2>1. IsFiniteSet(0 .. 2 * NumStreams)
    BY StreamsAssumption, FS_Interval
  <2>2. IsFiniteSet(Clients \X (0 .. 2 * NumStreams))
    BY <2>1, SessionAssumption, FS_Product
  <2>3. IsFiniteSet((Clients \X (0 .. 2 * NumStreams)) \cup {NudgeConnection})
    BY <2>2, FS_AddElement
  <2> QED BY <2>3 DEF Connections
<1>4. IsFiniteSet(Connections \ {k}) /\ Cardinality(Connections \ {k}) = Cardinality(Connections) - 1
      /\ Cardinality(Connections) \in Nat /\ Cardinality(Connections \ {k}) \in Nat
  BY <1>3, FS_RemoveElement, FS_CardinalityType
<1>5. queue \in Seq(Connections) /\ Len(queue) \in Nat /\ DOMAIN queue = 1 .. Len(queue)
      /\ \A i \in DOMAIN queue : queue[i] \in Connections
  BY LenProperties, ElementOfSeq DEF TypeOK, ChannelTypeOK
<1>6. f \in [W -> Connections \ {k}]
  BY <1>5 DEF Has
<1>7. ASSUME NEW i \in W, NEW j \in W, queue[i] = queue[j] PROVE i = j
  <2>1. /\ queue[i] \in Connections /\ queue[i] # NudgeConnection
        /\ i \in 1 .. Len(queue) /\ j \in 1 .. Len(queue)
    BY <1>5
  <2>2. queue[i][1] \in Clients /\ queue[i] = <<queue[i][1], queue[i][2]>> /\ queue[i][2] \in 0 .. 2 * NumStreams
    BY <2>1, ConnectionsTyped
  <2>3. CASE queue[i][2] = 0
    <3>1. queue[i] = Control(queue[i][1])
      BY <2>2, <2>3 DEF Control
    <3> QED BY <3>1, <2>2, <1>7 DEF DialInv, Once
  <2>4. CASE queue[i][2] # 0
    <3>1. queue[i][2] > 0 /\ queue[i][2] \in Nat
      BY <2>2, <2>4, StreamsAssumption
    <3>2. ~(i < j) /\ ~(j < i)
      BY <3>1, <1>7 DEF QueueInv
    <3> QED BY <3>2, <2>1
  <2> QED BY <2>3, <2>4
<1>8. f \in Injection(W, Connections \ {k})
  <2>1. \A i, j \in W : f[i] = f[j] => i = j
    BY <1>7
  <2> HIDE DEF f, W
  <2> QED BY <1>6, <2>1 DEF Injection, IsInjective
<1>9. Cardinality(W) \in Nat /\ Cardinality(W) <= Cardinality(Connections \ {k})
  <2> HIDE DEF f, W
  <2> QED BY <1>4, <1>8, FS_Injection, FS_CardinalityType
<1> HIDE DEF W
<1> QED BY <1>1, <1>2, <1>4, <1>9

----------------------------------------------------------------------------
(* Each step of the session is a step of the call.                         *)

\* A step of the server is a step of RunServer, or none.
Runs == \/ RunMoves \/ RunAccepts \/ RunServes
        \/ View(RunPlace, RunState, listener, RunBacklog, RunSession)

\* iperf_accept.
LEMMA HandshakeRuns ==
    ASSUME SessionInv, PeerInv, Handshake
    PROVE  Runs
<1> USE DEF View
<1>0. /\ TypeOK /\ PlaceInv /\ ctrl_sck \in Clients \cup {None} /\ None \notin Clients
      /\ pc \in Places /\ dead \in BOOLEAN
      /\ queue' = queue => RunBacklog' = RunBacklog
      /\ queue' = <<>> => RunBacklog' = <<>>
      /\ queue # <<>> => RunBacklog # <<>> /\ Head(RunBacklog) = Kind(Head(queue))
      /\ queue # <<>> /\ queue' = Tail(queue) => RunBacklog' = Tail(RunBacklog)
  BY BacklogView, ClientsAssumption DEF SessionInv, IInv, TypeOK, ServerTypeOK
<1>1. CASE AcceptClient
  <2>1. /\ Head(queue) \in Connections /\ Head(queue) # NudgeConnection
        /\ pc = "select" /\ ~dead /\ ctrl_sck = None /\ listener = "open" /\ queue # <<>>
    BY <1>1, <1>0, HeadTyped DEF AcceptClient, Accepts, ServesListener, ListenerReadable
  <2>2. ctrl_sck' \in Clients
    BY <1>1, <2>1, ConnectionsTyped DEF AcceptClient
  <2>3. RunPlace = "select" /\ ~RunSession /\ RunPlace' = "select" /\ RunSession' = TRUE
    BY <1>1, <2>1, <2>2, <1>0 DEF AcceptClient, RunPlace, RunSession, PeerInv
  <2>4. /\ RunState' = RunState /\ listener' = listener
        /\ RunBacklog # <<>> /\ Head(RunBacklog) = "client" /\ RunBacklog' = Tail(RunBacklog)
    BY <1>1, <2>1, <1>0 DEF AcceptClient, RunState, Kind
  <2>5. RunAccepts
    BY <2>1, <2>3, <2>4 DEF RunAccepts
  <2> QED BY <2>5 DEF Runs
<1>2. CASE AcceptNudge
  <2>1. pc = "select" /\ ~dead /\ ctrl_sck = None /\ listener = "open" /\ queue # <<>>
    BY <1>2 DEF AcceptNudge, Accepts, ServesListener, ListenerReadable
  <2>2. RunPlace = "select" /\ ~RunSession /\ RunPlace' = "err" /\ RunSession' = TRUE
    BY <1>2, <2>1, <1>0 DEF AcceptNudge, RunPlace, RunSession, PeerInv
  <2>3. /\ RunState' = RunState /\ listener' = listener
        /\ RunBacklog # <<>> /\ Head(RunBacklog) = "nudge" /\ RunBacklog' = Tail(RunBacklog)
    BY <1>2, <2>1, <1>0 DEF AcceptNudge, RunState, Kind
  <2>4. RunAccepts
    BY <2>1, <2>2, <2>3 DEF RunAccepts
  <2> QED BY <2>4 DEF Runs
<1>3. CASE AcceptDenied
  <2>1. pc = "select" /\ ctrl_sck # None /\ listener = "open" /\ queue # <<>>
    BY <1>3 DEF AcceptDenied, Accepts, ServesListener, ListenerReadable
  <2>2. RunPlace = "select" /\ RunSession = TRUE /\ RunPlace' \in {"select", "top", "err"} /\ RunSession' = TRUE
    BY <1>3, <2>1, <1>0 DEF AcceptDenied, RunPlace, RunSession, controlVars, testVars
  <2>3. RunState' = RunState /\ listener' = listener /\ RunBacklog # <<>> /\ RunBacklog' = Tail(RunBacklog)
    BY <1>3, <2>1, <1>0 DEF AcceptDenied, RunState
  <2>4. RunAccepts
    BY <2>1, <2>2, <2>3 DEF RunAccepts
  <2> QED BY <2>4 DEF Runs
<1>4. CASE AcceptShut
  BY <1>4, <1>0
  DEF AcceptShut, ServesListener, RunPlace, RunState, RunSession, controlVars, testVars,
      channelVars, RunAccepts, Runs
<1>5. CASE GetCookie \/ GetParameters \/ HandshakeFails \/ CloseListener \/ Relisten
           \/ AskForStreams \/ ProtocolListenFails
  <2>1. /\ pc \in {"cookie", "params", "relisten", "listening"} /\ RunSession = TRUE
        /\ pc \notin {"relisten", "reopen"} => RunPlace = "select"
        /\ pc \in {"relisten", "reopen"} => RunPlace = "relisten"
    BY <1>5, <1>0
    DEF GetCookie, GetParameters, HandshakeFails, CloseListener, Relisten, AskForStreams,
        ProtocolListenFails, PlaceInv, Talking, RunPlace, RunSession
  <2>2. CASE GetCookie
    BY <2>1, <2>2, <1>0
    DEF GetCookie, RunPlace, RunState, RunSession, controlVars, testVars, RunServes, Runs
  <2>3. CASE GetParameters
    BY <2>1, <2>3, <1>0
    DEF GetParameters, RunPlace, RunState, RunSession, controlVars, testVars, Runs
  <2>4. CASE HandshakeFails
    BY <2>1, <2>4, <1>0
    DEF HandshakeFails, RunPlace, RunState, RunSession, testVars, channelVars, RunServes, Runs
  <2>5. CASE CloseListener
    BY <2>1, <2>5, <1>0
    DEF CloseListener, RunPlace, RunState, RunSession, testVars, RunServes, Runs
  <2>6. CASE Relisten
    BY <2>1, <2>6, <1>0
    DEF Relisten, RunPlace, RunState, RunSession, controlVars, testVars, RunServes, Runs
  <2>7. CASE AskForStreams
    BY <2>1, <2>7, <1>0
    DEF AskForStreams, RunPlace, RunState, RunSession, controlVars, testVars, RunServes, Runs
  <2>8. CASE ProtocolListenFails
    BY <2>1, <2>8, <1>0
    DEF ProtocolListenFails, RunPlace, RunState, RunSession, testVars, RunServes, Runs
  <2> QED BY <1>5, <2>2, <2>3, <2>4, <2>5, <2>6, <2>7, <2>8
<1> QED BY <1>1, <1>2, <1>3, <1>4, <1>5 DEF Handshake

\* iperf_handle_message_server.
LEMMA MessagesRun ==
    ASSUME SessionInv, PeerInv, Messages
    PROVE  Runs
<1> USE DEF View
<1>0. /\ TypeOK /\ PlaceInv /\ ctrl_sck \in Clients \cup {None} /\ None \notin Clients
      /\ pc \in Places /\ dead \in BOOLEAN
      /\ queue' = queue => RunBacklog' = RunBacklog
  BY BacklogView, ClientsAssumption DEF SessionInv, IInv, TypeOK, ServerTypeOK
<1>1. RunPlace = "select" /\ RunSession = TRUE /\ pc # "out"
  BY <1>0
  DEF Messages, ReadDone, ReadMessage, ReadNonsense, EndTest, ExchangeResults, ResultsFail,
      ClientTerminated, Overtaken, ServesControl, ControlReadable, PlaceInv, Talking,
      RunPlace, RunSession
<1>2. RunServes
  <2> USE <1>0, <1>1 DEF RunState, controlVars, testVars, channelVars, RunServes
  <2>1. CASE ReadDone
    BY <2>1 DEF ReadDone, RunPlace, RunSession
  <2>2. CASE ReadMessage
    BY <2>2 DEF ReadMessage, RunPlace, RunSession
  <2>3. CASE ReadNonsense
    BY <2>3 DEF ReadNonsense, RunPlace, RunSession
  <2>4. CASE EndTest
    BY <2>4 DEF EndTest, RunPlace, RunSession
  <2>5. CASE ExchangeResults
    BY <2>5 DEF ExchangeResults, RunPlace, RunSession
  <2>6. CASE ResultsFail
    BY <2>6 DEF ResultsFail, RunPlace, RunSession
  <2>7. CASE ClientTerminated
    BY <2>7 DEF ClientTerminated, RunPlace, RunSession
  <2>8. CASE Overtaken
    BY <2>8 DEF Overtaken, RunPlace, RunSession
  <2> QED BY <2>1, <2>2, <2>3, <2>4, <2>5, <2>6, <2>7, <2>8 DEF Messages
<1> QED BY <1>2 DEF Runs

\* CREATE_STREAMS and the start of the test.
LEMMA StreamsRun ==
    ASSUME SessionInv, PeerInv, CreateStreams
    PROVE  Runs
<1> USE DEF View
<1>0. /\ TypeOK /\ PlaceInv /\ ctrl_sck \in Clients \cup {None} /\ None \notin Clients
      /\ pc \in Places /\ dead \in BOOLEAN
      /\ queue' = queue => RunBacklog' = RunBacklog
      /\ queue' = <<>> => RunBacklog' = <<>>
      /\ queue # <<>> => RunBacklog # <<>> /\ Head(RunBacklog) = Kind(Head(queue))
      /\ queue # <<>> /\ queue' = Tail(queue) => RunBacklog' = Tail(RunBacklog)
  BY BacklogView, ClientsAssumption DEF SessionInv, IInv, TypeOK, ServerTypeOK
<1>1. CASE AcceptStream \/ AcceptStranger \/ StreamFails
  <2>1. pc = "select" /\ ~dead /\ listener = "open" /\ queue # <<>> /\ state = "CREATE_STREAMS"
    BY <1>1
    DEF AcceptStream, AcceptStranger, StreamFails, ServesStream, ServesListener, ListenerReadable
  <2>2. RunPlace = "select" /\ RunSession = TRUE
    BY <2>1, <1>0 DEF PeerInv, RunPlace, RunSession
  <2>3. /\ RunState' = RunState /\ listener' = listener /\ RunBacklog # <<>>
        /\ RunBacklog' = Tail(RunBacklog)
        /\ ctrl_sck' = ctrl_sck /\ dead' = dead /\ stale' = stale
        /\ pc' \in {"top", "renew", "start", "err"}
    BY <1>1, <2>1, <1>0
    DEF AcceptStream, AcceptStranger, StreamFails, RunState, controlVars, testVars
  <2>4. RunPlace' \in {"select", "top", "err"} /\ RunSession' = TRUE
    BY <2>1, <2>2, <2>3, <1>0 DEF RunPlace, RunSession
  <2>5. RunAccepts
    BY <2>1, <2>2, <2>3, <2>4 DEF RunAccepts
  <2> QED BY <2>5 DEF Runs
<1>2. CASE RenewListener \/ ReopenListener \/ ReopenFails \/ StartTest \/ RunTest \/ StartFails
  <2>1. /\ pc \in {"renew", "reopen", "start", "running"} /\ RunSession = TRUE
        /\ pc # "reopen" => RunPlace = "select"
        /\ pc = "reopen" => RunPlace = "relisten"
    BY <1>2, <1>0
    DEF RenewListener, ReopenListener, ReopenFails, StartTest, RunTest, StartFails,
        PlaceInv, Talking, RunPlace, RunSession
  <2> USE <2>1, <1>0 DEF RunState, controlVars, testVars, channelVars, RunServes, Runs
  <2>2. CASE RenewListener
    BY <2>2 DEF RenewListener, RunPlace, RunSession
  <2>3. CASE ReopenListener
    BY <2>3 DEF ReopenListener, RunPlace, RunSession
  <2>4. CASE ReopenFails
    BY <2>4 DEF ReopenFails, RunPlace, RunSession
  <2>5. CASE StartTest
    BY <2>5 DEF StartTest, RunPlace, RunSession
  <2>6. CASE RunTest
    BY <2>6 DEF RunTest, RunPlace, RunSession
  <2>7. CASE StartFails
    BY <2>7 DEF StartFails, RunPlace, RunSession
  <2> QED BY <1>2, <2>2, <2>3, <2>4, <2>5, <2>6, <2>7 DEF Runs
<1> QED BY <1>1, <1>2 DEF CreateStreams

\* All steps of the server.
LEMMA ServerRuns ==
    ASSUME SessionInv, PeerInv, ServerMoves
    PROVE  Runs
<1> USE DEF View
<1>0. /\ TypeOK /\ PlaceInv /\ ctrl_sck \in Clients \cup {None} /\ None \notin Clients
      /\ pc \in Places /\ dead \in BOOLEAN
      /\ queue' = queue => RunBacklog' = RunBacklog
      /\ queue' = <<>> => RunBacklog' = <<>>
  BY BacklogView, ClientsAssumption DEF SessionInv, IInv, TypeOK, ServerTypeOK
<1>1. CASE Listen \/ ListenFails \/ Arm \/ LoopTest \/ Cleanup
  <2> USE <1>0 DEF RunState, controlVars, testVars, channelVars, RunMoves, Runs
  <2>1. CASE Listen
    BY <2>1 DEF Listen, RunPlace, RunSession
  <2>2. CASE ListenFails
    BY <2>2 DEF ListenFails, RunPlace, RunSession
  <2>3. CASE Arm
    BY <2>3 DEF Arm, RunPlace, RunSession
  <2>4. CASE LoopTest
    BY <2>4 DEF LoopTest, RunPlace, RunSession
  <2>5. CASE Cleanup
    BY <2>5 DEF Cleanup, RunPlace, RunSession
  <2> QED BY <1>1, <2>1, <2>2, <2>3, <2>4, <2>5
<1>2. CASE BadDescriptor \/ RcvTimeout \/ ConnectionBreaks
  <2>1. RunPlace = "select" /\ RunSession = TRUE /\ pc # "out"
    BY <1>2, <1>0
    DEF BadDescriptor, RcvTimeout, ConnectionBreaks, Idle, ServesControl, ControlReadable,
        RunPlace, RunSession
  <2> QED
    BY <1>2, <2>1, <1>0
    DEF BadDescriptor, RcvTimeout, ConnectionBreaks, RunPlace, RunSession, RunState, controlVars,
        testVars, channelVars, RunServes, Runs
<1>3. CASE ServerTimer
  <2>1. /\ pc \in {"select", "top"} /\ RunSession = TRUE /\ pc' = "top" /\ RunPlace = pc
        /\ state' = state /\ listener' = listener /\ queue' = queue /\ stale' = stale
        /\ (dead' = dead /\ ctrl_sck' = ctrl_sck) \/ dead' = TRUE
    BY <1>3, <1>0 DEF ServerTimer, Idle, PeerInv, RunPlace, RunSession
  <2>2. /\ RunSession' = RunSession /\ RunPlace' = "top" /\ RunState' = RunState
        /\ RunBacklog' = RunBacklog
    BY <2>1, <1>0 DEF RunPlace, RunSession, RunState
  <2> QED BY <2>1, <2>2 DEF RunServes, Runs
<1> QED
  BY <1>1, <1>2, <1>3, HandshakeRuns, MessagesRun, StreamsRun DEF ServerMoves, ServerStep

\* A client only adds to the backlog.
LEMMA ClientRuns ==
    ASSUME ViewInv, [Next]_vars, NEW c \in Clients, ClientMoves(c), UNCHANGED serverVars
    PROVE  Run!CallStep("s") \/ UNCHANGED Run!serverVars
<1>0. /\ TypeOK /\ DialInv /\ QueueInv
      /\ RunPlace' = RunPlace /\ RunState' = RunState /\ RunSession' = RunSession
      /\ queue' = queue => RunBacklog' = RunBacklog
      /\ \A k \in Connections :
            queue' = Append(queue, k) => RunBacklog' = Append(RunBacklog, Kind(k))
  BY BacklogView
  DEF ViewInv, SessionInv, IInv, serverVars, controlVars, testVars, RunPlace, RunState, RunSession
<1>1. ASSUME NEW k \in Connections, k # NudgeConnection, ~Has(queue, k), listener = "open",
             listener' = listener, queue' = Append(queue, k)
      PROVE  Run!CallStep("s")
  <2>1. View(RunPlace, RunState, listener, Append(RunBacklog, "client"), RunSession)
    BY <1>0, <1>1 DEF View, Kind
  <2>2. Run!Waiting("s", "client") < Cardinality(Connections)
    BY <1>0, <1>1, RoomForClient
  <2> QED BY <1>1, <2>1, <2>2, OthersView
<1>2. ASSUME queue' = queue, listener' = listener PROVE UNCHANGED Run!serverVars
  BY <1>0, <1>2, StillView DEF View
<1>3. CASE Dial(c)
  <2>1. Control(c) \in Connections /\ Control(c) # NudgeConnection /\ ~Has(queue, Control(c))
    BY <1>0, <1>3, StreamsAssumption, ClientsAssumption
    DEF Dial, DialInv, Control, Connections, NudgeConnection
  <2> QED BY <1>1, <1>2, <1>3, <2>1 DEF Dial
<1>4. CASE ConnectStream(c)
  <2>1. created[c] \in Nat /\ created'[c] = created[c] + 1 /\ created'[c] \in 0 .. 2 * NumStreams
    <3>1. TypeOK'
      BY TypeStep DEF ViewInv, SessionInv
    <3>2. created \in [Clients -> 0 .. 2 * NumStreams] /\ created' \in [Clients -> 0 .. 2 * NumStreams]
      BY <1>0, <3>1 DEF TypeOK, ClientTypeOK
    <3>3. created' = [created EXCEPT ![c] = created[c] + 1]
      BY <1>4 DEF ConnectStream
    <3> QED BY <3>2, <3>3, StreamsAssumption
  <2>2. Stream(c, created'[c]) \in Connections /\ Stream(c, created'[c]) # NudgeConnection
    BY <2>1, ClientsAssumption DEF Stream, Connections, NudgeConnection
  <2>3. ASSUME Has(queue, Stream(c, created'[c])) PROVE FALSE
    <3>1. PICK i \in DOMAIN queue : queue[i] = Stream(c, created'[c])
      BY <2>3 DEF Has
    <3>2. queue[i][1] = c /\ queue[i][2] = created'[c]
      BY <3>1 DEF Stream
    <3> QED BY <1>0, <2>1, <3>2 DEF QueueInv
  <2>4. listener = "open" /\ listener' = listener /\ queue' = Append(queue, Stream(c, created'[c]))
    BY <1>4 DEF ConnectStream
  <2> QED BY <1>1, <2>2, <2>3, <2>4
<1>5. CASE ~Dial(c) /\ ~ConnectStream(c)
  <2>1. queue' = queue /\ listener' = listener
    BY <1>5
    DEF ClientMoves, ClientStep, SendCookie, SendParameters, HearCreateStreams,
        HearTestStart, HearTestRunning, EndOfTest, SendResults, GetResults, HearDisplayResults,
        HearEnd, Fails, CleanupAndFail, Killed, GoesSilent, Goto, channelVars
  <2> QED BY <1>2, <2>1
<1> QED BY <1>3, <1>4, <1>5

\* safe_interrupt_iperf does what RunServer says it does.
LEMMA StopRuns ==
    ASSUME ViewInv, MarkDone \/ Shutdown \/ Nudge
    PROVE  Run!CallStep("s") \/ UNCHANGED Run!serverVars
<1>0. /\ TypeOK /\ NudgeInv
      /\ queue' = queue => RunBacklog' = RunBacklog
      /\ queue' = <<>> => RunBacklog' = <<>>
      /\ \A k \in Connections :
            queue' = Append(queue, k) => RunBacklog' = Append(RunBacklog, Kind(k))
  BY BacklogView DEF ViewInv, SessionInv, IInv
<1>1. CASE MarkDone
  <2>1. View(RunPlace, "IPERF_DONE", listener, RunBacklog, RunSession)
    BY <1>0, <1>1 DEF MarkDone, View, RunPlace, RunState, RunSession, controlVars, channelVars
  <2> QED BY <2>1, OthersView
<1>2. CASE Shutdown
  <2>1. RunPlace' = RunPlace /\ RunState' = RunState /\ RunSession' = RunSession
    BY <1>2 DEF Shutdown, serverVars, controlVars, testVars, RunPlace, RunState, RunSession
  <2>2. CASE listener' = listener /\ queue' = queue
    BY <1>0, <2>1, <2>2, StillView DEF View
  <2>3. CASE TRUE \in ShutdownOutcomes /\ listener = "open" /\ listener' = "shut" /\ queue' = <<>>
    BY <1>0, <2>1, <2>3, OthersView DEF View
  <2>4. ASSUME NEW works \in ShutdownOutcomes,
               IF works /\ listener = "open"
               THEN listener' = "shut" /\ queue' = <<>>
               ELSE UNCHANGED <<listener, queue>>
        PROVE  \/ listener' = listener /\ queue' = queue
               \/ TRUE \in ShutdownOutcomes /\ listener = "open" /\ listener' = "shut" /\ queue' = <<>>
    BY <2>4, SessionAssumption
  <2> QED BY <1>2, <2>2, <2>3, <2>4 DEF Shutdown
<1>3. CASE Nudge
  <2>1. /\ RunPlace' = RunPlace /\ RunState' = RunState /\ RunSession' = RunSession
        /\ listener' = listener
    BY <1>3 DEF Nudge, serverVars, controlVars, testVars, RunPlace, RunState, RunSession
  <2>2. CASE listener = "open"
    <3>1. NudgeConnection \in Connections /\ Kind(NudgeConnection) = "nudge"
      BY DEF Connections, Kind
    <3>2. View(RunPlace, RunState, listener, Append(RunBacklog, "nudge"), RunSession)
      BY <1>0, <1>3, <2>1, <2>2, <3>1 DEF Nudge, View
    <3>3. Run!Waiting("s", "nudge") < MaxStops + 1
      BY <1>0, <1>3, RoomForNudge DEF Nudge
    <3> QED BY <2>2, <3>2, <3>3, OthersView
  <2>3. CASE listener # "open"
    BY <1>0, <1>3, <2>1, <2>3, StillView DEF Nudge, View
  <2> QED BY <2>2, <2>3
<1> QED BY <1>1, <1>2, <1>3

\* Every step of a session is one of RunServer, or none.
LEMMA StepRuns ==
    ASSUME ViewInv, [Next]_vars
    PROVE  Run!CallStep("s") \/ UNCHANGED Run!serverVars
<1>0. TypeOK /\ SessionInv /\ PeerInv
  BY DEF ViewInv, SessionInv, IInv
<1>1. CASE ServerMoves
  BY <1>0, <1>1, ServerRuns, MovesView, AcceptsView, ServesView, StillView DEF Runs
<1>2. CASE UNCHANGED vars
  <2>1. View(RunPlace, RunState, listener, RunBacklog, RunSession)
    BY <1>2
    DEF vars, serverVars, channelVars, testVars, controlVars, View, RunPlace, RunState, RunBacklog,
        RunSession
  <2> QED BY <2>1, StillView
<1> QED BY <1>0, <1>1, <1>2, NextCases, StopRuns, ClientRuns

\* A session begins with a call of RunServer.
LEMMA InitRuns ==
    ASSUME Init
    PROVE  ViewInv /\ Run!Called("s")
<1>1. SessionInv /\ queue = <<>>
  BY InitInv DEF Init, ChannelInit
<1>2. PeerInv
  BY DEF Init, ServerInit, PeerInv
<1>3. DialInv
  BY <1>1 DEF DialInv, Once, Has
<1>4. NudgeInv
  <2>1. Nudges(queue) = {}
    BY <1>1 DEF Nudges
  <2> QED BY <2>1, FS_EmptySet DEF NudgeInv, Init
<1>5. /\ RunPlace = "enter" /\ RunState = "INIT" /\ listener = "closed" /\ RunBacklog = <<>>
      /\ RunSession = FALSE
  <2>1. RunBacklog = <<>>
    <3>1. RunBacklog = [i \in DOMAIN <<>> |-> IF <<>>[i] = NudgeConnection THEN "nudge" ELSE "client"]
      BY <1>1 DEF RunBacklog
    <3> QED BY <3>1
  <2> QED
    BY <2>1 DEF Init, ServerInit, ChannelInit, RunPlace, RunState, RunSession
<1>6. Run!Called("s")
  BY <1>5 DEF Run!Called
<1> QED BY <1>1, <1>2, <1>3, <1>4, <1>6 DEF ViewInv

\* ViewInv is preserved.
LEMMA ViewStep ==
    ASSUME ViewInv, [Next]_vars
    PROVE  ViewInv'
<1>1. IInv /\ SessionInv /\ PeerInv /\ DialInv /\ NudgeInv
  BY DEF ViewInv, SessionInv
<1> QED BY <1>1, SessionStep, PeerStep, DialStep, NudgeStep DEF ViewInv

\* The call that the Android bridge and the iOS runner are verified against is what the
\* detailed server does with its clients, whatever they are and however many: each step
\* of a session is a step of RunServer under the mapping of IperfSession, or a stutter.
THEOREM Refinement == Spec => ImplementsRunServer
<1>1. Init => ViewInv /\ Run!Called("s")
  BY InitRuns
<1>2. ViewInv /\ [Next]_vars => ViewInv'
  BY ViewStep
<1>3. ViewInv /\ [Next]_vars => [Run!CallStep("s")]_(Run!serverVars)
  BY StepRuns
<1> QED BY <1>1, <1>2, <1>3, PTL DEF Spec, ImplementsRunServer

----------------------------------------------------------------------------
(* The state that the server has announced.                                *)

\* The client that is served has dialled, and its control connection is accepted.
ServedInv ==
    ctrl_sck # None => cpc[ctrl_sck] # "idle" /\ ~Has(queue, Control(ctrl_sck))

\* What StatesAgree rests on.
StatesInv == SessionInv /\ DialInv /\ ServedInv /\ StatesAgree

\* x is the last state in the stream s, or b is x and there is none.
LastIs(s, b, x) ==
    LET sent == {i \in DOMAIN s : s[i] \in States}
    IN  IF sent = {} THEN b = x
        ELSE \E i \in sent : s[i] = x /\ \A j \in sent : j <= i

\* The last state of a stream to which a state has been added.
LEMMA LastAdded ==
    ASSUME NEW s \in Seq(Tokens), NEW t \in Seq(Tokens), t # <<>>, t[Len(t)] \in States, NEW b
    PROVE  LastIs(s \o t, b, t[Len(t)])
<1> DEFINE u == s \o t
           n == Len(s) + Len(t)
<1>1. /\ Len(s) \in Nat /\ Len(t) \in Nat \ {0} /\ Len(u) = n /\ DOMAIN u = 1 .. n
      /\ \A i \in 1 .. n : u[i] = IF i <= Len(s) THEN s[i] ELSE t[i - Len(s)]
  BY ConcatProperties, LenProperties, EmptySeq
<1>2. n \in 1 .. n /\ ~(n <= Len(s)) /\ n - Len(s) = Len(t)
  BY <1>1
<1>3. u[n] = t[Len(t)]
  BY <1>1, <1>2
<1> HIDE DEF u, n
<1>4. n \in {i \in DOMAIN u : u[i] \in States}
      /\ \A j \in {i \in DOMAIN u : u[i] \in States} : j <= n
  BY <1>1, <1>2, <1>3 DEF n
<1>5. LastIs(u, b, t[Len(t)])
  BY <1>3, <1>4 DEF LastIs
<1> QED BY <1>5 DEF u

\* The last state of a stream, when its first token has been read: a state is the
\* client's own from then on.
LEMMA LastRead ==
    ASSUME NEW s \in Seq(Tokens), s # <<>>, NEW b, NEW x, LastIs(s, b, x)
    PROVE  LastIs(Tail(s), IF Head(s) \in States THEN Head(s) ELSE b, x)
<1> DEFINE r == Tail(s)
           e == IF Head(s) \in States THEN Head(s) ELSE b
           S(u) == {i \in DOMAIN u : u[i] \in States}
<1>1. /\ Len(s) \in Nat \ {0} /\ DOMAIN s = 1 .. Len(s) /\ Head(s) = s[1]
      /\ DOMAIN r = 1 .. Len(s) - 1
      /\ \A i \in 1 .. Len(s) - 1 : r[i] = s[i + 1]
  BY HeadTailProperties, LenProperties, EmptySeq
<1> HIDE DEF r
<1>2. \A i \in S(r) : i \in Nat /\ i + 1 \in S(s)
  BY <1>1
<1>3. \A i \in S(s) : i \in Nat \ {0} /\ (i # 1 => i - 1 \in S(r) /\ r[i - 1] = s[i])
  <2>1. ASSUME NEW i \in S(s), i # 1 PROVE i - 1 \in 1 .. Len(s) - 1 /\ (i - 1) + 1 = i
    BY <2>1, <1>1
  <2> QED BY <2>1, <1>1
<1>4. IF S(s) = {} THEN b = x ELSE \E i \in S(s) : s[i] = x /\ \A j \in S(s) : j <= i
  BY DEF LastIs
<1>5. 1 \in S(s) <=> Head(s) \in States
  BY <1>1
<1>6. CASE S(r) = {}
  <2>1. \A i \in S(s) : i = 1
    BY <1>3, <1>6
  <2>2. e = x
    BY <2>1, <1>1, <1>4, <1>5
  <2> QED BY <2>2, <1>6 DEF LastIs, r
<1>7. CASE S(r) # {}
  <2>1. PICK k \in S(r) : k \in Nat /\ k + 1 \in S(s)
    BY <1>2, <1>7
  <2>2. PICK i \in S(s) : s[i] = x /\ \A j \in S(s) : j <= i
    BY <2>1, <1>4
  <2>3. i # 1
    BY <2>1, <2>2
  <2>4. i - 1 \in S(r) /\ r[i - 1] = x
    BY <2>2, <2>3, <1>3
  <2>5. ASSUME NEW j \in S(r) PROVE j <= i - 1
    <3>1. j \in Nat /\ j + 1 <= i /\ i \in Nat
      BY <1>2, <1>3, <2>2, <2>5
    <3> QED BY <3>1
  <2> QED BY <2>4, <2>5, <1>7 DEF LastIs, r
<1> QED BY <1>6, <1>7

\* A write to one client is announced to it, and to no other.
LEMMA SentAnnounces ==
    ASSUME TypeOK, NEW c \in Clients, NEW t \in Seq(Tokens), ServerSends(c, t)
    PROVE  /\ \A d \in Clients : d # c => toClient'[d] = toClient[d]
           /\ t # <<>> /\ t[Len(t)] \in States => LastIs(toClient'[c], cstate'[c], t[Len(t)])
<1>1. toClient' = [toClient EXCEPT ![c] = toClient[c] \o t] /\ toClient \in [Clients -> Seq(Tokens)]
  BY DEF ServerSends, TypeOK, ChannelTypeOK
<1>2. toClient'[c] = toClient[c] \o t /\ toClient[c] \in Seq(Tokens)
  BY <1>1
<1> QED BY <1>1, <1>2, LastAdded

\* A client that reads a state, and takes it for its own, still has the announced one
\* ahead of it; so has one that reads what is no state.
LEMMA ReadAnnounces ==
    ASSUME TypeOK, NEW c \in Clients, toClient[c] # <<>>, ClientReads(c), NEW x,
           LastIs(toClient[c], cstate[c], x),
           cstate'[c] = IF Head(toClient[c]) \in States THEN Head(toClient[c]) ELSE cstate[c]
    PROVE  LastIs(toClient'[c], cstate'[c], x)
<1>1. toClient' = [toClient EXCEPT ![c] = Tail(toClient[c])] /\ toClient \in [Clients -> Seq(Tokens)]
  BY DEF ClientReads, TypeOK, ChannelTypeOK
<1>2. toClient'[c] = Tail(toClient[c]) /\ toClient[c] \in Seq(Tokens)
  BY <1>1
<1> QED BY <1>2, LastRead

\* The connection that is taken for a control connection is the one of a client that has
\* dialled: a free server has asked nobody for streams.
LEMMA TakesControl ==
    ASSUME IInv, DialInv, AcceptClient
    PROVE  /\ ctrl_sck' \in Clients /\ cpc[ctrl_sck'] # "idle"
           /\ ~Has(queue', Control(ctrl_sck'))
<1>1. /\ TypeOK /\ QueueInv /\ queue # <<>> /\ Head(queue) # NudgeConnection
      /\ ctrl_sck' = Head(queue)[1] /\ queue' = Tail(queue)
      /\ ctrl_sck = None /\ ~dead /\ pc # "out"
  BY DEF IInv, AcceptClient, Accepts, ServesListener, ListenerReadable
<1>2. /\ Head(queue) \in Connections /\ Head(queue) = queue[1] /\ 1 \in DOMAIN queue
      /\ queue \in Seq(Connections)
  BY <1>1, HeadTyped DEF TypeOK, ChannelTypeOK
<1> DEFINE c == Head(queue)[1]
<1>3. c \in Clients /\ Head(queue)[2] \in 0 .. 2 * NumStreams /\ Head(queue) = <<c, Head(queue)[2]>>
  BY <1>1, <1>2, ConnectionsTyped
<1>4. created[c] = 0
  BY <1>1, <1>3, AllUntouched DEF Untouched
<1>5. Head(queue)[2] > 0 => Head(queue)[2] <= created[c]
  BY <1>1, <1>2 DEF QueueInv
<1>6. Head(queue)[2] = 0
  BY <1>3, <1>4, <1>5, StreamsAssumption
<1>7. Head(queue) = Control(c)
  BY <1>3, <1>6 DEF Control
<1>8. Has(queue, Control(c)) /\ ~Has(Tail(queue), Control(c))
  BY <1>1, <1>2, <1>3, <1>7, TailHas DEF DialInv
<1> QED BY <1>1, <1>3, <1>8 DEF DialInv

\* ServedInv is preserved.
LEMMA ServedStep ==
    ASSUME IInv, DialInv, ServedInv, [Next]_vars
    PROVE  ServedInv'
<1>0. /\ TypeOK /\ queue \in Seq(Connections) /\ ctrl_sck \in Clients \cup {None}
      /\ cpc \in [Clients -> {"idle", "dialled", "select", "creating", "results"} \cup Ended]
  BY DEF IInv, TypeOK, ChannelTypeOK, ServerTypeOK, ClientTypeOK
<1>1. CASE ServerMoves
  <2>1. ServerStep /\ cpc' = cpc
    BY <1>1 DEF ServerMoves, clientVars
  <2>2. CASE AcceptClient
    BY <1>0, <2>1, <2>2, TakesControl DEF ServedInv
  <2>3. CASE ctrl_sck' = ctrl_sck
    <3>1. \A x : Has(queue', x) => Has(queue, x)
      BY <2>1, <1>0, ServerQueue, TailHas DEF Has
    <3> QED BY <2>1, <2>3, <3>1 DEF ServedInv
  <2> QED BY <2>1, <2>2, <2>3, ServedClient DEF ServedInv
<1>2. CASE MarkDone \/ UNCHANGED vars
  BY <1>2
  DEF MarkDone, vars, serverVars, controlVars, channelVars, clientVars, ServedInv
<1>3. CASE Shutdown
  <2>1. /\ ctrl_sck' = ctrl_sck /\ cpc' = cpc
        /\ \A x : Has(queue', x) => Has(queue, x)
    BY <1>3 DEF Shutdown, serverVars, controlVars, clientVars, Has
  <2> QED BY <2>1 DEF ServedInv
<1>4. CASE Nudge
  <2>1. NudgeConnection \in Connections /\ \A c \in Clients : NudgeConnection # Control(c)
    BY ClientsAssumption DEF NudgeConnection, Connections, Control
  <2>2. ctrl_sck' = ctrl_sck /\ cpc' = cpc
    BY <1>4 DEF Nudge, serverVars, controlVars, clientVars
  <2>3. \A x : Has(queue', x) => Has(queue, x) \/ x = NudgeConnection
    BY <1>0, <1>4, <2>1, AppendHas DEF Nudge
  <2> QED BY <1>0, <2>1, <2>2, <2>3 DEF ServedInv
<1>5. ASSUME NEW c \in Clients, ClientMoves(c), UNCHANGED serverVars, ctrl_sck # None
      PROVE  cpc'[ctrl_sck] # "idle" /\ ~Has(queue', Control(ctrl_sck))
  <2>1. ctrl_sck \in Clients /\ cpc[ctrl_sck] # "idle" /\ ~Has(queue, Control(ctrl_sck))
    BY <1>0, <1>5 DEF ServedInv
  <2>2. CASE Dial(c)
    <3>1. c # ctrl_sck /\ Control(c) # Control(ctrl_sck) /\ Control(c) \in Connections
      BY <2>1, <2>2, StreamsAssumption DEF Dial, Control, Connections
    <3>2. cpc'[ctrl_sck] = cpc[ctrl_sck]
      BY <2>1, <2>2, <3>1, <1>0 DEF Dial, Goto
    <3>3. queue' = queue \/ queue' = Append(queue, Control(c))
      BY <2>2 DEF Dial
    <3>4. ASSUME queue' = Append(queue, Control(c)) PROVE ~Has(queue', Control(ctrl_sck))
      BY <1>0, <2>1, <3>1, <3>4, AppendHas
    <3> QED BY <2>1, <3>2, <3>3, <3>4
  <2>3. CASE ConnectStream(c)
    <3>1. TypeOK' /\ queue' = Append(queue, Stream(c, created'[c])) /\ cpc'[ctrl_sck] # "idle"
          /\ created' = [created EXCEPT ![c] = created[c] + 1]
      BY <2>1, <2>3, <1>0, TypeStep DEF ConnectStream, Goto
    <3>2. /\ created[c] \in Nat /\ created'[c] = created[c] + 1 /\ created'[c] \in 0 .. 2 * NumStreams
      BY <1>0, <3>1, StreamsAssumption DEF TypeOK, ClientTypeOK
    <3>3. Stream(c, created'[c]) \in Connections /\ Stream(c, created'[c]) # Control(ctrl_sck)
      BY <3>2 DEF Stream, Control, Connections
    <3> QED BY <1>0, <2>1, <3>1, <3>3, AppendHas
  <2>4. CASE ~Dial(c) /\ ~ConnectStream(c)
    BY <1>5, <2>1, <2>4, <1>0
    DEF ClientMoves, ClientStep, SendCookie, SendParameters, HearCreateStreams,
        HearTestStart, HearTestRunning, EndOfTest, SendResults, GetResults, HearDisplayResults,
        HearEnd, Fails, CleanupAndFail, Killed, GoesSilent, Goto, channelVars
  <2> QED BY <2>2, <2>3, <2>4
<1>6. ASSUME NEW c \in Clients, ClientMoves(c), UNCHANGED serverVars PROVE ServedInv'
  BY <1>5, <1>6 DEF ServedInv, serverVars, controlVars
<1> QED BY <1>0, <1>1, <1>2, <1>3, <1>4, <1>6, NextCases

\* What the server answers a connection it does not serve, its client does not hear.
LEMMA DeniesOthers ==
    ASSUME TypeOK, ServedInv, queue # <<>>, ctrl_sck # None, Denies(Head(queue))
    PROVE  toClient'[ctrl_sck] = toClient[ctrl_sck]
<1>1. /\ Has(queue, Head(queue)) /\ ctrl_sck \in Clients
      /\ "FIN" \in Tokens /\ "ACCESS_DENIED" \in Tokens
  BY TailHas DEF TypeOK, ChannelTypeOK, ServerTypeOK, Tokens, States
<1>a. <<"FIN">> \in Seq(Tokens) /\ <<"ACCESS_DENIED", "FIN">> \in Seq(Tokens)
  BY <1>1, LiteralsHave
<1>2. ASSUME NEW c \in Clients, Head(queue) = Control(c) PROVE toClient'[ctrl_sck] = toClient[ctrl_sck]
  <2>1. c # ctrl_sck /\ Head(queue)[1] = c
    BY <1>1, <1>2 DEF ServedInv, Control
  <2>2. PICK t \in {<<"ACCESS_DENIED", "FIN">>, <<"FIN">>} : ServerSends(c, t)
    BY <1>2, <2>1 DEF Denies
  <2>3. t \in Seq(Tokens)
    BY <1>a
  <2> QED BY <1>1, <2>1, <2>2, <2>3, SentAnnounces
<1> QED BY <1>2 DEF Denies

\* A state the server stores before a new round it has sent as well.
Announces(x) ==
    /\ ctrl_sck # None /\ state' = x
    /\ \E t \in Seq(Tokens) : t # <<>> /\ t[Len(t)] = x /\ ServerSends(ctrl_sck, t)

\* How the server gets to a new round: with a state that it announces, or as it was.
LEMMA ServerAnnounces ==
    ASSUME IInv, ServedInv, ServerStep, pc' \in {"top", "select"}, ctrl_sck' # None,
           state' # "IPERF_DONE"
    PROVE  /\ ctrl_sck' = ctrl_sck
           /\ \/ Announces(state')
              \/ /\ pc \in {"top", "select"} /\ state' = state
                 /\ toServer'[ctrl_sck] = toServer[ctrl_sck]
                 /\ toClient'[ctrl_sck] = toClient[ctrl_sck]
<1>0. /\ TypeOK /\ PlaceInv
      /\ {"CREATE_STREAMS", "TEST_RUNNING", "RESULTS", "DISPLAY_RESULTS"} \subseteq Tokens
  BY DEF IInv, Tokens, States, Json
<1> USE DEF testVars, controlVars, channelVars
<1>1. CASE Listen \/ ListenFails \/ Arm \/ LoopTest \/ BadDescriptor
  BY <1>0, <1>1 DEF Listen, ListenFails, Arm, LoopTest, BadDescriptor, PlaceInv
<1>2. CASE AskForStreams
  <2>1. ctrl_sck # None /\ <<"CREATE_STREAMS">> \in Seq(Tokens)
    BY <1>0, <1>2 DEF AskForStreams, PlaceInv, Talking
  <2> QED BY <1>2, <2>1 DEF AskForStreams, Announces
<1>3. CASE ExchangeResults
  <2>1. ctrl_sck # None /\ <<"RESULTS", "DISPLAY_RESULTS">> \in Seq(Tokens)
    BY <1>0, <1>3 DEF ExchangeResults, PlaceInv, Talking
  <2> QED BY <1>3, <2>1 DEF ExchangeResults, Announces
<1>4. CASE RunTest
  <2>1. ctrl_sck # None /\ <<"TEST_RUNNING">> \in Seq(Tokens)
    BY <1>0, <1>4 DEF RunTest, PlaceInv, Talking
  <2> QED BY <1>4, <2>1 DEF RunTest, Announces
<1>5. CASE AcceptDenied
  BY <1>0, <1>5, DeniesOthers DEF AcceptDenied, Accepts, ServesListener, ListenerReadable
<1>6. CASE AcceptStranger
  BY <1>0, <1>6, DeniesOthers DEF AcceptStranger, ServesStream, ServesListener, ListenerReadable
<1>7. CASE AcceptStream
  BY <1>7 DEF AcceptStream, ServesStream, ServesListener
<1>8. CASE Handshake /\ ~AskForStreams /\ ~AcceptDenied
  BY <1>8
  DEF Handshake, AcceptClient, AcceptNudge, AcceptShut, GetCookie, GetParameters,
      HandshakeFails, CloseListener, Relisten, ProtocolListenFails
<1>9. CASE Messages /\ ~ExchangeResults
  BY <1>9
  DEF Messages, ReadDone, ReadMessage, ReadNonsense, EndTest, ResultsFail, ClientTerminated, Overtaken
<1>10. CASE StreamFails \/ RenewListener \/ ReopenListener \/ ReopenFails \/ StartTest \/ StartFails
  BY <1>10 DEF StreamFails, RenewListener, ReopenListener, ReopenFails, StartTest, StartFails
<1>11. CASE Cleanup \/ RcvTimeout \/ ConnectionBreaks
  BY <1>11 DEF Cleanup, RcvTimeout, ConnectionBreaks
<1>12. CASE ServerTimer
  BY <1>12 DEF ServerTimer, Idle
<1> QED
  BY <1>1, <1>2, <1>3, <1>4, <1>5, <1>6, <1>7, <1>8, <1>9, <1>10, <1>11, <1>12
  DEF ServerStep, CreateStreams

\* A client that has said something is not asked for what it knows; one that has not still
\* has the announced state, or reads it (iperf_handle_message_client).
LEMMA ClientAnnounces ==
    ASSUME TypeOK, NEW c \in Clients, ClientMoves(c), toServer'[c] = <<>>
    PROVE  /\ toServer[c] = <<>>
           /\ \A x : LastIs(toClient[c], cstate[c], x) => LastIs(toClient'[c], cstate'[c], x)
<1> DEFINE Stays == \A x : LastIs(toClient[c], cstate[c], x) => LastIs(toClient'[c], cstate'[c], x)
<1>0. /\ toServer \in [Clients -> Seq(Tokens)] /\ cstate \in [Clients -> States]
      /\ "RESULTS" \notin States
  BY DEF TypeOK, ChannelTypeOK, ClientTypeOK, States
<1>1. ASSUME NEW y \in Tokens, NEW z \in Tokens,
             ClientSends(c, <<y>>) \/ ClientSends(c, <<y, z>>)
      PROVE  FALSE
  <2>1. <<y>> \in Seq(Tokens) /\ <<y, z>> \in Seq(Tokens) /\ Has(<<y>>, y) /\ Has(<<y, z>>, y)
    BY LiteralsHave
  <2>2. Has(toServer'[c], y)
    BY <1>0, <1>1, <2>1, ClientSendsHas
  <2> QED BY <2>2 DEF Has
<1>2. ASSUME NEW token \in {"CREATE_STREAMS", "TEST_START", "TEST_RUNNING"},
             Hears(c, token), ClientReads(c), Becomes(c, token), UNCHANGED toServer
      PROVE  toServer[c] = <<>> /\ Stays
  <2>1. toClient[c] # <<>> /\ Head(toClient[c]) = token /\ token \in States /\ cstate'[c] = token
    BY <1>0, <1>2 DEF Hears, NextIs, Becomes, States
  <2> QED BY <1>2, <2>1, ReadAnnounces
<1>3. CASE HearCreateStreams(c) \/ HearTestStart(c) \/ HearTestRunning(c)
  BY <1>2, <1>3 DEF HearCreateStreams, HearTestStart, HearTestRunning
<1>4. CASE GetResults(c)
  <2>1. toClient[c] # <<>> /\ Head(toClient[c]) = "RESULTS" /\ ClientReads(c)
        /\ UNCHANGED <<cstate, toServer>>
    BY <1>4 DEF GetResults, NextIs
  <2> QED BY <1>0, <2>1, ReadAnnounces
<1>5. CASE Dial(c) \/ ConnectStream(c) \/ GoesSilent(c)
  BY <1>5 DEF Dial, ConnectStream, GoesSilent, channelVars
<1>6. /\ {"COOKIE", "PARAMS", "TEST_END", "RESULTS", "IPERF_DONE", "FIN", "CLIENT_TERMINATE"} \subseteq Tokens
  BY DEF Tokens, States, Json
<1>7. CASE SendCookie(c) \/ SendParameters(c) \/ EndOfTest(c) \/ SendResults(c) \/ HearDisplayResults(c)
  BY <1>1, <1>6, <1>7
  DEF SendCookie, SendParameters, EndOfTest, SendResults, HearDisplayResults
<1>8. CASE HearEnd(c) \/ Fails(c) \/ Killed(c)
  BY <1>1, <1>6, <1>8 DEF HearEnd, Fails, CleanupAndFail, Killed
<1> QED BY <1>3, <1>4, <1>5, <1>7, <1>8 DEF ClientMoves, ClientStep

\* A client does not touch the conversation of another.
LEMMA OthersSilent ==
    ASSUME TypeOK, NEW c \in Clients, NEW d \in Clients, d # c, ClientMoves(c)
    PROVE  /\ toServer'[d] = toServer[d] /\ toClient'[d] = toClient[d]
           /\ cstate'[d] = cstate[d]
<1>1. cstate \in [Clients -> States]
  BY DEF TypeOK, ClientTypeOK
<1>2. cstate'[d] = cstate[d]
  BY <1>1
  DEF ClientMoves, ClientStep, Dial, SendCookie, SendParameters, HearCreateStreams, ConnectStream,
      HearTestStart, HearTestRunning, EndOfTest, SendResults, GetResults, HearDisplayResults,
      HearEnd, Fails, CleanupAndFail, Killed, GoesSilent, Becomes
<1> QED BY <1>2, ClientHears, ClientSpeaks DEF ClientHeard, ClientSpoken

\* StatesAgree is preserved.
LEMMA AgreeStep ==
    ASSUME StatesInv, [Next]_vars
    PROVE  StatesAgree'
<1> SUFFICES ASSUME pc' \in {"top", "select"}, ctrl_sck' # None, state' # "IPERF_DONE",
                    toServer'[ctrl_sck'] = <<>>
             PROVE  LastIs(toClient'[ctrl_sck'], cstate'[ctrl_sck'], state')
  BY DEF StatesAgree, Announced, LastIs
<1>0. /\ TypeOK /\ IInv /\ ServedInv /\ ctrl_sck \in Clients \cup {None}
      /\ pc \in {"top", "select"} /\ ctrl_sck # None /\ state # "IPERF_DONE"
         /\ toServer[ctrl_sck] = <<>> => LastIs(toClient[ctrl_sck], cstate[ctrl_sck], state)
  BY DEF StatesInv, SessionInv, IInv, TypeOK, ServerTypeOK, StatesAgree, Announced, LastIs
<1>1. CASE ServerMoves
  <2>1. ServerStep /\ cstate' = cstate
    BY <1>1 DEF ServerMoves, clientVars
  <2>2. CASE Announces(state')
    <3>1. PICK t \in Seq(Tokens) : t # <<>> /\ t[Len(t)] = state' /\ ServerSends(ctrl_sck, t)
      BY <2>2 DEF Announces
    <3>2. state' \in States /\ ctrl_sck \in Clients /\ ctrl_sck' = ctrl_sck
      BY <1>0, <2>1, <2>2, TypeStep, ServerAnnounces DEF Announces, TypeOK, ServerTypeOK
    <3> QED BY <1>0, <3>1, <3>2, SentAnnounces
  <2>3. CASE ~Announces(state')
    BY <1>0, <2>1, <2>3, ServerAnnounces
  <2> QED BY <2>2, <2>3
<1>2. CASE MarkDone
  BY <1>2 DEF MarkDone
<1>3. CASE Shutdown
  <2>1. /\ pc' = pc /\ ctrl_sck' = ctrl_sck /\ state' = state /\ cstate' = cstate /\ toServer' = toServer
    BY <1>3 DEF Shutdown, serverVars, controlVars, clientVars
  <2>2. ctrl_sck \notin Waiting
    BY <1>0, <2>1 DEF ServedInv, Waiting, Has
  <2>3. toClient'[ctrl_sck] = toClient[ctrl_sck]
    BY <1>0, <1>3, <2>1, <2>2 DEF Shutdown, ServerCloses
  <2> QED BY <1>0, <2>1, <2>3
<1>4. CASE Nudge \/ UNCHANGED vars
  BY <1>0, <1>4 DEF Nudge, vars, serverVars, controlVars, clientVars, channelVars
<1>5. ASSUME NEW c \in Clients, ClientMoves(c), UNCHANGED serverVars
      PROVE  LastIs(toClient'[ctrl_sck'], cstate'[ctrl_sck'], state')
  <2>1. pc' = pc /\ ctrl_sck' = ctrl_sck /\ state' = state
    BY <1>5 DEF serverVars, controlVars
  <2>2. CASE c = ctrl_sck
    <3>1. toServer[c] = <<>>
      BY <1>0, <1>5, <2>1, <2>2, ClientAnnounces
    <3> QED BY <1>0, <1>5, <2>1, <2>2, <3>1, ClientAnnounces
  <2>3. CASE c # ctrl_sck
    BY <1>0, <1>5, <2>1, <2>3, OthersSilent
  <2> QED BY <2>2, <2>3
<1> QED BY <1>0, <1>1, <1>2, <1>3, <1>4, <1>5, NextCases

\* Between two rounds the state of the server is the last one that it has sent its client,
\* or the one the client has taken over: however many clients there are, whoever is denied
\* in between, and whenever the embedder stops the server.
THEOREM StatesStayAgreed == Spec => []StatesAgree
<1>1. Init => StatesInv
  <2>1. ASSUME Init PROVE SessionInv /\ DialInv /\ ctrl_sck = None
    BY <2>1, InitRuns DEF ViewInv, Init, ServerInit
  <2> QED BY <2>1 DEF StatesInv, ServedInv, StatesAgree
<1>2. StatesInv /\ [Next]_vars => StatesInv'
  BY SessionStep, DialStep, ServedStep, AgreeStep DEF StatesInv, SessionInv
<1>3. StatesInv => StatesAgree
  BY DEF StatesInv
<1> QED BY <1>1, <1>2, <1>3, PTL DEF Spec

----------------------------------------------------------------------------
(* What an idle session waits for.                                         *)

\* The place of a client and the state it has taken over.
ClientPlaces ==
    \A c \in Clients :
        /\ cstate[c] # "DISPLAY_RESULTS"
        /\ cpc[c] \in {"idle", "dialled"} => cstate[c] = "INIT"
        /\ cpc[c] = "creating" => cstate[c] = "CREATE_STREAMS"
        /\ cpc[c] = "results" => cstate[c] = "EXCHANGE_RESULTS"
        /\ cpc[c] = "select" /\ cstate[c] = "CREATE_STREAMS" =>
            created[c] = StreamsFor(setup[c].mode)
        /\ cpc[c] = "select" /\ cstate[c] = "TEST_RUNNING" => cthreads[c]

\* Where a round of the call begins, and what it finds there.
RoundInv ==
    /\ pc \notin {"enter", "relisten", "reopen", "err", "out"} => listener # "closed"
    /\ pc \in {"top", "select", "control"} /\ ctrl_sck # None =>
        /\ state \in {"CREATE_STREAMS", "TEST_RUNNING", "DISPLAY_RESULTS", "IPERF_DONE"}
        /\ state = "CREATE_STREAMS" => ~Complete(streams)
        /\ state = "TEST_RUNNING" => threads

\* A step of a client keeps ClientPlaces.
LEMMA ClientPlacesStep ==
    ASSUME TypeOK, ClientPlaces, NEW c \in Clients, ClientMoves(c)
    PROVE  ClientPlaces'
<1>0. /\ cpc \in [Clients -> {"idle", "dialled", "select", "creating", "results"} \cup Ended]
      /\ cstate \in [Clients -> States] /\ cthreads \in [Clients -> BOOLEAN]
      /\ created \in [Clients -> 0 .. 2 * NumStreams]
  BY DEF TypeOK, ClientTypeOK
<1> DEFINE Placed(d) ==
        /\ cstate[d] # "DISPLAY_RESULTS"
        /\ cpc[d] \in {"idle", "dialled"} => cstate[d] = "INIT"
        /\ cpc[d] = "creating" => cstate[d] = "CREATE_STREAMS"
        /\ cpc[d] = "results" => cstate[d] = "EXCHANGE_RESULTS"
        /\ cpc[d] = "select" /\ cstate[d] = "CREATE_STREAMS" =>
            created[d] = StreamsFor(setup[d].mode)
        /\ cpc[d] = "select" /\ cstate[d] = "TEST_RUNNING" => cthreads[d]
<1>1. /\ Placed(c)
      /\ \A d \in Clients : Placed(d)
  BY DEF ClientPlaces
<1> SUFFICES ASSUME NEW d \in Clients PROVE Placed(d)'
  BY DEF ClientPlaces
<1> USE DEF Goto, Becomes, channelVars
<1>2. CASE Dial(c) \/ SendCookie(c) \/ SendParameters(c) \/ HearCreateStreams(c)
  BY <1>0, <1>1, <1>2, ZenonT(60)
  DEF Dial, SendCookie, SendParameters, HearCreateStreams, Hears, Ended
<1>3. CASE ConnectStream(c)
  BY <1>0, <1>1, <1>3 DEF ConnectStream
<1>4. CASE HearTestStart(c) \/ HearTestRunning(c) \/ EndOfTest(c)
  BY <1>0, <1>1, <1>4 DEF HearTestStart, HearTestRunning, EndOfTest, Hears
<1>5. CASE SendResults(c) \/ GetResults(c) \/ HearDisplayResults(c)
  BY <1>0, <1>1, <1>5 DEF SendResults, GetResults, HearDisplayResults
<1>6. CASE HearEnd(c) \/ Fails(c)
  <2>1. /\ cpc' = [cpc EXCEPT ![c] = "failed"] /\ UNCHANGED <<created, setup>>
        /\ cthreads' = [cthreads EXCEPT ![c] = FALSE]
        /\ \E last \in {cstate[c], "INIT", "ACCESS_DENIED", "SERVER_ERROR"} :
            cstate' = [cstate EXCEPT ![c] = last]
    BY <1>6 DEF HearEnd, Fails, CleanupAndFail, Json
  <2> QED BY <1>0, <1>1, <2>1
<1>7. CASE Killed(c) \/ GoesSilent(c)
  BY <1>0, <1>1, <1>7 DEF Killed, GoesSilent
<1> QED BY <1>2, <1>3, <1>4, <1>5, <1>6, <1>7 DEF ClientMoves, ClientStep

\* A step of the server keeps RoundInv: it gets to a new round with the state that it
\* announces, with one stream fewer than it waits for, or as it was.
LEMMA ServerRounds ==
    ASSUME IInv, RoundInv, ServerStep
    PROVE  RoundInv'
<1>0. TypeOK /\ PlaceInv
  BY DEF IInv
<1> USE DEF RoundInv, testVars, controlVars, channelVars
<1>1. CASE Listen \/ ListenFails \/ Arm \/ LoopTest \/ BadDescriptor
  BY <1>0, <1>1 DEF Listen, ListenFails, Arm, LoopTest, BadDescriptor, PlaceInv, Complete
<1>2. CASE Handshake /\ ~AskForStreams /\ ~AcceptDenied
  BY <1>2
  DEF Handshake, AcceptClient, AcceptNudge, AcceptShut, GetCookie, GetParameters, Accepts,
      HandshakeFails, CloseListener, Relisten, ProtocolListenFails, ServesListener
<1>3. CASE AcceptDenied
  BY <1>3 DEF AcceptDenied, Accepts, ServesListener, Complete
<1>4. CASE AskForStreams
  <2>1. streams = <<>> /\ Len(streams) = 0
    BY <1>0, <1>4 DEF AskForStreams, PlaceInv, Before
  <2>2. StreamsFor(mode) # 0
    BY StreamsAssumption DEF StreamsFor
  <2> QED BY <1>4, <2>1, <2>2 DEF AskForStreams, Complete
<1>5. CASE Messages
  BY <1>5
  DEF Messages, ReadDone, ReadMessage, ReadNonsense, EndTest, ExchangeResults, ResultsFail,
      ClientTerminated, Overtaken, ServesControl
<1>6. CASE AcceptStream
  BY <1>6 DEF AcceptStream, ServesStream, ServesListener, Complete
<1>7. CASE AcceptStranger
  BY <1>7 DEF AcceptStranger, ServesStream, ServesListener, Complete
<1>8. CASE StreamFails \/ RenewListener \/ ReopenListener \/ ReopenFails \/ StartTest \/ StartFails
           \/ RunTest
  BY <1>8 DEF StreamFails, RenewListener, ReopenListener, ReopenFails, StartTest, StartFails, RunTest
<1>9. CASE ServerTimer
  BY <1>9 DEF ServerTimer, Idle, Complete
<1>10. CASE Cleanup \/ RcvTimeout \/ ConnectionBreaks
  BY <1>10 DEF Cleanup, RcvTimeout, ConnectionBreaks
<1> QED
  BY <1>1, <1>2, <1>3, <1>4, <1>5, <1>6, <1>7, <1>8, <1>9, <1>10 DEF ServerStep, CreateStreams

\* ClientPlaces and RoundInv are preserved.
LEMMA WaitStep ==
    ASSUME IInv, ClientPlaces, RoundInv, [Next]_vars
    PROVE  ClientPlaces' /\ RoundInv'
<1>0. TypeOK /\ setup' = setup
  BY SetupStays DEF IInv
<1>1. CASE ServerMoves
  BY <1>0, <1>1, ServerRounds DEF ServerMoves, ClientPlaces, clientVars
<1>2. CASE MarkDone \/ Shutdown \/ Nudge \/ UNCHANGED vars
  <2>1. ClientPlaces'
    BY <1>0, <1>2
    DEF MarkDone, Shutdown, Nudge, vars, ClientPlaces, clientVars
  <2>2. RoundInv'
    BY <1>2
    DEF MarkDone, Shutdown, Nudge, vars, RoundInv, Complete, serverVars, testVars, controlVars, channelVars
  <2> QED BY <2>1, <2>2
<1>3. ASSUME NEW c \in Clients, ClientMoves(c), UNCHANGED serverVars PROVE ClientPlaces' /\ RoundInv'
  <2>1. listener' = listener
    BY <1>3
    DEF ClientMoves, ClientStep, Dial, SendCookie, SendParameters, HearCreateStreams, ConnectStream,
        HearTestStart, HearTestRunning, EndOfTest, SendResults, GetResults, HearDisplayResults,
        HearEnd, Fails, Killed, GoesSilent, channelVars
  <2> QED BY <1>0, <1>3, <2>1, ClientPlacesStep
          DEF RoundInv, Complete, serverVars, testVars, controlVars
<1> QED BY <1>0, <1>1, <1>2, <1>3, NextCases

\* A client that waits to be accepted, or has been, is remembered, or its connection is
\* closed; and nobody waits at a socket that does not listen.
KeptInv ==
    /\ queue # <<>> => listener = "open"
    /\ \A c \in Clients : Running(c) =>
        c = ctrl_sck \/ Has(queue, Control(c)) \/ Has(toClient[c], "FIN")

\* A server that is at its select although it has been stopped is about to be woken.
StopInv == pc = "select" /\ state = "IPERF_DONE" => stop # "idle" \/ ListenerReadable

\* What NobodyWaitsInVain rests on.
WaitInv == StatesInv /\ ClientPlaces /\ RoundInv /\ KeptInv /\ StopInv

\* Connections that are closed end, and those that have ended stay so.
LEMMA ClosesEnd ==
    ASSUME TypeOK, NEW cs, ServerCloses(cs), NEW c \in Clients,
           c \in cs \/ Has(toClient[c], "FIN")
    PROVE  Has(toClient'[c], "FIN")
<1>1. toClient[c] \in Seq(Tokens) /\ "FIN" \in Tokens
  BY DEF TypeOK, ChannelTypeOK, Tokens
<1>2. toClient'[c] = IF c \in cs THEN Append(toClient[c], "FIN") ELSE toClient[c]
  BY DEF ServerCloses
<1> QED BY <1>1, <1>2, AppendHas

\* A connection that is denied ends (iperf_accept).
LEMMA DeniesEnd ==
    ASSUME TypeOK, NEW k, Denies(k), NEW c \in Clients,
           k = Control(c) \/ Has(toClient[c], "FIN")
    PROVE  Has(toClient'[c], "FIN")
<1>1. /\ toClient \in [Clients -> Seq(Tokens)]
      /\ "FIN" \in Tokens /\ "ACCESS_DENIED" \in Tokens
  BY DEF TypeOK, ChannelTypeOK, Tokens, States
<1>2. /\ <<"FIN">> \in Seq(Tokens) /\ <<"ACCESS_DENIED", "FIN">> \in Seq(Tokens)
      /\ Has(<<"FIN">>, "FIN") /\ Has(<<"ACCESS_DENIED", "FIN">>, "FIN")
  <2>1. <<"FIN">> \in Seq(Tokens) /\ Has(<<"FIN">>, "FIN")
    BY <1>1, OneTokenHas
  <2>2. <<"ACCESS_DENIED", "FIN">> \in Seq(Tokens) /\ Has(<<"ACCESS_DENIED", "FIN">>, "FIN")
    BY <1>1, TwoTokensHave
  <2> QED BY <2>1, <2>2
<1>3. ASSUME NEW d \in Clients, k = Control(d) PROVE Has(toClient'[c], "FIN")
  <2>1. k[1] = d /\ (k = Control(c) => c = d)
    BY <1>3 DEF Control
  <2>2. PICK t \in {<<"ACCESS_DENIED", "FIN">>, <<"FIN">>} : ServerSends(d, t)
    BY <1>3, <2>1 DEF Denies
  <2>3. t \in Seq(Tokens) /\ Has(t, "FIN")
    BY <1>2
  <2> QED BY <1>1, <2>1, <2>2, <2>3, ServerSendsHas
<1> QED BY <1>3 DEF Denies

\* The server takes nothing back.
LEMMA EndsStay ==
    ASSUME TypeOK, PlaceInv, ServerStep, NEW c \in Clients, Has(toClient[c], "FIN")
    PROVE  Has(toClient'[c], "FIN")
<1>0. /\ toClient \in [Clients -> Seq(Tokens)] /\ ctrl_sck \in Clients \cup {None}
      /\ Tokens = States \cup Json \cup {"COOKIE", "FIN"}
  BY DEF TypeOK, ChannelTypeOK, ServerTypeOK, Tokens
<1>1. ASSUME NEW t \in Seq(Tokens), ctrl_sck \in Clients, ServerSends(ctrl_sck, t)
      PROVE  Has(toClient'[c], "FIN")
  BY <1>0, <1>1, ServerSendsHas
<1>2. ASSUME NEW x \in Tokens, ctrl_sck \in Clients, ServerSends(ctrl_sck, <<x>>)
      PROVE  Has(toClient'[c], "FIN")
  <2>1. <<x>> \in Seq(Tokens)
    BY OneTokenHas
  <2> QED BY <1>1, <1>2, <2>1
<1>3. CASE GetCookie \/ AskForStreams \/ ProtocolListenFails \/ EndTest \/ StartTest \/ RunTest
  <2>1. ctrl_sck \in Clients
    BY <1>0, <1>3
    DEF PlaceInv, Talking, GetCookie, AskForStreams, ProtocolListenFails, EndTest, StartTest, RunTest
  <2>2. {"PARAM_EXCHANGE", "CREATE_STREAMS", "SERVER_ERROR", "EXCHANGE_RESULTS", "TEST_START",
         "TEST_RUNNING"} \subseteq Tokens
    BY DEF Tokens, States
  <2> QED BY <1>2, <1>3, <2>1, <2>2
          DEF GetCookie, AskForStreams, ProtocolListenFails, EndTest, StartTest, RunTest
<1>4. CASE ExchangeResults
  <2>1. ctrl_sck \in Clients /\ "RESULTS" \in Tokens /\ "DISPLAY_RESULTS" \in Tokens
    BY <1>0, <1>4 DEF PlaceInv, Talking, ExchangeResults, Tokens, States, Json
  <2>2. <<"RESULTS", "DISPLAY_RESULTS">> \in Seq(Tokens)
    BY <2>1, LiteralsHave
  <2> QED BY <1>1, <1>4, <2>1, <2>2 DEF ExchangeResults
<1>5. CASE AcceptDenied \/ AcceptStranger
  BY <1>5, DeniesEnd DEF AcceptDenied, AcceptStranger
<1>6. CASE CloseListener \/ RenewListener \/ Cleanup \/ ServerTimer
  BY <1>6, ClosesEnd DEF CloseListener, RenewListener, Cleanup, ServerTimer
<1>7. CASE UNCHANGED toClient
  BY <1>7
<1>8. ASSUME ~GetCookie, ~AskForStreams, ~ProtocolListenFails, ~EndTest, ~StartTest, ~RunTest,
             ~ExchangeResults, ~AcceptDenied, ~AcceptStranger, ~CloseListener, ~RenewListener,
             ~Cleanup, ~ServerTimer
      PROVE  UNCHANGED toClient
  <2>1. CASE Handshake
    BY <2>1, <1>8
    DEF Handshake, AcceptClient, AcceptNudge, AcceptShut, GetParameters, HandshakeFails,
        Relisten, channelVars
  <2>2. CASE Messages
    BY <2>2, <1>8
    DEF Messages, ReadDone, ReadMessage, ReadNonsense, ResultsFail, ClientTerminated, Overtaken, channelVars
  <2>3. CASE CreateStreams
    BY <2>3, <1>8
    DEF CreateStreams, AcceptStream, StreamFails, ReopenListener, ReopenFails, StartFails, channelVars
  <2>4. CASE ~Handshake /\ ~Messages /\ ~CreateStreams
    BY <2>4, <1>8
    DEF ServerStep, Listen, ListenFails, Arm, LoopTest, BadDescriptor, RcvTimeout,
        ConnectionBreaks, channelVars
  <2> QED BY <2>1, <2>2, <2>3, <2>4
<1> QED BY <1>3, <1>4, <1>5, <1>6, <1>7, <1>8

\* What the server takes from the backlog it takes on, or ends.
LEMMA ServerKeeps ==
    ASSUME IInv, KeptInv, ServerStep, NEW c \in Clients, UNCHANGED cpc, Running(c)
    PROVE  c = ctrl_sck' \/ Has(queue', Control(c)) \/ Has(toClient'[c], "FIN")
<1>0. /\ TypeOK /\ PlaceInv /\ queue \in Seq(Connections)
      /\ c = ctrl_sck \/ Has(queue, Control(c)) \/ Has(toClient[c], "FIN")
  BY DEF IInv, TypeOK, ChannelTypeOK, KeptInv
<1> DEFINE Kept == c = ctrl_sck' \/ Has(queue', Control(c)) \/ Has(toClient'[c], "FIN")
<1>1. CASE Has(toClient[c], "FIN")
  BY <1>0, <1>1, EndsStay
<1>2. ASSUME queue' = queue, ctrl_sck' = ctrl_sck PROVE Kept
  BY <1>0, <1>1, <1>2
<1>3. ASSUME NEW cs, ServerCloses(cs), ctrl_sck \in cs \/ ctrl_sck' = ctrl_sck,
             Waiting \subseteq cs \/ queue' = queue
      PROVE  Kept
  <2>1. Has(queue, Control(c)) => c \in Waiting
    BY DEF Has, Waiting
  <2> QED BY <1>0, <1>3, <2>1, ClosesEnd
<1>4. ASSUME queue # <<>>, queue' = Tail(queue), ctrl_sck' = ctrl_sck \/ ctrl_sck = None,
             Head(queue) = Control(c) => c = ctrl_sck' \/ Has(toClient'[c], "FIN")
      PROVE  Kept
  <2>1. Has(queue, Control(c)) /\ Head(queue) # Control(c) => Has(queue', Control(c))
    BY <1>0, <1>4, TailHas
  <2>2. c = ctrl_sck => c = ctrl_sck'
    BY <1>4, ClientsAssumption
  <2> QED BY <1>0, <1>1, <1>4, <2>1, <2>2
<1> USE DEF testVars, controlVars, channelVars, Accepts, ServesStream, ServesListener, ListenerReadable
<1>5. CASE AcceptClient
  <2>1. Head(queue) = Control(c) => c = ctrl_sck'
    BY <1>5 DEF AcceptClient, Control
  <2> QED BY <1>4, <1>5, <2>1 DEF AcceptClient
<1>6. CASE AcceptNudge
  <2>1. Head(queue) # Control(c)
    BY <1>6, ClientsAssumption DEF AcceptNudge, NudgeConnection, Control
  <2> QED BY <1>4, <1>6, <2>1 DEF AcceptNudge
<1>7. CASE AcceptDenied \/ AcceptStranger
  <2>1. Head(queue) = Control(c) => Has(toClient'[c], "FIN")
    BY <1>0, <1>7, DeniesEnd DEF AcceptDenied, AcceptStranger
  <2> QED BY <1>4, <1>7, <2>1 DEF AcceptDenied, AcceptStranger
<1>8. CASE AcceptStream \/ StreamFails
  <2>1. Head(queue) # Control(c)
    BY <1>8 DEF AcceptStream, StreamFails, Control
  <2> QED BY <1>4, <1>8, <2>1 DEF AcceptStream, StreamFails
<1>9. CASE CloseListener \/ RenewListener
  BY <1>3, <1>9 DEF CloseListener, RenewListener
<1>10. CASE Cleanup
  BY <1>3, <1>10 DEF Cleanup
<1>11. CASE ServerTimer
  BY <1>2, <1>3, <1>11 DEF ServerTimer
<1>12. CASE Handshake /\ ~AcceptClient /\ ~AcceptNudge /\ ~AcceptDenied /\ ~CloseListener
  BY <1>2, <1>12
  DEF Handshake, AcceptShut, GetCookie, GetParameters, HandshakeFails, Relisten, AskForStreams,
      ProtocolListenFails
<1>13. CASE Messages
  BY <1>2, <1>13
  DEF Messages, ReadDone, ReadMessage, ReadNonsense, EndTest, ExchangeResults, ResultsFail,
      ClientTerminated, Overtaken
<1>14. CASE ReopenListener \/ ReopenFails \/ StartTest \/ RunTest \/ StartFails
  BY <1>2, <1>14 DEF ReopenListener, ReopenFails, StartTest, RunTest, StartFails
<1>15. CASE Listen \/ ListenFails \/ Arm \/ LoopTest \/ BadDescriptor \/ RcvTimeout \/ ConnectionBreaks
  BY <1>2, <1>15
  DEF Listen, ListenFails, Arm, LoopTest, BadDescriptor, RcvTimeout, ConnectionBreaks
<1> QED
  BY <1>5, <1>6, <1>7, <1>8, <1>9, <1>10, <1>11, <1>12, <1>13, <1>14, <1>15
  DEF ServerStep, CreateStreams

\* The backlog is that of a socket that listens: the server empties it when it closes it.
LEMMA ServerListens ==
    ASSUME TypeOK, ServerStep, queue # <<>> => listener = "open", queue' # <<>>
    PROVE  listener' = "open"
<1>0. queue # <<>>
  BY ServerQueue
<1> USE DEF channelVars
<1>1. CASE Handshake
  BY <1>0, <1>1
  DEF Handshake, AcceptClient, AcceptNudge, AcceptDenied, AcceptShut, GetCookie, GetParameters,
      HandshakeFails, CloseListener, Relisten, AskForStreams, ProtocolListenFails
<1>2. CASE Messages
  BY <1>0, <1>2
  DEF Messages, ReadDone, ReadMessage, ReadNonsense, EndTest, ExchangeResults, ResultsFail,
      ClientTerminated, Overtaken
<1>3. CASE CreateStreams
  BY <1>0, <1>3
  DEF CreateStreams, AcceptStream, AcceptStranger, StreamFails, RenewListener, ReopenListener,
      ReopenFails, StartTest, RunTest, StartFails
<1>4. CASE ~Handshake /\ ~Messages /\ ~CreateStreams
  BY <1>0, <1>4
  DEF ServerStep, Listen, ListenFails, Arm, LoopTest, BadDescriptor, Cleanup, ServerTimer,
      RcvTimeout, ConnectionBreaks
<1> QED BY <1>1, <1>2, <1>3, <1>4

\* A client that goes on has not read the end of its connection.
LEMMA ClientKeeps ==
    ASSUME TypeOK, TypeOK', KeptInv, NEW c \in Clients, ClientMoves(c), UNCHANGED ctrl_sck
    PROVE  KeptInv'
<1>0. /\ queue \in Seq(Connections) /\ toClient \in [Clients -> Seq(Tokens)]
      /\ cpc \in [Clients -> {"idle", "dialled", "select", "creating", "results"} \cup Ended]
  BY DEF TypeOK, ChannelTypeOK, ClientTypeOK
<1>1. listener' = listener /\ \A d \in Clients : d # c => cpc'[d] = cpc[d]
  BY <1>0
  DEF ClientMoves, ClientStep, Dial, SendCookie, SendParameters, HearCreateStreams, ConnectStream,
      HearTestStart, HearTestRunning, EndOfTest, SendResults, GetResults, HearDisplayResults,
      HearEnd, Fails, CleanupAndFail, Killed, GoesSilent, Goto, channelVars
<1>2. /\ queue' # <<>> => listener' = "open"
      /\ \A x : Has(queue, x) => Has(queue', x)
  <2>1. CASE Dial(c)
    <3>1. Control(c) \in Connections
      BY StreamsAssumption DEF Control, Connections
    <3>2. queue' = queue \/ (queue' = Append(queue, Control(c)) /\ listener = "open")
      BY <2>1 DEF Dial
    <3>3. \A x : Has(queue, x) => Has(Append(queue, Control(c)), x)
      BY <1>0, <3>1, AppendHas
    <3> QED BY <1>1, <3>2, <3>3 DEF KeptInv
  <2>2. CASE ConnectStream(c)
    <3>1. TypeOK' /\ queue' = Append(queue, Stream(c, created'[c])) /\ listener = "open"
      BY <2>2 DEF ConnectStream
    <3>2. /\ created \in [Clients -> 0 .. 2 * NumStreams] /\ created' \in [Clients -> 0 .. 2 * NumStreams]
          /\ created' = [created EXCEPT ![c] = created[c] + 1]
      BY <2>2, <3>1 DEF ConnectStream, TypeOK, ClientTypeOK
    <3>3. Stream(c, created'[c]) \in Connections
      BY <3>2 DEF Stream, Connections
    <3> QED BY <1>0, <1>1, <3>1, <3>3, AppendHas
  <2>3. CASE ~Dial(c) /\ ~ConnectStream(c)
    <3>1. queue' = queue
      BY <2>3
      DEF ClientMoves, ClientStep, SendCookie, SendParameters, HearCreateStreams,
          HearTestStart, HearTestRunning, EndOfTest, SendResults, GetResults, HearDisplayResults,
          HearEnd, Fails, CleanupAndFail, Killed, GoesSilent, channelVars
    <3> QED BY <1>1, <3>1 DEF KeptInv
  <2> QED BY <2>1, <2>2, <2>3
<1>3. CASE cpc[c] = "idle"
  <2>1. Running(c)' => Has(queue', Control(c))
    <3>1. Dial(c)
      BY <1>3
      DEF ClientMoves, ClientStep, SendCookie, SendParameters, HearCreateStreams, ConnectStream,
          HearTestStart, HearTestRunning, EndOfTest, SendResults, GetResults, HearDisplayResults,
          HearEnd, Fails, Killed, GoesSilent, Running, Hears
    <3>2. Running(c)' => queue' = Append(queue, Control(c))
      BY <1>0, <3>1 DEF Dial, Goto, Running
    <3>3. Control(c) \in Connections
      BY StreamsAssumption DEF Control, Connections
    <3>4. Has(Append(queue, Control(c)), Control(c))
      BY <1>0, <3>3, AppendHas
    <3> QED BY <3>2, <3>4
  <2>2. toClient' = toClient
    BY <1>3
    DEF ClientMoves, ClientStep, Dial, SendCookie, SendParameters, HearCreateStreams, ConnectStream,
        HearTestStart, HearTestRunning, EndOfTest, SendResults, GetResults, HearDisplayResults,
        HearEnd, Fails, Killed, GoesSilent, Running, Hears, channelVars
  <2> QED BY <1>1, <1>2, <2>1, <2>2 DEF KeptInv, Running
<1>4. CASE cpc[c] # "idle"
  <2>1. ASSUME Running(c)' PROVE Running(c)
    BY <1>0, <1>4, <2>1
    DEF ClientMoves, ClientStep, Dial, SendCookie, SendParameters, HearCreateStreams, ConnectStream,
        HearTestStart, HearTestRunning, EndOfTest, SendResults, GetResults, HearDisplayResults,
        HearEnd, Fails, Killed, GoesSilent, Running, Hears
  <2>2. ASSUME Has(toClient[c], "FIN") PROVE Has(toClient'[c], "FIN")
    <3>1. toClient' = toClient
          \/ (toClient[c] # <<>> /\ Head(toClient[c]) # "FIN" /\ ClientReads(c))
      BY DEF ClientMoves, ClientStep, Dial, SendCookie, SendParameters, HearCreateStreams, ConnectStream,
             HearTestStart, HearTestRunning, EndOfTest, SendResults, GetResults, HearDisplayResults,
             HearEnd, Fails, Killed, GoesSilent, Hears, NextIs, channelVars
    <3> QED BY <1>0, <2>2, <3>1, ClientReadsHas DEF Shorter
  <2>3. \A d \in Clients : d # c => toClient'[d] = toClient[d]
    BY ClientHears DEF ClientHeard
  <2> QED BY <1>1, <1>2, <2>1, <2>2, <2>3 DEF KeptInv, Running
<1> QED BY <1>3, <1>4

\* KeptInv is preserved.
LEMMA KeptStep ==
    ASSUME IInv, KeptInv, [Next]_vars
    PROVE  KeptInv'
<1>0. TypeOK /\ queue \in Seq(Connections)
  BY DEF IInv, TypeOK, ChannelTypeOK
<1>1. CASE ServerMoves
  <2>1. ServerStep /\ cpc' = cpc
    BY <1>1 DEF ServerMoves, clientVars
  <2>2. queue' # <<>> => listener' = "open"
    BY <1>0, <2>1, ServerListens DEF KeptInv
  <2> QED BY <2>1, <2>2, ServerKeeps DEF KeptInv, Running
<1>2. CASE MarkDone \/ UNCHANGED vars
  BY <1>2 DEF MarkDone, vars, serverVars, controlVars, channelVars, clientVars, KeptInv, Running
<1>3. CASE Shutdown
  <2>1. UNCHANGED <<ctrl_sck, cpc>>
    BY <1>3 DEF Shutdown, serverVars, controlVars, clientVars
  <2>2. CASE UNCHANGED <<listener, queue, toClient>>
    BY <2>1, <2>2 DEF KeptInv, Running
  <2>3. CASE queue' = <<>> /\ ServerCloses(Waiting)
    <3>1. \A c \in Clients : Has(queue, Control(c)) => c \in Waiting
      BY DEF Has, Waiting
    <3> QED BY <1>0, <2>1, <2>3, <3>1, ClosesEnd DEF KeptInv, Running
  <2> QED BY <1>3, <2>2, <2>3 DEF Shutdown
<1>4. CASE Nudge
  <2>1. NudgeConnection \in Connections
    BY DEF NudgeConnection, Connections
  <2>2. UNCHANGED <<ctrl_sck, cpc, listener, toClient>>
        /\ (queue' = queue \/ (queue' = Append(queue, NudgeConnection) /\ listener = "open"))
    BY <1>4 DEF Nudge, serverVars, controlVars, clientVars
  <2>3. \A x : Has(queue, x) => Has(Append(queue, NudgeConnection), x)
    BY <1>0, <2>1, AppendHas
  <2> QED BY <2>2, <2>3 DEF KeptInv, Running
<1>5. ASSUME NEW c \in Clients, ClientMoves(c), UNCHANGED serverVars PROVE KeptInv'
  <2>1. TypeOK'
    BY <1>5, TypeStep
  <2> QED BY <1>0, <1>5, <2>1, ClientKeeps DEF serverVars, controlVars
<1> QED BY <1>0, <1>1, <1>2, <1>3, <1>4, <1>5, NextCases

\* StopInv is preserved: the server gets to its select with another state, and what
\* wakes it there stays until it leaves.
LEMMA StopStep ==
    ASSUME TypeOK, RoundInv, StopInv, [Next]_vars
    PROVE  StopInv'
<1>0. /\ queue \in Seq(Connections) /\ listener \in {"closed", "open", "shut"}
      /\ \A k : Append(queue, k) # <<>>
  BY DEF TypeOK, ChannelTypeOK
<1>1. CASE ServerMoves
  <2>1. ServerStep
    BY <1>1 DEF ServerMoves
  <2>2. pc' = "select" => LoopTest
    <3>1. CASE Handshake
      BY <3>1
      DEF Handshake, AcceptClient, AcceptNudge, AcceptDenied, AcceptShut, GetCookie, GetParameters,
          HandshakeFails, CloseListener, Relisten, AskForStreams, ProtocolListenFails
    <3>2. CASE Messages
      BY <3>2
      DEF Messages, ReadDone, ReadMessage, ReadNonsense, EndTest, ExchangeResults, ResultsFail,
          ClientTerminated, Overtaken
    <3>3. CASE AcceptStream
      BY <3>3 DEF AcceptStream
    <3>4. CASE AcceptStranger \/ StreamFails \/ RenewListener \/ ReopenListener \/ ReopenFails
               \/ StartTest \/ RunTest \/ StartFails
      BY <3>4
      DEF AcceptStranger, StreamFails, RenewListener, ReopenListener, ReopenFails, StartTest,
          RunTest, StartFails
    <3>5. CASE Listen \/ ListenFails \/ Arm \/ BadDescriptor \/ Cleanup \/ ServerTimer \/ RcvTimeout
               \/ ConnectionBreaks
      BY <3>5
      DEF Listen, ListenFails, Arm, BadDescriptor, Cleanup, ServerTimer, RcvTimeout, ConnectionBreaks
    <3> QED BY <2>1, <3>1, <3>2, <3>3, <3>4, <3>5 DEF ServerStep, CreateStreams
  <2> QED BY <2>2 DEF LoopTest, StopInv
<1>2. CASE MarkDone \/ Shutdown
  BY <1>2 DEF MarkDone, Shutdown, StopInv
<1>3. CASE Nudge
  BY <1>0, <1>3
  DEF Nudge, serverVars, StopInv, RoundInv, ListenerReadable
<1>4. CASE UNCHANGED vars
  BY <1>4 DEF vars, serverVars, channelVars, StopInv, ListenerReadable
<1>5. ASSUME NEW c \in Clients, ClientMoves(c), UNCHANGED <<serverVars, stop, stops>> PROVE StopInv'
  <2>1. /\ listener' = listener
        /\ queue' = queue \/ \E k : queue' = Append(queue, k)
    BY <1>5
    DEF ClientMoves, ClientStep, Dial, SendCookie, SendParameters, HearCreateStreams, ConnectStream,
        HearTestStart, HearTestRunning, EndOfTest, SendResults, GetResults, HearDisplayResults,
        HearEnd, Fails, Killed, GoesSilent, channelVars
  <2> QED BY <1>0, <1>5, <2>1 DEF StopInv, ListenerReadable, serverVars
<1> QED BY <1>1, <1>2, <1>3, <1>4, <1>5, NextCases

\* A server and a client that both have nothing to read, and no stop is under way: both are
\* in the test.
LEMMA WaitsInTest ==
    ASSUME WaitInv, Idle, ctrl_sck # None, stop = "idle",
           cpc[ctrl_sck] \in {"select", "results"}, toClient[ctrl_sck] = <<>>
    PROVE  state = "TEST_RUNNING" /\ DataFlows
<1> DEFINE c == ctrl_sck
<1>1. /\ TypeOK /\ StreamInv /\ RunInv /\ StatesAgree /\ ClientPlaces /\ RoundInv /\ StopInv
      /\ c \in Clients
  BY DEF WaitInv, StatesInv, SessionInv, IInv, TypeOK, ServerTypeOK
<1>2. /\ pc = "select" /\ listener = "open" /\ queue = <<>> /\ toServer[c] = <<>>
      /\ state # "IPERF_DONE"
  BY <1>1 DEF Idle, ListenerReadable, ControlReadable, RoundInv, StopInv, TypeOK, ChannelTypeOK
<1>3. cstate[c] = state
  BY <1>1, <1>2 DEF StatesAgree, Announced
<1>4. state \in {"CREATE_STREAMS", "TEST_RUNNING"} /\ cpc[c] = "select"
  BY <1>1, <1>2, <1>3 DEF RoundInv, ClientPlaces
<1>5. state # "CREATE_STREAMS"
  <2> SUFFICES ASSUME state = "CREATE_STREAMS" PROVE FALSE
    OBVIOUS
  <2>1. created[c] = StreamsFor(mode) /\ Len(streams) # created[c]
    BY <1>1, <1>2, <1>3, <1>4 DEF ClientPlaces, RunInv, RoundInv, Complete
  <2>2. created[c] \in Nat /\ Len(streams) \in Nat /\ Len(streams) <= created[c]
    BY <1>1, StreamsAssumption DEF StreamInv, TypeOK, ClientTypeOK, ServerTypeOK
  <2>3. created[c] \in Len(streams) + 1 .. created[c]
    BY <2>1, <2>2
  <2>4. Has(queue, Stream(c, created[c]))
    BY <1>1, <1>2, <2>3 DEF StreamInv
  <2> QED BY <1>2, <2>4 DEF Has
<1> QED BY <1>1, <1>2, <1>3, <1>4, <1>5 DEF ClientPlaces, RoundInv, DataFlows

\* What the invariants say together.
LEMMA WaitsForSomething == ASSUME WaitInv PROVE NobodyWaitsInVain
<1> SUFFICES ASSUME NEW c \in Clients, cpc[c] \in {"select", "results"}, toClient[c] = <<>>
             PROVE  \/ c \in Waiting /\ listener = "open"
                    \/ c = ctrl_sck
                       /\ (~Idle \/ stop # "idle" \/ (state = "TEST_RUNNING" /\ DataFlows))
  BY DEF NobodyWaitsInVain
<1>1. c = ctrl_sck \/ Has(queue, Control(c))
  BY DEF WaitInv, KeptInv, Running, Has
<1>2. Has(queue, Control(c)) => c \in Waiting /\ queue # <<>>
  BY DEF Has, Waiting
<1>3. c = ctrl_sck => ctrl_sck # None
  BY ClientsAssumption
<1> QED BY <1>1, <1>2, <1>3, WaitsInTest DEF WaitInv, KeptInv

\* With any number of clients and streams, whatever has failed before and however often the
\* server is stopped: no step leaves a client and the server waiting for each other.
THEOREM NobodyWaits == Spec => []NobodyWaitsInVain
<1>1. Init => WaitInv
  <2>1. ASSUME Init PROVE SessionInv /\ DialInv /\ ctrl_sck = None
    BY <2>1, InitRuns DEF ViewInv, Init, ServerInit
  <2>2. ASSUME Init PROVE ClientPlaces /\ KeptInv
    BY <2>2 DEF Init, ClientInit, ChannelInit, ClientPlaces, KeptInv, Running
  <2>3. ASSUME Init PROVE RoundInv /\ StopInv
    BY <2>3 DEF Init, ServerInit, RoundInv, StopInv
  <2> QED BY <2>1, <2>2, <2>3 DEF WaitInv, StatesInv, ServedInv, StatesAgree
<1>2. WaitInv /\ [Next]_vars => WaitInv'
  <2>1. ASSUME WaitInv, [Next]_vars PROVE StatesInv'
    BY <2>1, SessionStep, DialStep, ServedStep, AgreeStep DEF WaitInv, StatesInv, SessionInv
  <2>2. ASSUME WaitInv, [Next]_vars PROVE ClientPlaces' /\ RoundInv' /\ KeptInv' /\ StopInv'
    BY <2>2, WaitStep, KeptStep, StopStep DEF WaitInv, StatesInv, SessionInv, IInv
  <2> QED BY <2>1, <2>2 DEF WaitInv
<1>3. WaitInv => NobodyWaitsInVain
  BY WaitsForSomething
<1> QED BY <1>1, <1>2, <1>3, PTL DEF Spec
=============================================================================
