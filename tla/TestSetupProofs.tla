-------------------------- MODULE TestSetupProofs --------------------------
(***************************************************************************)
(* For any requests, any number of tests, streams and repeated datagrams:  *)
(* the texts of the control connection arrive whole and in order or the    *)
(* reading stops (TestSetup implements MessageChannel), and every test is  *)
(* run with the settings its client asked for.                             *)
(***************************************************************************)
EXTENDS TestSetup, FiniteSetTheorems, TLAPS

----------------------------------------------------------------------------
(* The texts.                                                              *)

LEMMA FieldsAreFinite == IsFiniteSet(Optional \cup Kept)
<1> DEFINE s == <<"server_affinity", "MSS", "nodelay", "reverse", "bidirectional", "window",
             "len", "bandwidth", "fqrate", "burst", "TOS", "title", "extra_data",
             "congestion", "udp_counters_64bit", "zerocopy", "dont_fragment", "skip_rx_copy",
             "get_server_output", "repeating_payload", "pacing_timer", "flowlabel">>
<1>1. s \in Seq(Optional \cup Kept) BY DEF Optional, Kept
<1>2. \A x \in Optional \cup Kept : \E n \in 1 .. Len(s) : s[n] = x BY DEF Optional, Kept
<1> QED BY <1>1, <1>2 DEF IsFiniteSet

\* No text is empty: the length word 0 is never written.
LEMMA TextSizes == \A text \in AllTexts : text.size \in Nat \ {0}
<1>1. ASSUME NEW r \in Requests PROVE ParametersText(r).size \in Nat \ {0}
  <2> DEFINE F == SentFields(r) \ AlwaysSent
  <2>1. F \subseteq Optional \cup Kept BY DEF SentFields
  <2>2. IsFiniteSet(F) BY <2>1, FieldsAreFinite, FS_Subset
  <2>3. Cardinality(F) \in Nat BY <2>2, FS_CardinalityType
  <2>4. ParametersText(r).size = 1 + Cardinality(F) BY DEF ParametersText
  <2> HIDE DEF F
  <2> QED BY <2>3, <2>4
<1>2. ResultsText.size \in Nat \ {0} BY DEF ResultsText
<1> QED BY <1>1, <1>2 DEF AllTexts

----------------------------------------------------------------------------
(* The control connection.                                                 *)

ChannelTypeOK ==
    /\ sent \in Seq([at : Nat, text : AllTexts])
    /\ received \in Seq(AllTexts \cup {Garbage})
    /\ written \in Nat /\ taken \in Nat /\ got \in Nat /\ hsize \in Nat
    /\ reading \in {"idle", "length", "body"}
    /\ broken \in BOOLEAN

\* The texts lie in the stream one after the other.
FramesInOrder ==
    /\ \A i \in DOMAIN sent : \A j \in DOMAIN sent : i < j => End(sent[i]) <= sent[j].at
    /\ \A i \in DOMAIN sent : i + 1 \in DOMAIN sent => sent[i + 1].at = End(sent[i])
    /\ sent # <<>> => sent[1].at = 0

\* Where the k-th text starts, or will start.
Start(k) == IF k \in DOMAIN sent THEN sent[k].at ELSE Offered

\* The reader is at the text after the ones it has received.
ReaderInStep ==
    /\ written <= Offered
    /\ taken <= written
    /\ broken => reading = "idle"
    /\ ~broken =>
        LET next == Len(received) + 1 IN
        /\ Len(received) <= Len(sent)
        /\ reading = "idle" => taken = Start(next)
        /\ reading = "length" => got <= LengthSize /\ taken = Start(next) + got
        /\ reading = "body" =>
            /\ next \in DOMAIN sent
            /\ hsize = sent[next].text.size
            /\ got <= hsize
            /\ taken = sent[next].at + LengthSize + got

ChannelInv == ChannelTypeOK /\ FramesInOrder /\ ReaderInStep

LEMMA ElementType ==
    ASSUME NEW S, NEW seq \in Seq(S), NEW i \in DOMAIN seq
    PROVE  seq[i] \in S
OBVIOUS

LEMMA SingletonType ==
    ASSUME NEW S, NEW x \in S
    PROVE  <<x>> \in Seq(S) /\ Len(<<x>>) = 1 /\ DOMAIN <<x>> = {1} /\ <<x>>[1] = x
OBVIOUS

LEMMA FrameTypes ==
    ASSUME ChannelTypeOK
    PROVE  /\ LengthSize \in Nat \ {0}
           /\ \A i \in DOMAIN sent :
                /\ sent[i].at \in Nat /\ sent[i].text \in AllTexts
                /\ sent[i].text.size \in Nat \ {0}
                /\ End(sent[i]) \in Nat /\ End(sent[i]) > sent[i].at + LengthSize
           /\ Offered \in Nat
           /\ Len(sent) \in Nat /\ DOMAIN sent = 1 .. Len(sent)
           /\ Len(received) \in Nat
<1>1. LengthSize \in Nat \ {0} BY LengthAssumption
<1>2. Len(sent) \in Nat /\ DOMAIN sent = 1 .. Len(sent) BY DEF ChannelTypeOK
<1>3. ASSUME NEW i \in DOMAIN sent
      PROVE  /\ sent[i].at \in Nat /\ sent[i].text \in AllTexts
             /\ sent[i].text.size \in Nat \ {0}
             /\ End(sent[i]) \in Nat /\ End(sent[i]) > sent[i].at + LengthSize
  <2>1. sent[i] \in [at : Nat, text : AllTexts] BY ElementType DEF ChannelTypeOK
  <2>2. sent[i].at \in Nat /\ sent[i].text \in AllTexts BY <2>1
  <2>3. sent[i].text.size \in Nat \ {0} BY <2>2, TextSizes
  <2> QED BY <1>1, <2>2, <2>3 DEF End
<1>4. Offered \in Nat
  <2>1. CASE sent = <<>> BY <2>1 DEF Offered
  <2>2. CASE sent # <<>>
    <3>1. Len(sent) \in DOMAIN sent BY <2>2, <1>2 DEF ChannelTypeOK
    <3> QED BY <2>2, <3>1, <1>3 DEF Offered
  <2> QED BY <2>1, <2>2
<1>5. Len(received) \in Nat BY DEF ChannelTypeOK
<1> QED BY <1>1, <1>2, <1>3, <1>4, <1>5

\* A position is that of one text.
LEMMA FrameAt ==
    ASSUME ChannelInv, NEW k \in DOMAIN sent
    PROVE  /\ \E i \in DOMAIN sent : sent[i].at = sent[k].at
           /\ (CHOOSE f \in {sent[i] : i \in DOMAIN sent} : f.at = sent[k].at) = sent[k]
<1> USE DEF ChannelInv
<1>1. ASSUME NEW i \in DOMAIN sent, sent[i].at = sent[k].at PROVE i = k
  <2>1. i < k => End(sent[i]) <= sent[k].at BY DEF FramesInOrder
  <2>2. k < i => End(sent[k]) <= sent[i].at BY DEF FramesInOrder
  <2> QED BY <1>1, <2>1, <2>2, FrameTypes
<1>2. \A f \in {sent[i] : i \in DOMAIN sent} : f.at = sent[k].at => f = sent[k] BY <1>1
<1>3. sent[k] \in {sent[i] : i \in DOMAIN sent} OBVIOUS
<1> QED BY <1>2, <1>3

LEMMA NothingBeyondTheLast ==
    ASSUME ChannelInv
    PROVE  \A i \in DOMAIN sent : End(sent[i]) <= Offered
<1> SUFFICES ASSUME NEW i \in DOMAIN sent PROVE End(sent[i]) <= Offered OBVIOUS
<1>1. Len(sent) \in DOMAIN sent /\ sent # <<>> BY FrameTypes DEF ChannelInv
<1>2. Offered = End(sent[Len(sent)]) BY <1>1 DEF Offered
<1>3. CASE i = Len(sent) BY <1>2, <1>3, FrameTypes DEF ChannelInv
<1>4. CASE i < Len(sent)
  <2>1. End(sent[i]) <= sent[Len(sent)].at BY <1>1, <1>4 DEF ChannelInv, FramesInOrder
  <2>2. /\ LengthSize \in Nat /\ End(sent[i]) \in Nat
        /\ sent[Len(sent)].at \in Nat /\ End(sent[Len(sent)]) \in Nat
        /\ End(sent[Len(sent)]) > sent[Len(sent)].at + LengthSize
    BY <1>1, FrameTypes DEF ChannelInv
  <2> HIDE DEF End
  <2> QED BY ONLY <2>1, <2>2, <1>2
<1> QED BY <1>3, <1>4, FrameTypes DEF ChannelInv
----------------------------------------------------------------------------
(* What each operation does to it.                                         *)

\* Only the last text may be unfinished: what is written ends where the next starts.
LEMMA ReaderBelowOffered ==
    ASSUME ChannelInv, reading \in {"length", "body"}
    PROVE  Len(received) + 1 \in DOMAIN sent \/ (reading = "length" /\ got = 0)
<1> USE DEF ChannelInv
<1>1. ~broken BY DEF ReaderInStep
<1>2. CASE reading = "length"
  <2>1. taken = Start(Len(received) + 1) + got BY <1>1, <1>2 DEF ReaderInStep
  <2>2. taken <= Offered BY FrameTypes DEF ReaderInStep, ChannelTypeOK
  <2>3. ASSUME Len(received) + 1 \notin DOMAIN sent PROVE got = 0
    BY <2>1, <2>2, <2>3, FrameTypes DEF Start, ChannelTypeOK
  <2> QED BY <1>2, <2>3
<1>3. CASE reading = "body" BY <1>1, <1>3 DEF ReaderInStep
<1> QED BY <1>2, <1>3

\* A read length is that of the text the reader is at.
LEMMA LengthRead ==
    ASSUME ChannelInv, reading = "length", got = LengthSize
    PROVE  LET next == Len(received) + 1 IN
           /\ next \in DOMAIN sent
           /\ taken - LengthSize = sent[next].at
           /\ Word(taken - LengthSize) = sent[next].text.size
<1> DEFINE next == Len(received) + 1
<1>1. next \in DOMAIN sent BY ReaderBelowOffered, FrameTypes DEF ChannelInv
<1>2. taken - LengthSize = sent[next].at
  BY <1>1, FrameTypes DEF ChannelInv, ReaderInStep, Start, ChannelTypeOK
<1>3. Word(sent[next].at) = sent[next].text.size BY <1>1, FrameAt DEF Word
<1> QED BY <1>1, <1>2, <1>3

\* A read body is the text the reader is at.
LEMMA BodyRead ==
    ASSUME ChannelInv, reading = "body", got = hsize
    PROVE  LET next == Len(received) + 1 IN
           /\ next \in DOMAIN sent
           /\ Parse(taken - got - LengthSize, got) = sent[next].text
           /\ taken = End(sent[next])
<1> DEFINE next == Len(received) + 1
<1>1. next \in DOMAIN sent /\ hsize = sent[next].text.size
      /\ taken = sent[next].at + LengthSize + got
  BY DEF ChannelInv, ReaderInStep
<1>2. taken - got - LengthSize = sent[next].at
  <2>1. sent[next].at \in Nat /\ LengthSize \in Nat /\ got \in Nat
    BY <1>1, FrameTypes DEF ChannelInv, ChannelTypeOK
  <2>2. taken = sent[next].at + LengthSize + got BY <1>1
  <2> HIDE DEF next
  <2> QED BY ONLY <2>1, <2>2
<1>3. got # 0 /\ got = sent[next].text.size BY <1>1, FrameTypes DEF ChannelInv
<1>4. Word(sent[next].at) = got BY <1>1, <1>3, FrameAt DEF Word
<1>5. Parse(sent[next].at, got) = sent[next].text BY <1>1, <1>3, <1>4, FrameAt DEF Parse
<1>6. taken = End(sent[next]) BY <1>1, <1>3, FrameTypes DEF ChannelInv, ChannelTypeOK, End
<1> QED BY <1>1, <1>2, <1>5, <1>6

LEMMA WriteSomeKeeps ==
    ASSUME ChannelInv, WriteSome
    PROVE  ChannelInv'
<1>1. PICK n \in written + 1 .. Offered : written' = n BY DEF WriteSome
<1>2. Offered' = Offered /\ \A k : Start(k)' = Start(k) BY DEF WriteSome, Offered, Start, End
<1>3. ChannelTypeOK' BY <1>1, FrameTypes DEF WriteSome, ChannelInv, ChannelTypeOK
<1>4. FramesInOrder' BY DEF WriteSome, ChannelInv, FramesInOrder, End
<1>5. ReaderInStep' BY <1>1, <1>2, FrameTypes DEF WriteSome, ChannelInv, ChannelTypeOK, ReaderInStep
<1> QED BY <1>3, <1>4, <1>5 DEF ChannelInv

LEMMA ReadSomeKeeps ==
    ASSUME ChannelInv, ReadSome
    PROVE  ChannelInv'
<1>1. PICK n \in 1 .. Wanted - got :
        taken + n <= written /\ taken' = taken + n /\ got' = got + n
  BY DEF ReadSome
<1>2. UNCHANGED <<sent, written, reading, hsize, received, broken>> /\ reading # "idle"
  BY DEF ReadSome
<1>3. Offered' = Offered /\ \A k : Start(k)' = Start(k) BY <1>2 DEF Offered, Start, End
<1>4. Wanted = IF reading = "length" THEN LengthSize ELSE hsize BY DEF Wanted
<1>5. n \in Nat /\ got + n <= Wanted BY <1>1, <1>4, FrameTypes DEF ChannelInv, ChannelTypeOK
<1>6. ChannelTypeOK' BY <1>1, <1>2, <1>5 DEF ChannelInv, ChannelTypeOK
<1>7. FramesInOrder' BY <1>2 DEF ChannelInv, FramesInOrder, End
<1>8. ReaderInStep'
  <2>1. ~broken BY <1>2 DEF ChannelInv, ReaderInStep
  <2>2. Offered \in Nat /\ LengthSize \in Nat BY FrameTypes DEF ChannelInv
  <2>3. CASE reading = "length"
    <3>1. Start(Len(received) + 1) \in Nat BY FrameTypes, <2>2 DEF ChannelInv, Start
    <3> QED BY <1>1, <1>2, <1>3, <1>4, <1>5, <2>1, <2>2, <2>3, <3>1
            DEF ChannelInv, ChannelTypeOK, ReaderInStep
  <2>4. CASE reading = "body"
    <3> DEFINE at == sent[Len(received) + 1].at
    <3>1. /\ Len(received) + 1 \in DOMAIN sent /\ hsize = sent[Len(received) + 1].text.size
          /\ taken = at + LengthSize + got /\ Len(received) <= Len(sent)
      BY <2>1, <2>4 DEF ChannelInv, ReaderInStep
    <3>2. at \in Nat BY <3>1, FrameTypes DEF ChannelInv
    <3>3. taken' = at + LengthSize + got'
      <4>1. got \in Nat BY DEF ChannelInv, ChannelTypeOK
      <4> HIDE DEF at
      <4> QED BY <1>1, <1>5, <2>2, <3>1, <3>2, <4>1
    <3>4. got' <= hsize' BY <1>1, <1>2, <1>4, <1>5, <2>4
    <3>5. written <= Offered BY DEF ChannelInv, ReaderInStep
    <3> QED BY <1>1, <1>2, <1>3, <2>1, <2>4, <3>1, <3>3, <3>4, <3>5 DEF ReaderInStep
  <2> QED BY <1>2, <2>3, <2>4 DEF ChannelInv, ChannelTypeOK
<1> QED BY <1>6, <1>7, <1>8 DEF ChannelInv

LEMMA LengthIsReadKeeps ==
    ASSUME ChannelInv, LengthIsRead
    PROVE  ChannelInv'
<1> DEFINE next == Len(received) + 1
<1>1. /\ next \in DOMAIN sent
      /\ taken - LengthSize = sent[next].at
      /\ hsize' = sent[next].text.size
  BY LengthRead DEF LengthIsRead
<1>2. Offered' = Offered BY DEF LengthIsRead, Offered, End
<1>3. ChannelTypeOK' BY <1>1, FrameTypes DEF LengthIsRead, ChannelInv, ChannelTypeOK
<1>4. FramesInOrder' BY DEF LengthIsRead, ChannelInv, FramesInOrder, End
<1>5. ReaderInStep'
  <2>1. sent[next].at \in Nat /\ LengthSize \in Nat BY <1>1, FrameTypes DEF ChannelInv
  <2>2. taken' = sent[next].at + LengthSize + got' /\ got' = 0 /\ 0 <= hsize'
    BY <1>1, <2>1, FrameTypes DEF LengthIsRead, ChannelInv, ChannelTypeOK
  <2> QED BY <1>1, <1>2, <2>2 DEF LengthIsRead, ChannelInv, ReaderInStep
<1> QED BY <1>3, <1>4, <1>5 DEF ChannelInv

LEMMA BodyIsReadKeeps ==
    ASSUME ChannelInv, BodyIsRead
    PROVE  /\ ChannelInv'
           /\ Len(received) + 1 \in DOMAIN sent
           /\ received' = Append(received, sent[Len(received) + 1].text)
           /\ UNCHANGED <<sent, broken>> /\ ~broken
<1> DEFINE next == Len(received) + 1
<1>1. next \in DOMAIN sent /\ taken = End(sent[next])
      /\ received' = Append(received, sent[next].text)
  BY BodyRead DEF BodyIsRead
<1>2. ~broken BY DEF BodyIsRead, ChannelInv, ReaderInStep
<1>3. Offered' = Offered /\ \A k : Start(k)' = Start(k) BY DEF BodyIsRead, Offered, Start, End
<1>4. sent[next].text \in AllTexts BY <1>1, FrameTypes DEF ChannelInv
<1>5. ChannelTypeOK' BY <1>1, <1>4 DEF BodyIsRead, ChannelInv, ChannelTypeOK
<1>6. FramesInOrder' BY DEF BodyIsRead, ChannelInv, FramesInOrder, End
<1>7. Len(received') = Len(received) + 1 BY <1>1, <1>4 DEF ChannelInv, ChannelTypeOK
<1>8. taken = Start(next + 1)
  <2>1. CASE next + 1 \in DOMAIN sent BY <1>1, <2>1 DEF ChannelInv, FramesInOrder, Start
  <2>2. CASE next + 1 \notin DOMAIN sent
    <3>1. next = Len(sent)
      <4>1. Len(received) \in Nat /\ Len(sent) \in Nat /\ DOMAIN sent = 1 .. Len(sent)
        BY FrameTypes DEF ChannelInv
      <4>2. \A n \in Nat : \A k \in 1 .. n : k + 1 \notin 1 .. n => k = n OBVIOUS
      <4> QED BY <1>1, <2>2, <4>1, <4>2, Zenon
    <3>2. sent # <<>> BY <1>1
    <3> QED BY <1>1, <2>2, <3>1, <3>2 DEF Start, Offered
  <2> QED BY <2>1, <2>2
<1>9. ReaderInStep'
  BY <1>1, <1>2, <1>3, <1>7, <1>8, FrameTypes DEF BodyIsRead, ChannelInv, ReaderInStep
<1> QED BY <1>1, <1>2, <1>5, <1>6, <1>9 DEF ChannelInv, BodyIsRead

LEMMA FailureKeeps ==
    ASSUME ChannelInv, JsonFails
    PROVE  ChannelInv'
<1>1. Offered' = Offered BY DEF JsonFails, Offered, End
<1>2. ChannelTypeOK' BY DEF JsonFails, ChannelInv, ChannelTypeOK
<1>3. FramesInOrder' BY DEF JsonFails, ChannelInv, FramesInOrder, End
<1>4. ReaderInStep' BY <1>1 DEF JsonFails, ChannelInv, ReaderInStep
<1> QED BY <1>2, <1>3, <1>4 DEF ChannelInv

LEMMA OpenKeeps ==
    ASSUME ChannelTypeOK, NEW text \in AllTexts, NEW max, Open(text, max)
    PROVE  ChannelInv'
<1>1. sent' = <<Frame(0, text)>> /\ Len(sent') = 1 /\ DOMAIN sent' = {1} BY DEF Open
<1>2. text.size \in Nat \ {0} BY TextSizes
<1>3. Frame(0, text) \in [at : Nat, text : AllTexts] BY DEF Frame
<1>4. ChannelTypeOK'
  <2>1. sent' \in Seq([at : Nat, text : AllTexts]) BY <1>1, <1>3, SingletonType
  <2>2. received' \in Seq(AllTexts \cup {Garbage}) BY DEF Open
  <2> QED BY <2>1, <2>2 DEF Open, ChannelTypeOK
<1>5. sent'[1].at = 0 BY <1>1 DEF Frame
<1>6. FramesInOrder' BY <1>1, <1>5 DEF FramesInOrder
<1>7. Offered' = LengthSize + text.size
  <2>1. End(Frame(0, text)) = LengthSize + text.size
    BY <1>2, LengthAssumption DEF End, Frame
  <2> QED BY <1>1, <2>1 DEF Offered, End
<1>8. Start(1)' = 0 BY <1>1, <1>5 DEF Start
<1>9. ReaderInStep' BY <1>1, <1>2, <1>7, <1>8, LengthAssumption DEF Open, ReaderInStep
<1> QED BY <1>4, <1>6, <1>9 DEF ChannelInv

LEMMA AppendKeeps ==
    ASSUME ChannelInv, written = Offered, reading = "idle", ~broken,
           NEW text \in AllTexts,
           sent' = Append(sent, Frame(Offered, text)),
           reading' = "length", got' = 0,
           UNCHANGED <<written, taken, hsize, received, broken>>
    PROVE  ChannelInv'
<1> DEFINE frame == Frame(Offered, text)
<1>1. text.size \in Nat \ {0} /\ LengthSize \in Nat \ {0} /\ Offered \in Nat
  BY TextSizes, FrameTypes DEF ChannelInv
<1>2. frame \in [at : Nat, text : AllTexts] /\ frame.at = Offered BY <1>1 DEF Frame
<1>3. End(frame) = Offered + LengthSize + text.size BY DEF End, Frame
<1>4. sent \in Seq([at : Nat, text : AllTexts]) /\ Len(sent) \in Nat /\ Len(received) \in Nat
  BY FrameTypes DEF ChannelInv, ChannelTypeOK
<1> HIDE DEF frame
<1>5. /\ sent' \in Seq([at : Nat, text : AllTexts])
      /\ DOMAIN sent = 1 .. Len(sent) /\ DOMAIN sent' = 1 .. Len(sent) + 1
      /\ Len(sent') = Len(sent) + 1
      /\ sent'[Len(sent) + 1] = frame
      /\ \A i \in DOMAIN sent : sent'[i] = sent[i]
  BY <1>2, <1>4 DEF frame
<1>6. Offered' = Offered + LengthSize + text.size
  <2>1. sent' # <<>> BY <1>4, <1>5
  <2> QED BY <1>3, <1>5, <2>1 DEF Offered, End
<1>7. ChannelTypeOK' BY <1>5 DEF ChannelInv, ChannelTypeOK
<1>8. FramesInOrder'
  <2>1. ASSUME NEW i \in DOMAIN sent', NEW j \in DOMAIN sent', i < j
        PROVE  End(sent'[i]) <= sent'[j].at
    <3>1. i \in DOMAIN sent BY <1>4, <1>5, <2>1
    <3>2. CASE j \in DOMAIN sent BY <1>5, <2>1, <3>1, <3>2 DEF ChannelInv, FramesInOrder
    <3>3. CASE j = Len(sent) + 1
      BY <1>2, <1>5, <3>1, <3>3, NothingBeyondTheLast
    <3> QED BY <1>4, <1>5, <3>2, <3>3
  <2>2. ASSUME NEW i \in DOMAIN sent', i + 1 \in DOMAIN sent'
        PROVE  sent'[i + 1].at = End(sent'[i])
    <3>1. i \in DOMAIN sent BY <1>4, <1>5, <2>2
    <3>2. CASE i + 1 \in DOMAIN sent BY <1>5, <2>2, <3>1, <3>2 DEF ChannelInv, FramesInOrder
    <3>3. CASE i = Len(sent)
      <4>1. Offered = End(sent[i]) BY <3>1, <3>3 DEF Offered
      <4> QED BY <1>2, <1>5, <3>1, <3>3, <4>1
    <3> QED BY <1>4, <1>5, <3>1, <3>2, <3>3
  <2>3. sent' # <<>> => sent'[1].at = 0
    <3>1. CASE sent = <<>> BY <1>2, <1>5, <3>1 DEF Offered
    <3>2. CASE sent # <<>>
      <4>1. 1 \in DOMAIN sent BY <1>4, <1>5, <3>2
      <4> QED BY <1>5, <3>2, <4>1 DEF ChannelInv, FramesInOrder
    <3> QED BY <3>1, <3>2
  <2> QED BY <2>1, <2>2, <2>3 DEF FramesInOrder, End
<1>9. Start(Len(received) + 1)' = Start(Len(received) + 1)
  <2> DEFINE next == Len(received) + 1
  <2>1. next \in 1 .. Len(sent) + 1 BY <1>4 DEF ChannelInv, ReaderInStep
  <2>2. CASE next \in DOMAIN sent BY <1>5, <2>2 DEF Start
  <2>3. CASE next \notin DOMAIN sent
    <3>1. next = Len(sent) + 1 BY <1>4, <1>5, <2>1, <2>3
    <3> QED BY <1>2, <1>5, <2>3, <3>1 DEF Start
  <2> QED BY <2>2, <2>3
<1>10. ReaderInStep'
  BY <1>1, <1>4, <1>5, <1>6, <1>9 DEF ChannelInv, ChannelTypeOK, ReaderInStep
<1> QED BY <1>7, <1>8, <1>10 DEF ChannelInv

----------------------------------------------------------------------------
(* The settings of a test.                                                 *)

\* Nothing is left over from the tests before.
Fresh == \A f \in Fields \ Kept : settings[f] = Defaults[f]

\* What makes ServedAsAsked inductive: the settings are fresh until the one text
\* that the server can read is the one with the parameters of this client.
SettingsInv ==
    /\ TypeOK /\ ChannelInv
    /\ stage = "accept" => Fresh
    /\ stage = "parameters" =>
        Fresh /\ sent = <<Frame(0, ParametersText(asked))>> /\ received = <<>>
    /\ ServedAsAsked

LEMMA RequestTypes ==
    /\ \A r \in Requests : r \in [Fields -> Nat] /\ ParametersText(r) \in AllTexts
    /\ ResultsText \in AllTexts
    /\ Defaults \in [Fields -> Nat]
    /\ MaxTests \in Nat
BY SetupAssumption DEF AllTexts, Defaults

LEMMA AppliedAsAsked ==
    ASSUME asked \in [Fields -> Nat], settings \in [Fields -> Nat], Fresh
    PROVE  LET new == Apply(ParametersText(asked).values) IN
           /\ new \in [Fields -> Nat]
           /\ \A f \in Fields \ Kept : new[f] = asked[f]
<1> DEFINE values == ParametersText(asked).values
<1>1. values = [f \in SentFields(asked) |-> asked[f]] BY DEF ParametersText
<1>2. SentFields(asked) \subseteq Fields BY DEF SentFields, Fields
<1>3. DOMAIN values = SentFields(asked) /\ \A f \in SentFields(asked) : values[f] = asked[f] BY <1>1
<1> HIDE DEF values
<1>4. \A f \in Fields : Apply(values)[f] =
        IF f \in SentFields(asked) THEN asked[f]
        ELSE IF f \in {"num", "blockcount"} THEN 0 ELSE settings[f]
  BY <1>3 DEF Apply
<1>5. Apply(values) \in [Fields -> Nat] BY <1>2, <1>3 DEF Apply
<1>6. ASSUME NEW f \in Fields \ Kept PROVE Apply(values)[f] = asked[f]
  <2>1. CASE f \in SentFields(asked) BY <1>4, <2>1
  <2>2. CASE f \notin SentFields(asked)
    <3>1. f \notin AlwaysSent /\ f \in Optional /\ asked[f] = 0 BY <1>6, <2>2 DEF SentFields, Fields
    <3>2. f \notin {"num", "blockcount", "parallel"} BY <3>1 DEF AlwaysSent
    <3>3. settings[f] = 0 BY <1>6, <3>2 DEF Fresh, Defaults
    <3> QED BY <1>4, <2>2, <3>1, <3>2, <3>3
  <2> QED BY <2>1, <2>2
<1> QED BY <1>5, <1>6 DEF values

\* Steps that leave the settings and the texts alone and do not begin a test.
LEMMA SettingsUntouched ==
    ASSUME SettingsInv, TypeOK', ChannelInv', UNCHANGED <<settings, asked>>,
           stage' = "accept" => stage = "accept",
           stage' = "parameters" => stage = "parameters" /\ UNCHANGED <<sent, received>>,
           stage' \in {"parameters_read", "streams", "running", "results"} =>
               stage \in {"parameters_read", "streams", "running", "results"}
    PROVE  SettingsInv'
<1>1. ServedAsAsked' BY DEF SettingsInv, ServedAsAsked
<1>2. stage' = "accept" => Fresh' BY DEF SettingsInv, Fresh
<1>3. stage' = "parameters" =>
        (Fresh /\ sent = <<Frame(0, ParametersText(asked))>> /\ received = <<>>)'
  BY DEF SettingsInv, Fresh
<1> QED BY <1>1, <1>2, <1>3 DEF SettingsInv

LEMMA ChannelUntouched == ASSUME ChannelInv, UNCHANGED channel PROVE ChannelInv'
BY DEF channel, ChannelInv, ChannelTypeOK, FramesInOrder, ReaderInStep, Start, Offered, End

LEMMA SettingsInit == Init => SettingsInv
<1> SUFFICES ASSUME Init PROVE SettingsInv OBVIOUS
<1> USE DEF Init, ChannelInit
<1>1. TypeOK BY RequestTypes DEF TypeOK
<1>2. ChannelTypeOK
  <2>1. \A S : <<>> \in Seq(S) OBVIOUS
  <2> QED BY <2>1 DEF ChannelTypeOK
<1>3. Offered = 0 /\ Start(1) = 0 BY DEF Offered, Start
<1>4. ChannelInv BY <1>2, <1>3 DEF ChannelInv, FramesInOrder, ReaderInStep
<1> QED BY <1>1, <1>4 DEF SettingsInv, Fresh, ServedAsAsked

LEMMA SettingsStep == ASSUME SettingsInv, [Next]_vars PROVE SettingsInv'
<1> USE DEF SettingsInv
<1>1. CASE Connect
  <2>1. PICK request \in Requests :
            asked' = request /\ Open(ParametersText(request), MaxParams)
    BY <1>1 DEF Connect
  <2>2. ChannelInv' BY <2>1, OpenKeeps, RequestTypes DEF ChannelInv
  <2>3. TypeOK' BY <1>1, <2>1, RequestTypes DEF Connect, TypeOK
  <2>4. Fresh' BY <1>1 DEF Connect, Fresh
  <2>5. sent' = <<Frame(0, ParametersText(asked'))>> /\ received' = <<>> BY <2>1 DEF Open
  <2>6. stage' = "parameters" BY <1>1 DEF Connect
  <2> QED BY <2>2, <2>3, <2>4, <2>5, <2>6 DEF ServedAsAsked, ParametersText, Frame, SentFields
<1>2. CASE Transfer
  <2>1. ChannelInv'
    BY <1>2, WriteSomeKeeps, ReadSomeKeeps, LengthIsReadKeeps DEF Transfer
  <2>2. TypeOK' BY <1>2 DEF Transfer, TypeOK
  <2>3. UNCHANGED <<sent, received>>
    BY <1>2 DEF Transfer, WriteSome, ReadSome, LengthIsRead
  <2> QED BY <1>2, <2>1, <2>2, <2>3, SettingsUntouched DEF Transfer
<1>3. CASE GetParameters
  <2>1. /\ ChannelInv' /\ received' = Append(received, sent[Len(received) + 1].text)
    BY <1>3, BodyIsReadKeeps DEF GetParameters
  <2>2. received' = <<ParametersText(asked)>>
    BY <1>3, <2>1 DEF GetParameters, Frame
  <2>3. received'[Len(received')].values = ParametersText(asked).values BY <2>2
  <2>4. settings' = Apply(ParametersText(asked).values) BY <1>3, <2>3 DEF GetParameters
  <2>5. Fresh /\ asked \in [Fields -> Nat] /\ settings \in [Fields -> Nat]
    BY <1>3 DEF GetParameters, TypeOK
  <2>6. settings' \in [Fields -> Nat] /\ \A f \in Fields \ Kept : settings'[f] = asked[f]
    BY <2>4, <2>5, AppliedAsAsked
  <2>7. stage' = "parameters_read" /\ UNCHANGED <<phase, asked, tests>> BY <1>3 DEF GetParameters
  <2>8. TypeOK' BY <2>6, <2>7 DEF TypeOK
  <2> QED BY <2>1, <2>6, <2>7, <2>8 DEF ServedAsAsked
<1>4. CASE CreateStreams
  <2>1. ChannelInv' BY <1>4, ChannelUntouched DEF CreateStreams
  <2>2. TypeOK' BY <1>4 DEF CreateStreams, TypeOK
  <2> QED BY <1>4, <2>1, <2>2, SettingsUntouched DEF CreateStreams
<1>5. CASE ServerTakesHello
  <2>1. ChannelInv' BY <1>5, ChannelUntouched DEF ServerTakesHello
  <2>2. \/ settings' = settings
        \/ settings["window"] = 0 /\ settings' = [settings EXCEPT !["window"] = 1]
    BY <1>5 DEF ServerTakesHello
  <2>3. stage = "streams" /\ UNCHANGED <<stage, phase, asked, tests>> BY <1>5 DEF ServerTakesHello
  <2>4. "window" \in Fields \ Kept BY DEF Fields, Optional, Kept
  <2>5. TypeOK' BY <2>2, <2>3 DEF TypeOK
  <2>6. ServedAsAsked' BY <2>2, <2>3, <2>4 DEF ServedAsAsked, TypeOK
  <2> QED BY <2>1, <2>3, <2>5, <2>6
<1>6. CASE ServerAccepts
  <2>1. ChannelInv' BY <1>6, ChannelUntouched DEF ServerAccepts
  <2>2. TypeOK' BY <1>6 DEF ServerAccepts, TypeOK
  <2> QED BY <1>6, <2>1, <2>2, SettingsUntouched DEF ServerAccepts
<1>7. CASE GetResults
  <2>1. ChannelInv' BY <1>7, BodyIsReadKeeps DEF GetResults
  <2>2. TypeOK' BY <1>7 DEF GetResults, TypeOK
  <2> QED BY <1>7, <2>1, <2>2, SettingsUntouched DEF GetResults
<1>8. CASE ClientIsGone
  <2>1. ChannelInv' BY <1>8, ChannelUntouched DEF ClientIsGone
  <2>2. TypeOK' BY <1>8 DEF ClientIsGone, TypeOK
  <2> QED BY <1>8, <2>1, <2>2, SettingsUntouched DEF ClientIsGone
<1>9. CASE ServerFails
  <2>1. JsonFails \/ UNCHANGED channel BY <1>9 DEF ServerFails, ReadEnds, LengthRefused
  <2>2. ChannelInv' BY <2>1, FailureKeeps, ChannelUntouched
  <2>3. TypeOK' BY <1>9 DEF ServerFails, TypeOK
  <2> QED BY <1>9, <2>2, <2>3, SettingsUntouched DEF ServerFails
<1>10. CASE ResetTest
  <2>1. ChannelInv' BY <1>10, ChannelUntouched DEF ResetTest
  <2>2. TypeOK' BY <1>10, RequestTypes DEF ResetTest, TypeOK
  <2>3. Fresh' /\ stage' = "accept" BY <1>10 DEF ResetTest, Fresh
  <2> QED BY <2>1, <2>2, <2>3 DEF ServedAsAsked
<1>11. CASE StartAgain
  <2>1. ChannelInv' BY <1>11, ChannelUntouched DEF StartAgain
  <2>2. TypeOK' BY <1>11, RequestTypes DEF StartAgain, TypeOK
  <2>3. Fresh' /\ stage' = "accept" BY <1>11 DEF StartAgain, Fresh
  <2> QED BY <2>1, <2>2, <2>3 DEF ServedAsAsked
<1>12. CASE ConnectStream
  <2>1. ChannelInv' BY <1>12, ChannelUntouched DEF ConnectStream
  <2>2. TypeOK' BY <1>12 DEF ConnectStream, TypeOK
  <2> QED BY <1>12, <2>1, <2>2, SettingsUntouched DEF ConnectStream, channel
<1>13. CASE StreamConnected
  <2>1. ChannelInv' BY <1>13, ChannelUntouched DEF StreamConnected
  <2>2. TypeOK' BY <1>13 DEF StreamConnected, TypeOK
  <2> QED BY <1>13, <2>1, <2>2, SettingsUntouched DEF StreamConnected, channel
<1>14. CASE ClientRuns
  <2>1. ChannelInv' BY <1>14, ChannelUntouched DEF ClientRuns
  <2>2. TypeOK' BY <1>14 DEF ClientRuns, TypeOK
  <2> QED BY <1>14, <2>1, <2>2, SettingsUntouched DEF ClientRuns
<1>15. CASE ExchangeResults
  <2>1. ChannelInv' BY <1>15, AppendKeeps, RequestTypes DEF ExchangeResults
  <2>2. TypeOK' BY <1>15 DEF ExchangeResults, TypeOK
  <2> QED BY <1>15, <2>1, <2>2, SettingsUntouched DEF ExchangeResults
<1>16. CASE ClientFails
  <2>1. ChannelInv' BY <1>16, ChannelUntouched DEF ClientFails
  <2>2. TypeOK' BY <1>16 DEF ClientFails, TypeOK
  <2> QED BY <1>16, <2>1, <2>2, SettingsUntouched DEF ClientFails, channel
<1>17. CASE DeliverHello
  <2>1. ChannelInv' BY <1>17, ChannelUntouched DEF DeliverHello
  <2>2. TypeOK' BY <1>17 DEF DeliverHello, TypeOK
  <2> QED BY <1>17, <2>1, <2>2, SettingsUntouched DEF DeliverHello, channel
<1>18. CASE UNCHANGED vars
  <2>1. ChannelInv' BY <1>18, ChannelUntouched DEF vars
  <2>2. TypeOK' BY <1>18 DEF vars, TypeOK
  <2> QED BY <1>18, <2>1, <2>2, SettingsUntouched DEF vars, channel
<1> QED BY <1>1, <1>2, <1>3, <1>4, <1>5, <1>6, <1>7, <1>8, <1>9, <1>10, <1>11, <1>12, <1>13,
           <1>14, <1>15, <1>16, <1>17, <1>18 DEF Next, ServerStep, ClientStep, Over

\* Every variable of the setup keeps its type.
THEOREM TypeCorrect == Spec => []TypeOK
<1>1. SettingsInv => TypeOK BY DEF SettingsInv
<1> QED BY <1>1, SettingsInit, SettingsStep, PTL DEF Spec

\* However the tests before it ended, a test runs with its own client's settings.
THEOREM SettingsAreTheClients == Spec => []ServedAsAsked
<1>1. SettingsInv => ServedAsAsked BY DEF SettingsInv
<1> QED BY <1>1, SettingsInit, SettingsStep, PTL DEF Spec

----------------------------------------------------------------------------
(* The refinement.                                                         *)

LEMMA TextsOfFrames ==
    ASSUME ChannelTypeOK
    PROVE  /\ Len(SentTexts) = Len(sent)
           /\ \A i \in DOMAIN sent : SentTexts[i] = sent[i].text
<1>1. SentTexts = [i \in 1 .. Len(sent) |-> sent[i].text] BY DEF SentTexts, ChannelTypeOK
<1>2. Len(sent) \in Nat BY DEF ChannelTypeOK
<1> QED BY <1>1, <1>2, FrameTypes

LEMMA AppendElements ==
    ASSUME NEW S, NEW seq \in Seq(S), NEW x \in S
    PROVE  Append(seq, x) = [i \in 1 .. Len(seq) + 1 |-> IF i = Len(seq) + 1 THEN x ELSE seq[i]]
<1> DEFINE longer == [i \in 1 .. Len(seq) + 1 |-> IF i = Len(seq) + 1 THEN x ELSE seq[i]]
<1>1. Len(seq) \in Nat OBVIOUS
<1>2. longer \in Seq(S) /\ Len(longer) = Len(seq) + 1 BY <1>1
<1>3. Append(seq, x) \in Seq(S) /\ Len(Append(seq, x)) = Len(seq) + 1 OBVIOUS
<1>4. \A i \in 1 .. Len(seq) + 1 : Append(seq, x)[i] = longer[i] BY <1>1
<1> HIDE DEF longer
<1>5. \A s, t \in Seq(S) : Len(s) = Len(t) /\ (\A i \in 1 .. Len(s) : s[i] = t[i]) => s = t OBVIOUS
<1>6. Append(seq, x) = longer BY <1>2, <1>3, <1>4, <1>5
<1> QED BY <1>6 DEF longer

LEMMA TextsOfAppend ==
    ASSUME ChannelTypeOK, NEW at \in Nat, NEW text \in AllTexts,
           sent' = Append(sent, Frame(at, text))
    PROVE  SentTexts' = Append(SentTexts, text)
<1> DEFINE n == Len(sent)
<1>1. n \in Nat /\ DOMAIN sent = 1 .. n /\ \A i \in 1 .. n : sent[i].text \in AllTexts
  BY FrameTypes
<1>2. Frame(at, text) \in [at : Nat, text : AllTexts] /\ Frame(at, text).text = text BY DEF Frame
<1>3. /\ DOMAIN sent' = 1 .. n + 1 /\ sent'[n + 1].text = text
      /\ \A i \in 1 .. n : sent'[i] = sent[i]
  BY <1>1, <1>2 DEF ChannelTypeOK
<1>4. SentTexts \in Seq(AllTexts) /\ Len(SentTexts) = n /\ \A i \in 1 .. n : SentTexts[i] = sent[i].text
  BY <1>1 DEF SentTexts
<1>5. SentTexts' = [i \in 1 .. n + 1 |-> IF i = n + 1 THEN text ELSE sent[i].text]
  BY <1>1, <1>3 DEF SentTexts
<1>6. Append(SentTexts, text) = [i \in 1 .. n + 1 |-> IF i = n + 1 THEN text ELSE SentTexts[i]]
  BY <1>4, AppendElements
<1> QED BY <1>1, <1>4, <1>5, <1>6

LEMMA ChannelSteps == ASSUME SettingsInv, [Next]_vars PROVE [Messages!Next]_(Messages!vars)
<1> USE DEF SettingsInv, Messages!vars
<1> DEFINE Same == UNCHANGED <<sent, received, broken>>
<1>1. Same => UNCHANGED <<SentTexts, received, broken>> BY DEF SentTexts
<1>2. ChannelTypeOK BY DEF ChannelInv
<1>3. CASE Connect
  <2>1. PICK request \in Requests : Open(ParametersText(request), MaxParams) BY <1>3 DEF Connect
  <2>2. SentTexts' = <<ParametersText(request)>> BY <2>1 DEF Open, SentTexts, Frame
  <2>3. Messages!Open BY <2>1, <2>2, RequestTypes DEF Open, Messages!Open
  <2> QED BY <2>3 DEF Messages!Next
<1>4. CASE GetParameters \/ GetResults
  <2>1. /\ Len(received) + 1 \in DOMAIN sent
        /\ received' = Append(received, sent[Len(received) + 1].text)
        /\ UNCHANGED <<sent, broken>> /\ ~broken
    BY <1>4, BodyIsReadKeeps DEF GetParameters, GetResults
  <2>2. UNCHANGED SentTexts BY <2>1 DEF SentTexts
  <2>3. Len(received) < Len(SentTexts) BY <1>2, <2>1, TextsOfFrames, FrameTypes
  <2>4. received' = Append(received, SentTexts[Len(received) + 1]) BY <1>2, <2>1, TextsOfFrames
  <2>5. Messages!Receive BY <2>1, <2>2, <2>3, <2>4 DEF Messages!Receive
  <2> QED BY <2>5 DEF Messages!Next
<1>5. CASE ExchangeResults
  <2>1. SentTexts' = Append(SentTexts, ResultsText)
    BY <1>2, <1>5, TextsOfAppend, RequestTypes, FrameTypes DEF ExchangeResults
  <2>2. Messages!Send BY <1>5, <2>1, RequestTypes DEF ExchangeResults, Messages!Send
  <2> QED BY <2>2 DEF Messages!Next
<1>6. CASE ServerFails
  <2>1. CASE UNCHANGED channel BY <1>1, <2>1 DEF channel
  <2>2. CASE ReadEnds \/ LengthRefused
    <3>1. JsonFails /\ reading # "idle" BY <2>2 DEF ReadEnds, LengthRefused
    <3>2. ~broken BY <3>1 DEF ChannelInv, ReaderInStep
    <3>3. Messages!Break BY <3>1, <3>2 DEF JsonFails, Messages!Break, SentTexts
    <3> QED BY <3>3 DEF Messages!Next
  <2> QED BY <1>6, <2>1, <2>2 DEF ServerFails
<1>7. CASE Transfer BY <1>1, <1>7 DEF Transfer, WriteSome, ReadSome, LengthIsRead
<1>8. CASE CreateStreams \/ ServerTakesHello \/ ServerAccepts \/ ClientIsGone \/ ResetTest
           \/ StartAgain \/ ConnectStream \/ StreamConnected \/ ClientRuns \/ ClientFails
           \/ DeliverHello \/ UNCHANGED vars
  BY <1>1, <1>8 DEF CreateStreams, ServerTakesHello, ServerAccepts, ClientIsGone, ResetTest,
     StartAgain, ConnectStream, StreamConnected, ClientRuns, ClientFails, DeliverHello, vars, channel
<1> QED BY <1>3, <1>4, <1>5, <1>6, <1>7, <1>8 DEF Next, ServerStep, ClientStep, Over

\* JSON texts over Nread and Nwrite are what MessageChannel promises: the reader
\* gets the texts whole and in order, or reads no more.
THEOREM TextsArriveWhole == Spec => ImplementsMessageChannel
<1>1. Init => Messages!Init BY DEF Init, ChannelInit, Messages!Init, SentTexts
<1>2. SettingsInv /\ [Next]_vars => [Messages!Next]_(Messages!vars) BY ChannelSteps
<1> QED BY <1>1, <1>2, SettingsInit, SettingsStep, PTL DEF Spec, ImplementsMessageChannel, Messages!Spec

=============================================================================
