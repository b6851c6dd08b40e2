------------------------- MODULE StreamStatsProofs -------------------------
(* Theorems of StreamStats, for tests of any length.                          *)
EXTENDS StreamStats, FiniteSetTheorems, TLAPS

-----------------------------------------------------------------------------
(* Types                                                                      *)

LEMMA ClientIsAnEnd == ASSUME TypeOK PROVE client \in Ends /\ server \in Ends
  BY StreamStatsAssumption DEF TypeOK, TestKinds, client, server, Ends

\* The kind of the test does not change.
LEMMA TestStays == ASSUME [Next]_vars PROVE test' = test
  BY DEF vars, Next, ThreadStep, MainStep, Stamp, SendFails, Write, CountSent, Receive,
     Gate, AddToTotal, LoadTotal, StoreTotal, Gap, Forward, Backward, AddToInterval,
     LoadInterval, StoreInterval, OmitErrors, EndTest, SendTestEnd, HearTestEnd,
     CloseStreams, ServerReports, ClientReports, StatsRead, StatsAppend, OmitOver,
     OmitTotals, OmitInterval, SendResults, GetResults

\* The number in a datagram is the whole count where that fits, and never above it.
LEMMA Remainder ==
    ASSUME NEW d \in Nat, NEW n \in Nat \ {0}
    PROVE  /\ d % n \in Nat
           /\ d % n <= d
           /\ d < n => d % n = d
<1>1. d % n \in Nat
  OBVIOUS
<1>2. d % n <= d
  OBVIOUS
<1>3. d < n => d % n = d
  OBVIOUS
<1> QED
  BY <1>1, <1>2, <1>3

LEMMA NumberRead ==
    ASSUME TypeOK
    PROVE  /\ pcount(datagram) \in Nat
           /\ pcount(datagram) <= datagram
           /\ datagram < test.numbers => pcount(datagram) = datagram
<1>1. datagram \in Nat /\ test.numbers \in Nat \ {0}
  BY StreamStatsAssumption DEF TypeOK, ThreadTypes, TestKinds
<1> QED
  BY <1>1, Remainder DEF pcount

LEMMA NumberStays ==
    ASSUME test' = test, datagram' = datagram
    PROVE  pcount(datagram)' = pcount(datagram)
  BY DEF pcount

LEMMA ResultsType == ASSUME TypeOK, NEW e \in Ends PROVE Results(e) \in ResultType
  BY DEF Results, Packets, ResultType, TypeOK, CounterTypes, ResultTypes, Ends

LEMMA ReportsType == ASSUME TypeOK, NEW e \in Ends PROVE Report(e) \in ReportType
<1>1. Results(e) \in ResultType
  BY ResultsType
<1>2. peer[e] \in ResultType
  BY DEF TypeOK, ResultTypes
<1> QED
  BY <1>1, <1>2 DEF Report, ReportType, ResultType

LEMMA TypeStep == ASSUME TypeOK, [Next]_vars PROVE TypeOK'
<1> USE DEF TypeOK, ThreadTypes, CounterTypes, MainTypes, ResultTypes, ThreadPlaces, MainPlaces,
            threads, network, sequence, totals, omitted, mains, results, history
<1>1. \A e \in Ends : Results(e) \in ResultType
  BY ResultsType
<1>2. \A e \in Ends : Report(e) \in ReportType
  BY ReportsType
<1>3. TypeOK /\ Ends = {"sender", "receiver"}
  BY DEF Ends
<1>4. CASE Next
  <2>1. CASE Stamp
    BY <1>3, <2>1 DEF Stamp, At, Goto, udp
  <2>2. CASE SendFails
    BY <1>3, <2>2 DEF SendFails, At, Goto, udp
  <2>3. CASE Write
    BY <1>3, <2>3 DEF Write, At, Goto, udp
  <2>4. CASE CountSent
    BY <1>3, <2>4 DEF CountSent, At, Goto, udp
  <2>5. CASE Receive
    <3>1. PICK d \in net : datagram' = d
      BY <2>5 DEF Receive, Arrivals
    <3>2. d \in Nat \ {0} /\ net' \subseteq net /\ repeats' \in Nat
      BY <1>3, <2>5 DEF Receive, Arrivals
    <3> QED
      BY <1>3, <2>5, <3>1, <3>2 DEF Receive, At, Goto
  <2>6. CASE Gate
    BY <1>3, <2>6 DEF Gate, At, Goto, udp
  <2>7. CASE AddToTotal
    BY <1>3, <2>7 DEF AddToTotal, At, Goto, udp
  <2>8. CASE LoadTotal
    BY <1>3, <2>8 DEF LoadTotal, At, Goto, udp
  <2>9. CASE StoreTotal
    BY <1>3, <2>9 DEF StoreTotal, At, Goto, udp
  <2>10. CASE Gap
    <3>1. pcount(datagram) \in Nat
      BY <1>3, NumberRead
    <3> QED
      BY <1>3, <2>10, <3>1 DEF Gap, At, Goto, udp
  <2>11. CASE Forward
    <3>1. pcount(datagram) \in Nat
      BY <1>3, NumberRead
    <3> QED
      BY <1>3, <2>11, <3>1 DEF Forward, At, Goto, udp
  <2>12. CASE Backward
    BY <1>3, <2>12 DEF Backward, At, Goto, udp
  <2>13. CASE EndTest
    BY <1>3, <2>13 DEF EndTest, Move, client, server
  <2>14. CASE SendTestEnd
    BY <1>3, <2>14 DEF SendTestEnd, Move, client, server
  <2>15. CASE HearTestEnd
    BY <1>3, <2>15 DEF HearTestEnd, Move, client, server
  <2>16. CASE CloseStreams
    BY <1>3, <2>16 DEF CloseStreams, Move, client, server
  <2>17. CASE ServerReports
    BY <1>2, <1>3, <2>17 DEF ServerReports, Move, client, server
  <2>18. CASE ClientReports
    BY <1>2, <1>3, <2>18 DEF ClientReports, Move, client, server
  <2>19. ASSUME NEW e \in Ends, AddToInterval(e) PROVE TypeOK'
    BY <1>3, <2>19 DEF AddToInterval, At, Goto, AfterInterval, udp
  <2>20. ASSUME NEW e \in Ends, LoadInterval(e) PROVE TypeOK'
    BY <1>3, <2>20 DEF LoadInterval, At, Goto, AfterInterval, udp
  <2>21. ASSUME NEW e \in Ends, StoreInterval(e) PROVE TypeOK'
    BY <1>3, <2>21 DEF StoreInterval, At, Goto, AfterInterval, udp
  <2>22. ASSUME NEW e \in Ends, StatsRead(e) PROVE TypeOK'
    BY <1>3, <2>22 DEF StatsRead, Move, client, server
  <2>23. ASSUME NEW e \in Ends, StatsAppend(e) PROVE TypeOK'
    BY <1>3, <2>23 DEF StatsAppend, Move, client, server
  <2>24. ASSUME NEW e \in Ends, OmitOver(e) PROVE TypeOK'
    BY <1>3, <2>24 DEF OmitOver, Move, client, server, Packets
  <2>25. CASE OmitErrors
    BY <1>3, <2>25 DEF OmitErrors, Move, client, server
  <2>26. ASSUME NEW e \in Ends, OmitTotals(e) PROVE TypeOK'
    BY <1>3, <2>26 DEF OmitTotals, Move, client, server
  <2>27. ASSUME NEW e \in Ends, OmitInterval(e) PROVE TypeOK'
    BY <1>3, <2>27 DEF OmitInterval, Move, client, server
  <2>28. ASSUME NEW e \in Ends, SendResults(e) PROVE TypeOK'
    BY <1>1, <1>3, <2>28 DEF SendResults, Move, client, server
  <2>29. ASSUME NEW e \in Ends, GetResults(e) PROVE TypeOK'
    <3>1. PICK o \in Ends : peer' = [peer EXCEPT ![e] = posted[o]]
      BY <1>3, <2>29, ClientIsAnEnd DEF GetResults
    <3> QED
      BY <1>3, <2>29, <3>1 DEF GetResults, Move
  <2> QED
    BY <1>4, <2>1, <2>2, <2>3, <2>4, <2>5, <2>6, <2>7, <2>8, <2>9, <2>10, <2>11, <2>12,
           <2>13, <2>14, <2>15, <2>16, <2>17, <2>18, <2>19, <2>20, <2>21, <2>22, <2>23,
           <2>24, <2>25, <2>26, <2>27, <2>28, <2>29 DEF Next, ThreadStep, MainStep
<1>5. CASE UNCHANGED vars
  BY <1>5 DEF vars
<1> QED
  BY <1>4, <1>5

\* Every variable has its type.
THEOREM TypeCorrect == Spec => []TypeOK
<1>1. Init => TypeOK
  BY StreamStatsAssumption DEF Init, TestKinds, TypeOK, ThreadTypes, CounterTypes, MainTypes,
     ResultTypes, ThreadPlaces, MainPlaces, Nothing, NoReport, ResultType, ReportType, Ends
<1> QED
  BY <1>1, TypeStep, PTL DEF Spec

-----------------------------------------------------------------------------
(* Lost datagrams                                                             *)

\* Only datagrams that were written are on their way.
Wire == net \subseteq 1 .. written /\ datagram \in 0 .. written

\* LossIsExact and LossWithinPackets with what holds between the two writes of a
\* gap: the loss is counted, the highest number is still the old one.  What is
\* accounted for has its own number as long as none has wrapped; the rest holds also
\* afterwards.
Accounting ==
    written < test.numbers =>
        /\ accounted \subseteq 1 .. packet_count
        /\ thread["receiver"] = "highest" =>
            /\ cnt_error <= (datagram - 1) - Cardinality(accounted)
            /\ (datagram - 1) - Cardinality(accounted) <= cnt_error + repeated
        /\ LossIsExact

Omission ==
    /\ omitted_packets["receiver"] <= packet_count
    /\ thread["receiver"] = "highest" => packet_count < pcount(datagram)
    /\ (place["receiver"] # "errors" /\ thread["receiver"] = "highest") =>
         cnt_error - omitted_errors <= (pcount(datagram) - 1) - omitted_packets["receiver"]
    /\ LossWithinPackets

\* No more is lost than numbers were skipped.
Bounded ==
    IF thread["receiver"] = "highest"
    THEN cnt_error <= pcount(datagram) - 1
    ELSE cnt_error <= packet_count

LossInv == Wire /\ Accounting /\ Omission /\ Bounded

\* How many of the numbers up to n a set of them holds.
LEMMA SubsetSize ==
    ASSUME NEW n \in Nat, NEW S, S \subseteq 1 .. n
    PROVE  /\ IsFiniteSet(S)
           /\ Cardinality(S) \in Nat
           /\ Cardinality(S) <= n
<1>1. IsFiniteSet(1 .. n) /\ Cardinality(1 .. n) = n
  BY FS_Interval
<1> QED
  BY <1>1, FS_Subset, FS_CardinalityType

\* Datagrams come from the sender.
LEMMA NetworkStays == ASSUME [Next]_vars, ~Write, ~Receive PROVE UNCHANGED <<net, written, datagram>>
  BY DEF vars, threads, network, Next, ThreadStep, MainStep, Stamp, SendFails, CountSent,
     Gate, AddToTotal, LoadTotal, StoreTotal, Gap, Forward, Backward, AddToInterval,
     LoadInterval, StoreInterval, OmitErrors, EndTest, SendTestEnd, HearTestEnd,
     CloseStreams, ServerReports, ClientReports, StatsRead, StatsAppend, OmitOver,
     OmitTotals, OmitInterval, SendResults, GetResults

LEMMA WireStep == ASSUME TypeOK, Wire, [Next]_vars PROVE Wire' /\ written <= written'
<1> USE DEF TypeOK, ThreadTypes, Wire
<1>1. CASE Write
  BY <1>1 DEF Write
<1>2. CASE Receive
  <2>1. /\ net' \subseteq net /\ datagram' \in net /\ written' = written
    BY <1>2 DEF Receive, Arrivals
  <2> QED
    BY <2>1
<1>3. CASE ~Write /\ ~Receive
  <2>1. net' = net /\ written' = written /\ datagram' = datagram
    BY <1>3, NetworkStays
  <2> QED
    BY <2>1
<1> QED
  BY <1>1, <1>2, <1>3

\* What most steps leave alone.
LossFrame ==
    /\ UNCHANGED <<packet_count, cnt_error, accounted, repeated>>
    /\ UNCHANGED <<omitted_packets["receiver"], omitted_errors>>
    /\ thread'["receiver"] = "highest" => thread["receiver"] = "highest"
    /\ thread["receiver"] = "highest" => thread'["receiver"] = "highest" /\ datagram' = datagram
    /\ place'["receiver"] = "errors" <=> place["receiver"] = "errors"

LEMMA AccountingKept ==
    ASSUME TypeOK, Accounting, test' = test, written' \in Nat, written <= written',
           UNCHANGED <<packet_count, cnt_error, accounted, repeated>>,
           thread'["receiver"] = "highest" => thread["receiver"] = "highest",
           thread["receiver"] = "highest" =>
               thread'["receiver"] = "highest" /\ datagram' = datagram
    PROVE  Accounting'
<1>1. written' < test'.numbers => written < test.numbers
  BY StreamStatsAssumption DEF TypeOK, ThreadTypes, TestKinds
<1> QED
  BY <1>1 DEF Accounting, LossIsExact, Missing

LEMMA OmissionKept ==
    ASSUME Omission, Bounded, LossFrame, test' = test
    PROVE  Omission' /\ Bounded'
<1>1. thread["receiver"] = "highest" => pcount(datagram)' = pcount(datagram)
  BY NumberStays DEF LossFrame
<1>2. Omission'
  BY <1>1 DEF Omission, LossWithinPackets, LossFrame
<1>3. Bounded'
  BY <1>1 DEF Bounded, LossFrame
<1> QED
  BY <1>2, <1>3

\* Where no number has wrapped, the number that is read is the count.
LEMMA NotWrapped ==
    ASSUME TypeOK, Wire, written < test.numbers
    PROVE  pcount(datagram) = datagram
<1>1. datagram < test.numbers
  BY StreamStatsAssumption DEF TypeOK, ThreadTypes, TestKinds, Wire
<1> QED
  BY <1>1, NumberRead

LEMMA GapStep == ASSUME TypeOK, LossInv, test' = test, Gap PROVE Accounting' /\ Omission' /\ Bounded'
<1> USE DEF TypeOK, ThreadTypes, CounterTypes, MainTypes, ResultTypes
<1>1. /\ thread["receiver"] = "sequence" /\ thread'["receiver"] = "highest"
      /\ cnt_error' = cnt_error + (pcount(datagram) - 1) - packet_count
      /\ pcount(datagram) > packet_count + 1
      /\ UNCHANGED <<datagram, written, packet_count, accounted, repeated>>
      /\ UNCHANGED <<omitted_packets, omitted_errors, place>>
  BY DEF Gap, At, Goto, Ends, ThreadPlaces, network, history, omitted, mains
<1>2. pcount(datagram)' = pcount(datagram) /\ pcount(datagram) \in Nat
  BY <1>1, NumberStays, NumberRead
<1>3. Accounting'
  <2>1. SUFFICES ASSUME written < test.numbers
                 PROVE  Accounting'
    BY <1>1 DEF Accounting
  <2>2. pcount(datagram) = datagram
    BY <2>1, NotWrapped DEF LossInv
  <2>3. Cardinality(accounted) \in Nat
    BY <2>1, SubsetSize DEF LossInv, Accounting
  <2> QED
    BY <1>1, <2>1, <2>2, <2>3 DEF LossInv, Accounting, LossIsExact, Missing
<1>4. Omission'
  BY <1>1, <1>2 DEF LossInv, Omission, LossWithinPackets, Ends
<1>5. Bounded'
  BY <1>1, <1>2 DEF LossInv, Bounded
<1> QED
  BY <1>3, <1>4, <1>5

LEMMA ForwardStep == ASSUME TypeOK, LossInv, test' = test, Forward PROVE Accounting' /\ Omission' /\ Bounded'
<1> USE DEF TypeOK, ThreadTypes, CounterTypes, MainTypes, ResultTypes
<1>1. /\ thread["receiver"] = "highest" \/ (thread["receiver"] = "sequence" /\ pcount(datagram) = packet_count + 1)
      /\ thread'["receiver"] = "ready"
      /\ packet_count' = pcount(datagram) /\ accounted' = accounted \cup {datagram}
      /\ UNCHANGED <<written, cnt_error, repeated, omitted_packets, omitted_errors, place>>
  BY DEF Forward, At, Goto, Ends, network, history, omitted, mains
<1>2. packet_count < pcount(datagram) /\ pcount(datagram) \in Nat
  BY <1>1, NumberRead DEF LossInv, Omission
<1>3. Accounting'
  <2>1. SUFFICES ASSUME written < test.numbers
                 PROVE  Accounting'
    BY <1>1 DEF Accounting
  <2>2. pcount(datagram) = datagram /\ datagram \in Nat
    BY <2>1, NotWrapped DEF LossInv
  <2>3. accounted \subseteq 1 .. packet_count
    BY <2>1 DEF LossInv, Accounting
  <2>4. /\ IsFiniteSet(accounted) /\ Cardinality(accounted) \in Nat
        /\ Cardinality(accounted) <= packet_count
    BY <2>3, SubsetSize
  <2>5. Cardinality(accounted') = Cardinality(accounted) + 1
    <3>1. datagram \notin accounted
      BY <1>2, <2>2, <2>3
    <3> QED
      BY <1>1, <2>4, <3>1, FS_AddElement
  <2>6. accounted' \subseteq 1 .. packet_count'
    BY <1>1, <1>2, <2>2, <2>3
  <2>7. /\ cnt_error <= (datagram - 1) - Cardinality(accounted)
        /\ (datagram - 1) - Cardinality(accounted) <= cnt_error + repeated
    BY <1>1, <2>1, <2>2, <2>4 DEF LossInv, Accounting, LossIsExact, Missing
  <2> QED
    BY <1>1, <2>2, <2>4, <2>5, <2>6, <2>7 DEF Accounting, LossIsExact, Missing
<1>4. Omission'
  <2>1. place["receiver"] # "errors" =>
           cnt_error - omitted_errors <= (pcount(datagram) - 1) - omitted_packets["receiver"]
    BY <1>1 DEF LossInv, Omission, LossWithinPackets
  <2> QED
    BY <1>1, <1>2, <2>1 DEF LossInv, Omission, LossWithinPackets, Ends
<1>5. Bounded'
  BY <1>1, <1>2 DEF LossInv, Bounded
<1> QED
  BY <1>3, <1>4, <1>5

LEMMA BackwardStep == ASSUME TypeOK, LossInv, test' = test, Backward PROVE Accounting' /\ Omission' /\ Bounded'
<1> USE DEF TypeOK, ThreadTypes, CounterTypes, MainTypes, ResultTypes
<1>1. /\ thread["receiver"] = "sequence" /\ thread'["receiver"] = "ready"
      /\ pcount(datagram) <= packet_count /\ accounted' = accounted \cup {datagram}
      /\ cnt_error' = IF cnt_error > 0 THEN cnt_error - 1 ELSE cnt_error
      /\ repeated' = IF datagram \in accounted THEN repeated + 1 ELSE repeated
      /\ UNCHANGED <<written, packet_count, omitted_packets, omitted_errors, place>>
  BY DEF Backward, At, Goto, Ends, network, history, omitted, mains
<1>2. Accounting'
  <2>1. SUFFICES ASSUME written < test.numbers
                 PROVE  Accounting'
    BY <1>1 DEF Accounting
  <2>2. datagram \in 1 .. packet_count
    BY <1>1, <2>1, NotWrapped DEF LossInv
  <2>3. accounted \subseteq 1 .. packet_count /\ accounted' \subseteq 1 .. packet_count
    BY <1>1, <2>1, <2>2 DEF LossInv, Accounting
  <2>4. /\ IsFiniteSet(accounted) /\ Cardinality(accounted) \in Nat
        /\ Cardinality(accounted') <= packet_count
    BY <2>3, SubsetSize
  <2>5. Cardinality(accounted') =
          IF datagram \in accounted THEN Cardinality(accounted) ELSE Cardinality(accounted) + 1
    BY <1>1, <2>4, FS_AddElement
  <2> QED
    BY <1>1, <2>1, <2>3, <2>4, <2>5 DEF LossInv, Accounting, LossIsExact, Missing
<1>3. Omission'
  BY <1>1 DEF LossInv, Omission, LossWithinPackets, Ends
<1>4. Bounded'
  BY <1>1 DEF LossInv, Bounded
<1> QED
  BY <1>2, <1>3, <1>4

LEMMA LossFrameSteps == ASSUME TypeOK, Next, ~Gap, ~Forward, ~Backward,
                               ~OmitOver("receiver"), ~OmitErrors
                        PROVE  LossFrame
<1> USE DEF LossFrame, TypeOK, ThreadTypes, CounterTypes, MainTypes,
            threads, network, sequence, omitted, mains, history
<1>0. Ends = {"sender", "receiver"}
  BY DEF Ends
<1>1. CASE Stamp
  BY <1>0, <1>1 DEF Stamp, At, Goto
<1>2. CASE SendFails
  BY <1>0, <1>2 DEF SendFails, At, Goto
<1>3. CASE Write
  BY <1>0, <1>3 DEF Write, At, Goto
<1>4. CASE CountSent
  BY <1>0, <1>4 DEF CountSent, At, Goto
<1>5. CASE Receive
  BY <1>0, <1>5 DEF Receive, At, Goto
<1>6. CASE Gate
  BY <1>0, <1>6 DEF Gate, At, Goto
<1>7. CASE AddToTotal
  BY <1>0, <1>7 DEF AddToTotal, At, Goto
<1>8. CASE LoadTotal
  BY <1>0, <1>8 DEF LoadTotal, At, Goto
<1>9. CASE StoreTotal
  BY <1>0, <1>9 DEF StoreTotal, At, Goto
<1>10. CASE EndTest
  BY <1>0, <1>10, ClientIsAnEnd DEF EndTest, Move
<1>11. CASE SendTestEnd
  BY <1>0, <1>11, ClientIsAnEnd DEF SendTestEnd, Move
<1>12. CASE HearTestEnd
  BY <1>0, <1>12, ClientIsAnEnd DEF HearTestEnd, Move
<1>13. CASE CloseStreams
  BY <1>0, <1>13, ClientIsAnEnd DEF CloseStreams, Move
<1>14. CASE ServerReports
  BY <1>0, <1>14, ClientIsAnEnd DEF ServerReports, Move
<1>15. CASE ClientReports
  BY <1>0, <1>15, ClientIsAnEnd DEF ClientReports, Move
<1>16. ASSUME NEW e \in Ends, AddToInterval(e) PROVE LossFrame
  BY <1>0, <1>16 DEF AddToInterval, At, Goto, AfterInterval
<1>17. ASSUME NEW e \in Ends, LoadInterval(e) PROVE LossFrame
  BY <1>0, <1>17 DEF LoadInterval, At, Goto, AfterInterval
<1>18. ASSUME NEW e \in Ends, StoreInterval(e) PROVE LossFrame
  BY <1>0, <1>18 DEF StoreInterval, At, Goto, AfterInterval
<1>19. ASSUME NEW e \in Ends, StatsRead(e) PROVE LossFrame
  BY <1>0, <1>19 DEF StatsRead, Move
<1>20. ASSUME NEW e \in Ends, StatsAppend(e) PROVE LossFrame
  BY <1>0, <1>20 DEF StatsAppend, Move
<1>21. ASSUME NEW e \in Ends, OmitOver(e) PROVE LossFrame
  BY <1>0, <1>21 DEF OmitOver, Move
<1>22. CASE OmitErrors
  BY <1>22
<1>23. ASSUME NEW e \in Ends, OmitTotals(e) PROVE LossFrame
  BY <1>0, <1>23 DEF OmitTotals, Move
<1>24. ASSUME NEW e \in Ends, OmitInterval(e) PROVE LossFrame
  BY <1>0, <1>24 DEF OmitInterval, Move
<1>25. ASSUME NEW e \in Ends, SendResults(e) PROVE LossFrame
  BY <1>0, <1>25 DEF SendResults, Move
<1>26. ASSUME NEW e \in Ends, GetResults(e) PROVE LossFrame
  BY <1>0, <1>26 DEF GetResults, Move
<1> QED
  BY <1>1, <1>2, <1>3, <1>4, <1>5, <1>6, <1>7, <1>8, <1>9, <1>10, <1>11, <1>12, <1>13,
     <1>14, <1>15, <1>16, <1>17, <1>18, <1>19, <1>20, <1>21, <1>22, <1>23, <1>24, <1>25,
     <1>26 DEF Next, ThreadStep, MainStep

LEMMA LossStep == ASSUME TypeOK, LossInv, [Next]_vars PROVE LossInv'
<1>1. test' = test /\ Wire' /\ written <= written'
  BY TestStays, WireStep DEF LossInv
<1>2. written' \in Nat
  BY TypeStep DEF TypeOK, ThreadTypes
<1>3. SUFFICES Accounting' /\ Omission' /\ Bounded'
  BY <1>1 DEF LossInv
<1>4. CASE Gap
  BY <1>1, <1>4, GapStep
<1>5. CASE Forward
  BY <1>1, <1>5, ForwardStep
<1>6. CASE Backward
  BY <1>1, <1>6, BackwardStep
<1>7. CASE OmitOver("receiver")
  <2>1. /\ omitted_packets'["receiver"] = packet_count /\ place'["receiver"] = "errors"
        /\ UNCHANGED <<threads, sequence, history>>
    BY <1>7 DEF OmitOver, Move, Packets, Ends, TypeOK, CounterTypes, MainTypes
  <2>2. Accounting'
    BY <1>1, <1>2, <2>1, AccountingKept DEF LossInv, threads, sequence, history
  <2>3. pcount(datagram)' = pcount(datagram)
    BY <1>1, <2>1, NumberStays DEF threads
  <2>4. Omission'
    BY <2>1, <2>3 DEF LossInv, Omission, LossWithinPackets, threads, sequence, TypeOK, CounterTypes
  <2> QED
    BY <2>1, <2>2, <2>3, <2>4 DEF LossInv, Bounded, threads, sequence
<1>8. CASE OmitErrors
  <2>1. /\ omitted_errors' = cnt_error
        /\ UNCHANGED <<threads, sequence, history, omitted_packets>>
    BY <1>8 DEF OmitErrors
  <2>2. Accounting'
    BY <1>1, <1>2, <2>1, AccountingKept DEF LossInv, threads, sequence, history
  <2>3. pcount(datagram)' = pcount(datagram) /\ pcount(datagram) \in Nat
    BY <1>1, <2>1, NumberStays, NumberRead DEF threads
  <2>4. omitted_packets["receiver"] <= packet_count /\ omitted_packets["receiver"] \in Int
    BY DEF LossInv, Omission, Ends, TypeOK, CounterTypes
  <2>5. Omission'
    BY <2>1, <2>3, <2>4
       DEF LossInv, Omission, LossWithinPackets, threads, sequence, TypeOK, CounterTypes
  <2> QED
    BY <2>1, <2>2, <2>3, <2>5 DEF LossInv, Bounded, threads, sequence
<1>9. ASSUME LossFrame PROVE Accounting' /\ Omission' /\ Bounded'
  <2>1. Accounting'
    BY <1>1, <1>2, <1>9, AccountingKept DEF LossFrame, LossInv
  <2>2. Omission' /\ Bounded'
    BY <1>1, <1>9, OmissionKept DEF LossInv
  <2> QED
    BY <2>1, <2>2
<1>10. CASE UNCHANGED vars
  <2>1. LossFrame
    BY <1>10 DEF LossFrame, vars, threads, sequence, history, omitted, mains
  <2> QED
    BY <1>9, <2>1
<1>11. CASE Next /\ ~Gap /\ ~Forward /\ ~Backward /\ ~OmitOver("receiver") /\ ~OmitErrors
  BY <1>9, <1>11, LossFrameSteps
<1> QED
  BY <1>4, <1>5, <1>6, <1>7, <1>8, <1>10, <1>11

LEMMA LossInit == ASSUME Init PROVE LossInv
<1>1. Cardinality({}) = 0
  BY FS_EmptySet
<1> QED
  BY <1>1 DEF Init, LossInv, Wire, Accounting, Omission, Bounded, LossIsExact, LossWithinPackets,
     Missing, Ends

\* Loss is counted exactly when the network repeats nothing, and a repeat hides at
\* most one loss, for datagrams in any order, as many as there are numbers for.
THEOREM LossExact == Spec => []LossIsExact
<1>1. Spec => []TypeOK
  BY TypeCorrect
<1>2. Init => LossInv
  BY LossInit
<1>3. TypeOK /\ LossInv /\ [Next]_vars => LossInv'
  BY LossStep
<1>4. LossInv => LossIsExact
  BY DEF LossInv, Accounting, LossIsExact
<1> QED
  BY <1>1, <1>2, <1>3, <1>4, PTL DEF Spec

\* The loss reported after the omitted period never exceeds the datagrams it is
\* reported against, whether or not the numbers of the datagrams wrap.
THEOREM LossWithin == Spec => []LossWithinPackets
<1>1. Spec => []TypeOK
  BY TypeCorrect
<1>2. Init => LossInv
  BY LossInit
<1>3. TypeOK /\ LossInv /\ [Next]_vars => LossInv'
  BY LossStep
<1>4. LossInv => LossWithinPackets
  BY DEF LossInv, Omission
<1> QED
  BY <1>1, <1>2, <1>3, <1>4, PTL DEF Spec

-----------------------------------------------------------------------------
(* Interval reports                                                           *)

\* ListedOnce with the block its thread has counted in the total and not yet in the
\* interval, and with the value a statistics callback has read.
Listing(e) ==
    /\ thread[e] # "interval_store"
    /\ place[e] \in {"append", "final_append"} => temp[e] <= this_interval[e]
    /\ intervals[e] + this_interval[e] + (IF thread[e] = "interval" THEN 1 ELSE 0) <= counted[e]

IntervalInv == test.atomic => \A e \in Ends : Listing(e)

LEMMA IntervalStep == ASSUME TypeOK, IntervalInv, [Next]_vars PROVE IntervalInv'
<1> USE DEF TypeOK, ThreadTypes, CounterTypes, MainTypes, threads, network, sequence, totals,
            omitted, mains, results, history
<1>1. Ends = {"sender", "receiver"}
  BY DEF Ends
<1>2. SUFFICES ASSUME test.atomic, test' = test,
                      Listing("sender"), Listing("receiver")
               PROVE  Listing("sender")' /\ Listing("receiver")'
  <2>1. test' = test
    BY TestStays
  <2> QED
    BY <1>1, <2>1 DEF IntervalInv
<1> USE DEF Listing
<1>3. CASE Stamp
  BY <1>1, <1>2, <1>3 DEF Stamp, At, Goto
<1>4. CASE SendFails
  BY <1>1, <1>2, <1>4 DEF SendFails, At, Goto
<1>5. CASE Write
  BY <1>1, <1>2, <1>5 DEF Write, At, Goto
<1>6. CASE CountSent
  BY <1>1, <1>2, <1>6 DEF CountSent, At, Goto
<1>7. CASE Receive
  BY <1>1, <1>2, <1>7 DEF Receive, At, Goto
<1>8. CASE Gate
  BY <1>1, <1>2, <1>8 DEF Gate, At, Goto
<1>9. CASE AddToTotal
  BY <1>1, <1>2, <1>9 DEF AddToTotal, At, Goto
<1>10. CASE LoadTotal
  BY <1>1, <1>2, <1>10 DEF LoadTotal, At, Goto
<1>11. CASE StoreTotal
  BY <1>1, <1>2, <1>11 DEF StoreTotal, At, Goto
<1>12. CASE Gap
  BY <1>1, <1>2, <1>12 DEF Gap, At, Goto
<1>13. CASE Forward
  BY <1>1, <1>2, <1>13 DEF Forward, At, Goto
<1>14. CASE Backward
  BY <1>1, <1>2, <1>14 DEF Backward, At, Goto
<1>15. CASE OmitErrors
  BY <1>1, <1>2, <1>15 DEF OmitErrors, Move
<1>16. CASE EndTest
  BY <1>1, <1>2, <1>16, ClientIsAnEnd DEF EndTest, Move
<1>17. CASE SendTestEnd
  BY <1>1, <1>2, <1>17, ClientIsAnEnd DEF SendTestEnd, Move
<1>18. CASE HearTestEnd
  BY <1>1, <1>2, <1>18, ClientIsAnEnd DEF HearTestEnd, Move
<1>19. CASE CloseStreams
  BY <1>1, <1>2, <1>19, ClientIsAnEnd DEF CloseStreams, Move
<1>20. CASE ServerReports
  BY <1>1, <1>2, <1>20, ClientIsAnEnd DEF ServerReports, Move
<1>21. CASE ClientReports
  BY <1>1, <1>2, <1>21, ClientIsAnEnd DEF ClientReports, Move
<1>22. ASSUME NEW e \in Ends, AddToInterval(e)
      PROVE  Listing("sender")' /\ Listing("receiver")'
  BY <1>1, <1>2, <1>22 DEF AddToInterval, At, Goto, AfterInterval
<1>23. ASSUME NEW e \in Ends, LoadInterval(e)
      PROVE  Listing("sender")' /\ Listing("receiver")'
  BY <1>1, <1>2, <1>23 DEF LoadInterval, At, Goto, AfterInterval
<1>24. ASSUME NEW e \in Ends, StoreInterval(e)
      PROVE  Listing("sender")' /\ Listing("receiver")'
  BY <1>1, <1>2, <1>24 DEF StoreInterval, At, Goto, AfterInterval
<1>25. ASSUME NEW e \in Ends, StatsRead(e)
      PROVE  Listing("sender")' /\ Listing("receiver")'
  BY <1>1, <1>2, <1>25 DEF StatsRead, Move
<1>26. ASSUME NEW e \in Ends, StatsAppend(e)
      PROVE  Listing("sender")' /\ Listing("receiver")'
  BY <1>1, <1>2, <1>26 DEF StatsAppend, Move
<1>27. ASSUME NEW e \in Ends, OmitOver(e)
      PROVE  Listing("sender")' /\ Listing("receiver")'
  BY <1>1, <1>2, <1>27 DEF OmitOver, Move
<1>28. ASSUME NEW e \in Ends, OmitTotals(e)
      PROVE  Listing("sender")' /\ Listing("receiver")'
  BY <1>1, <1>2, <1>28 DEF OmitTotals, Move
<1>29. ASSUME NEW e \in Ends, OmitInterval(e)
      PROVE  Listing("sender")' /\ Listing("receiver")'
  BY <1>1, <1>2, <1>29 DEF OmitInterval, Move
<1>30. ASSUME NEW e \in Ends, SendResults(e)
      PROVE  Listing("sender")' /\ Listing("receiver")'
  BY <1>1, <1>2, <1>30 DEF SendResults, Move
<1>31. ASSUME NEW e \in Ends, GetResults(e)
      PROVE  Listing("sender")' /\ Listing("receiver")'
  BY <1>1, <1>2, <1>31 DEF GetResults, Move
<1>32. CASE UNCHANGED vars
  BY <1>2, <1>32 DEF vars
<1> QED
  BY <1>3, <1>4, <1>5, <1>6, <1>7, <1>8, <1>9, <1>10, <1>11, <1>12, <1>13, <1>14, <1>15,
     <1>16, <1>17, <1>18, <1>19, <1>20, <1>21, <1>22, <1>23, <1>24, <1>25, <1>26, <1>27,
     <1>28, <1>29, <1>30, <1>31, <1>32 DEF Next, ThreadStep, MainStep

\* With atomic counters no block is listed in two intervals.
THEOREM IntervalsAreDisjoint == Spec => []IntervalsWithinTotal
<1>1. Spec => []TypeOK
  BY TypeCorrect
<1>2. Init => IntervalInv
  BY DEF Init, IntervalInv, Listing, Ends
<1>3. TypeOK /\ IntervalInv /\ [Next]_vars => IntervalInv'
  BY IntervalStep
<1>4. TypeOK /\ IntervalInv => IntervalsWithinTotal
  BY DEF IntervalInv, Listing, IntervalsWithinTotal, ListedOnce, TypeOK, CounterTypes, MainTypes
<1> QED
  BY <1>1, <1>2, <1>3, <1>4, PTL DEF Spec

-----------------------------------------------------------------------------
(* The reports                                                                *)

\* The bytes of an end's own side, and the places of its thread where one block is
\* past every gate and not in them yet.
Own(e) == IF e = "sender" THEN bytes["sender"] - bytes_sent_omit ELSE bytes["receiver"]

InFlight(e) == thread[e] \in IF e = "sender" THEN {"written"} ELSE {"total", "total_store"}

\* Since its own side was b, end e has counted at most the block in flight.
Since(e, b) ==
    /\ Own(e) - b \in {0, 1}
    /\ InFlight(e) => Own(e) = b

\* The order in which the main threads end the test.
Ending ==
    /\ place[server] \in {"final", "final_append", "sampled", "closed", "exchange", "merged", "done"}
         => ~running[server]
    /\ place[client] \in {"ended", "posted", "display", "done"} => ~running[client]
    /\ (client = "sender" /\ place[client] \in {"final", "final_append", "sampled", "ended",
                                                "posted", "display", "done"})
         => thread["sender"] = "gone"
    /\ place[client] \in {"display", "done"} =>
         place[server] = "done" /\ peer[client] = posted[server]
    /\ report[client].printed => place[client] = "done"

\* A load that waits for its store is not overtaken by a clear.
Loads ==
    /\ test.atomic => thread["receiver"] # "total_store"
    /\ ~test.omit => \A e \in Ends : ~omitting[e] /\ place[e] \notin {"errors", "totals", "clear"}
    /\ (thread["receiver"] = "total_store" /\ ~test.omit) => register["receiver"] = bytes["receiver"]

Agreement ==
    /\ place[server] \in {"exchange", "merged", "done"} => Since(server, Side(server, report[server]))
    /\ place[client] \in {"posted", "display", "done"} => Since(client, posted[client].bytes)
    /\ place[server] = "done" => posted[server].bytes - Side(server, report[server]) \in {0, 1}
    /\ ReportsAgree

AgreeInv == (test.omit => test.atomic) => Ending /\ Loads /\ Agreement

LEMMA AgreeStep == ASSUME TypeOK, AgreeInv, [Next]_vars PROVE AgreeInv'
<1> USE DEF TypeOK, ThreadTypes, CounterTypes, MainTypes, ResultTypes, ResultType, ReportType,
            threads, network, sequence, totals, omitted, mains, results, history
<1>1. /\ Ends = {"sender", "receiver"}
      /\ client = test.client
      /\ \/ client = "sender" /\ server = "receiver"
         \/ client = "receiver" /\ server = "sender"
  BY StreamStatsAssumption DEF TestKinds, client, server, Ends
<1>2. SUFFICES ASSUME test' = test, client' = client, server' = server,
                      test.omit => test.atomic, Ending, Loads, Agreement
               PROVE  Ending' /\ Loads' /\ Agreement'
  <2>1. test' = test
    BY TestStays
  <2> QED
    BY <1>1, <2>1 DEF AgreeInv, client, server
<1>33. ASSUME UNCHANGED <<thread, bytes, bytes_sent_omit, report, posted>>,
              place'[server] \in {"exchange", "merged", "done"}
                => place[server] \in {"exchange", "merged", "done"},
              place'[client] \in {"posted", "display", "done"}
                => place[client] \in {"posted", "display", "done"},
              place'[server] = "done" => place[server] = "done"
       PROVE  Agreement'
  <2>1. \A d : Own(d)' = Own(d) /\ InFlight(d)' = InFlight(d)
    BY <1>33 DEF Own, InFlight
  <2> QED
    BY ONLY <1>2, <1>33, <2>1 DEF Agreement, ReportsAgree, Since, Side
<1>34. ASSUME UNCHANGED <<place, report, posted>>,
              \A d \in Ends : \A n \in Int :
                 Own(d) - n \in {0, 1} /\ (InFlight(d) => Own(d) = n)
                   => Own(d)' - n \in {0, 1} /\ (InFlight(d)' => Own(d)' = n)
       PROVE  Agreement'
  <2>1. /\ server \in Ends /\ client \in Ends
        /\ Side(server, report[server]) \in Int /\ posted[client].bytes \in Int
    BY <1>1 DEF Side
  <2> QED
    BY ONLY <1>2, <1>34, <2>1 DEF Agreement, ReportsAgree, Since, Side
<1> USE DEF Ending, Loads, Agreement, Since, Own, InFlight, Side, ReportsAgree
<1>3. CASE Stamp
  BY <1>1, <1>2, <1>3 DEF Stamp, At, Goto
<1>4. CASE SendFails
  <2>1. Ending'
    BY <1>1, <1>2, <1>4 DEF SendFails, At, Goto
  <2>2. Loads'
    BY <1>1, <1>2, <1>4 DEF SendFails, At, Goto
  <2>3. Agreement'
    <3>1. UNCHANGED <<place, report, posted>>
      BY <1>4 DEF SendFails, At, Goto
    <3>2. ASSUME NEW d \in Ends, NEW n \in Int, Own(d) - n \in {0, 1}, InFlight(d) => Own(d) = n
          PROVE  Own(d)' - n \in {0, 1} /\ (InFlight(d)' => Own(d)' = n)
      BY <1>1, <1>2, <1>4, <3>2 DEF SendFails, At, Goto
    <3> HIDE DEF Agreement, Ending, Loads, Own, InFlight
    <3> QED
      BY <1>34, <3>1, <3>2
  <2> QED
    BY <2>1, <2>2, <2>3
<1>5. CASE Write
  BY <1>1, <1>2, <1>5 DEF Write, At, Goto, Closed
<1>6. CASE CountSent
  <2>1. Ending'
    BY <1>1, <1>2, <1>6 DEF CountSent, At, Goto
  <2>2. Loads'
    BY <1>1, <1>2, <1>6 DEF CountSent, At, Goto
  <2>3. Agreement'
    <3>1. UNCHANGED <<place, report, posted>>
      BY <1>6 DEF CountSent, At, Goto
    <3>2. ASSUME NEW d \in Ends, NEW n \in Int, Own(d) - n \in {0, 1}, InFlight(d) => Own(d) = n
          PROVE  Own(d)' - n \in {0, 1} /\ (InFlight(d)' => Own(d)' = n)
      BY <1>1, <1>2, <1>6, <3>2 DEF CountSent, At, Goto
    <3> HIDE DEF Agreement, Ending, Loads, Own, InFlight
    <3> QED
      BY <1>34, <3>1, <3>2
  <2> QED
    BY <2>1, <2>2, <2>3
<1>7. CASE Receive
  BY <1>1, <1>2, <1>7 DEF Receive, At, Goto
<1>8. CASE Gate
  <2>1. Ending'
    BY <1>1, <1>2, <1>8 DEF Gate, At, Goto
  <2>2. Loads'
    BY <1>1, <1>2, <1>8 DEF Gate, At, Goto
  <2>3. Agreement'
    BY <1>1, <1>2, <1>8 DEF Gate, At, Goto
  <2> QED
    BY <2>1, <2>2, <2>3
<1>9. CASE AddToTotal
  <2>1. Ending'
    BY <1>1, <1>2, <1>9 DEF AddToTotal, At, Goto
  <2>2. Loads'
    BY <1>1, <1>2, <1>9 DEF AddToTotal, At, Goto
  <2>3. Agreement'
    <3>1. UNCHANGED <<place, report, posted>>
      BY <1>9 DEF AddToTotal, At, Goto
    <3>2. ASSUME NEW d \in Ends, NEW n \in Int, Own(d) - n \in {0, 1}, InFlight(d) => Own(d) = n
          PROVE  Own(d)' - n \in {0, 1} /\ (InFlight(d)' => Own(d)' = n)
      BY <1>1, <1>2, <1>9, <3>2 DEF AddToTotal, At, Goto
    <3> HIDE DEF Agreement, Ending, Loads, Own, InFlight
    <3> QED
      BY <1>34, <3>1, <3>2
  <2> QED
    BY <2>1, <2>2, <2>3
<1>10. CASE LoadTotal
  BY <1>1, <1>2, <1>10 DEF LoadTotal, At, Goto
<1>11. CASE StoreTotal
  <2>1. Ending'
    BY <1>1, <1>2, <1>11 DEF StoreTotal, At, Goto
  <2>2. Loads'
    BY <1>1, <1>2, <1>11 DEF StoreTotal, At, Goto
  <2>3. Agreement'
    <3>1. UNCHANGED <<place, report, posted>>
      BY <1>11 DEF StoreTotal, At, Goto
    <3>2. ASSUME NEW d \in Ends, NEW n \in Int, Own(d) - n \in {0, 1}, InFlight(d) => Own(d) = n
          PROVE  Own(d)' - n \in {0, 1} /\ (InFlight(d)' => Own(d)' = n)
      BY <1>1, <1>2, <1>11, <3>2 DEF StoreTotal, At, Goto
    <3> HIDE DEF Agreement, Ending, Loads, Own, InFlight
    <3> QED
      BY <1>34, <3>1, <3>2
  <2> QED
    BY <2>1, <2>2, <2>3
<1>12. CASE Gap
  BY <1>1, <1>2, <1>12 DEF Gap, At, Goto
<1>13. CASE Forward
  BY <1>1, <1>2, <1>13 DEF Forward, At, Goto
<1>14. CASE Backward
  BY <1>1, <1>2, <1>14 DEF Backward, At, Goto
<1>15. CASE OmitErrors
  BY <1>1, <1>2, <1>15 DEF OmitErrors, Move
<1>16. CASE EndTest
  BY <1>1, <1>2, <1>16 DEF EndTest, Move
<1>17. CASE SendTestEnd
  BY <1>1, <1>2, <1>17 DEF SendTestEnd, Move
<1>18. CASE HearTestEnd
  BY <1>1, <1>2, <1>18 DEF HearTestEnd, Move
<1>19. CASE CloseStreams
  BY <1>1, <1>2, <1>19 DEF CloseStreams, Move
<1>20. CASE ServerReports
  <2>1. Ending'
    BY <1>1, <1>2, <1>20 DEF ServerReports, Move, Report, Results, Packets
  <2>2. Loads'
    BY <1>1, <1>2, <1>20 DEF ServerReports, Move, Report, Results, Packets
  <2>3. Agreement'
    <3>1. /\ place[server] = "closed" /\ place' = [place EXCEPT ![server] = "exchange"]
          /\ report' = [report EXCEPT ![server] = Report(server)]
          /\ UNCHANGED <<thread, bytes, bytes_sent_omit, posted>>
      BY <1>20 DEF ServerReports, Move
    <3>2. Side(server, Report(server)) = Own(server)
      BY <1>1 DEF Report, Results
    <3>3. Side(server, report'[server]) = Own(server) /\ report'[client] = report[client]
      BY <1>1, <3>1, <3>2
    <3> QED
      BY <1>1, <1>2, <3>1, <3>3
  <2> QED
    BY <2>1, <2>2, <2>3
<1>21. CASE ClientReports
  BY <1>1, <1>2, <1>21 DEF ClientReports, Move, Report, Results, Packets
<1>22. ASSUME NEW e \in Ends, AddToInterval(e)
      PROVE  Ending' /\ Loads' /\ Agreement'
  BY <1>1, <1>2, <1>22 DEF AddToInterval, At, Goto, AfterInterval
<1>23. ASSUME NEW e \in Ends, LoadInterval(e)
      PROVE  Ending' /\ Loads' /\ Agreement'
  BY <1>1, <1>2, <1>23 DEF LoadInterval, At, Goto, AfterInterval
<1>24. ASSUME NEW e \in Ends, StoreInterval(e)
      PROVE  Ending' /\ Loads' /\ Agreement'
  BY <1>1, <1>2, <1>24 DEF StoreInterval, At, Goto, AfterInterval
<1>25. ASSUME NEW e \in Ends, StatsRead(e)
      PROVE  Ending' /\ Loads' /\ Agreement'
  <2>1. Ending'
    BY <1>1, <1>2, <1>25 DEF StatsRead, Move
  <2>2. Loads'
    BY <1>1, <1>2, <1>25 DEF StatsRead, Move
  <2>3. Agreement'
    <3> HIDE DEF Agreement, Ending, Loads
    <3>1. UNCHANGED <<thread, bytes, bytes_sent_omit, report, posted>>
      BY <1>25 DEF StatsRead, Move
    <3>2. /\ place'[server] \in {"exchange", "merged", "done"}
               => place[server] \in {"exchange", "merged", "done"}
          /\ place'[client] \in {"posted", "display", "done"}
               => place[client] \in {"posted", "display", "done"}
          /\ place'[server] = "done" => place[server] = "done"
      BY <1>1, <1>25 DEF StatsRead, Move
    <3> QED
      BY <1>33, <3>1, <3>2
  <2> QED
    BY <2>1, <2>2, <2>3
<1>26. ASSUME NEW e \in Ends, StatsAppend(e)
      PROVE  Ending' /\ Loads' /\ Agreement'
  <2>1. Ending'
    <3>1. place' \in {[place EXCEPT ![e] = "running"], [place EXCEPT ![e] = "sampled"]}
          /\ place[e] \in {"append", "final_append"}
          /\ (place'[e] = "sampled" => place[e] = "final_append")
          /\ UNCHANGED <<running, thread, peer, posted, report>>
      BY <1>26 DEF StatsAppend, Move
    <3> QED
      BY <1>1, <1>2, <3>1
  <2>2. Loads'
    BY <1>1, <1>2, <1>26 DEF StatsAppend, Move
  <2>3. Agreement'
    <3> HIDE DEF Agreement, Ending, Loads
    <3>1. UNCHANGED <<thread, bytes, bytes_sent_omit, report, posted>>
      BY <1>26 DEF StatsAppend, Move
    <3>2. /\ place'[server] \in {"exchange", "merged", "done"}
               => place[server] \in {"exchange", "merged", "done"}
          /\ place'[client] \in {"posted", "display", "done"}
               => place[client] \in {"posted", "display", "done"}
          /\ place'[server] = "done" => place[server] = "done"
      BY <1>1, <1>26 DEF StatsAppend, Move
    <3> QED
      BY <1>33, <3>1, <3>2
  <2> QED
    BY <2>1, <2>2, <2>3
<1>27. ASSUME NEW e \in Ends, OmitOver(e)
      PROVE  Ending' /\ Loads' /\ Agreement'
  <2>1. Ending'
    BY <1>1, <1>2, <1>27 DEF OmitOver, Move
  <2>2. Loads'
    BY <1>1, <1>2, <1>27 DEF OmitOver, Move
  <2>3. Agreement'
    BY <1>1, <1>2, <1>27 DEF OmitOver, Move
  <2> QED
    BY <2>1, <2>2, <2>3
<1>28. ASSUME NEW e \in Ends, OmitTotals(e)
      PROVE  Ending' /\ Loads' /\ Agreement'
  <2>1. Ending'
    BY <1>1, <1>2, <1>28 DEF OmitTotals, Move
  <2>2. Loads'
    BY <1>1, <1>2, <1>28 DEF OmitTotals, Move
  <2>3. Agreement'
    BY <1>1, <1>2, <1>28 DEF OmitTotals, Move
  <2> QED
    BY <2>1, <2>2, <2>3
<1>29. ASSUME NEW e \in Ends, OmitInterval(e)
      PROVE  Ending' /\ Loads' /\ Agreement'
  <2>1. Ending'
    BY <1>1, <1>2, <1>29 DEF OmitInterval, Move
  <2>2. Loads'
    BY <1>1, <1>2, <1>29 DEF OmitInterval, Move
  <2>3. Agreement'
    <3> HIDE DEF Agreement, Ending, Loads
    <3>1. UNCHANGED <<thread, bytes, bytes_sent_omit, report, posted>>
      BY <1>29 DEF OmitInterval
    <3>2. /\ place'[server] \in {"exchange", "merged", "done"}
               => place[server] \in {"exchange", "merged", "done"}
          /\ place'[client] \in {"posted", "display", "done"}
               => place[client] \in {"posted", "display", "done"}
          /\ place'[server] = "done" => place[server] = "done"
      BY <1>1, <1>29 DEF OmitInterval, Move
    <3> QED
      BY <1>33, <3>1, <3>2
  <2> QED
    BY <2>1, <2>2, <2>3
<1>30. ASSUME NEW e \in Ends, SendResults(e)
      PROVE  Ending' /\ Loads' /\ Agreement'
  <2>1. /\ UNCHANGED <<thread, bytes, bytes_sent_omit, register, running, omitting, peer, report>>
        /\ posted' = [posted EXCEPT ![e] = Results(e)]
    BY <1>30 DEF SendResults
  <2>4. Results(e).bytes = Own(e)
    BY <1>1 DEF Results
  <2>5. posted'[e].bytes = Own(e) /\ \A d \in Ends : d # e => posted'[d] = posted[d]
    BY <2>1, <2>4
  <2>2. CASE e = client
    <3>1. place[client] = "ended" /\ place' = [place EXCEPT ![client] = "posted"]
      BY <1>1, <1>30, <2>2 DEF SendResults, Move
    <3>2. Ending'
      BY <1>1, <1>2, <2>1, <2>2, <2>5, <3>1
    <3>3. Loads'
      BY <1>1, <1>2, <2>1, <3>1
    <3>4. Agreement'
      BY <1>1, <1>2, <2>1, <2>2, <2>5, <3>1
    <3> QED
      BY <3>2, <3>3, <3>4
  <2>3. CASE e = server
    <3>1. place[server] = "merged" /\ place' = [place EXCEPT ![server] = "done"]
      BY <1>1, <1>30, <2>3 DEF SendResults, Move
    <3>2. Ending'
      BY <1>1, <1>2, <2>1, <2>3, <2>5, <3>1
    <3>3. Loads'
      BY <1>1, <1>2, <2>1, <3>1
    <3>4. Agreement'
      BY <1>1, <1>2, <2>1, <2>3, <2>5, <3>1
    <3> QED
      BY <3>2, <3>3, <3>4
  <2> QED
    BY <1>1, <2>2, <2>3
<1>31. ASSUME NEW e \in Ends, GetResults(e)
      PROVE  Ending' /\ Loads' /\ Agreement'
  <2>1. Ending'
    <3>1. UNCHANGED <<thread, running, posted, report>>
      BY <1>31 DEF GetResults
    <3>2. CASE e = server
      <4>1. /\ place[server] = "exchange" /\ place' = [place EXCEPT ![server] = "merged"]
            /\ peer'[client] = peer[client] /\ place[client] = "posted"
        BY <1>1, <1>31, <3>2 DEF GetResults, Move
      <4> QED
        BY <1>1, <1>2, <3>1, <4>1
    <3>3. CASE e = client
      <4>1. /\ place[client] = "posted" /\ place' = [place EXCEPT ![client] = "display"]
            /\ peer'[client] = posted[server] /\ place[server] = "done"
        BY <1>1, <1>31, <3>3 DEF GetResults, Move
      <4> QED
        BY <1>1, <1>2, <3>1, <4>1
    <3> QED
      BY <1>1, <3>2, <3>3
  <2>2. Loads'
    BY <1>1, <1>2, <1>31 DEF GetResults, Move
  <2>3. Agreement'
    <3> HIDE DEF Agreement, Ending, Loads
    <3>1. UNCHANGED <<thread, bytes, bytes_sent_omit, report, posted>>
      BY <1>31 DEF GetResults, Move
    <3>2. /\ place'[server] \in {"exchange", "merged", "done"}
               => place[server] \in {"exchange", "merged", "done"}
          /\ place'[client] \in {"posted", "display", "done"}
               => place[client] \in {"posted", "display", "done"}
          /\ place'[server] = "done" => place[server] = "done"
      BY <1>1, <1>31 DEF GetResults, Move
    <3> QED
      BY <1>33, <3>1, <3>2
  <2> QED
    BY <2>1, <2>2, <2>3
<1>32. CASE UNCHANGED vars
  BY <1>2, <1>32 DEF vars
<1> QED
  BY <1>3, <1>4, <1>5, <1>6, <1>7, <1>8, <1>9, <1>10, <1>11, <1>12, <1>13, <1>14, <1>15,
     <1>16, <1>17, <1>18, <1>19, <1>20, <1>21, <1>22, <1>23, <1>24, <1>25, <1>26, <1>27,
     <1>28, <1>29, <1>30, <1>31, <1>32 DEF Next, ThreadStep, MainStep

\* It holds when the streams are new.
LEMMA AgreeInit == ASSUME Init PROVE AgreeInv
  BY StreamStatsAssumption DEF Init, AgreeInv, Ending, Loads, Agreement, ReportsAgree, TestKinds,
     client, server, Ends, NoReport

\* Whatever the threads do meanwhile, reports and exchanged results differ by no
\* more than one block.
THEOREM ReportsConsistent == Spec => []ReportsAgree
<1>1. Spec => []TypeOK
  BY TypeCorrect
<1>2. Init => AgreeInv
  BY AgreeInit
<1>3. TypeOK /\ AgreeInv /\ [Next]_vars => AgreeInv'
  BY AgreeStep
<1>4. AgreeInv => ReportsAgree
  BY DEF AgreeInv, Agreement, ReportsAgree
<1> QED
  BY <1>1, <1>2, <1>3, <1>4, PTL DEF Spec

-----------------------------------------------------------------------------
(* Plausible reports                                                          *)

\* A block the network has delivered and the receiver has not counted.
OnWire == IF thread["receiver"] \in {"gate", "total", "total_store"} THEN 1 ELSE 0

\* What is counted at the receiver, is in its hands, or is in the network, was written,
\* or is a repeat; the sender counts all it has written, but for the one it was stopped at.
Delivery ==
    /\ bytes["receiver"] + OnWire + Cardinality(net) <= written + repeats
    /\ bytes["sender"] = (IF thread["sender"] = "written" THEN written - 1 ELSE written)
       \/ (thread["sender"] = "gone" /\ bytes["sender"] = written - 1)

\* The numbers of the datagrams at the two ends; TCP has none.
Numbering ==
    /\ packet_count <= written
    /\ IF udp
       THEN sent_count = (IF thread["sender"] = "stamped" THEN written + 1 ELSE written)
            \/ (thread["sender"] = "gone" /\ sent_count = written + 1)
       ELSE /\ sent_count = 0 /\ packet_count = 0 /\ cnt_error = 0
            /\ thread["receiver"] \notin {"sequence", "highest"}

\* Nothing is set apart, in a test without an omitted period.
NothingOmitted ==
    /\ bytes_sent_omit = 0 /\ omitted_errors = 0
    /\ \A e \in Ends : omitted_packets[e] = 0

\* What the server has sent as its results is, for its own side, as much as was
\* written or less than has arrived since.  (A sending server has closed its streams: no
\* more is written.)
Exchanged ==
    place[server] = "done" =>
        /\ posted[server].omitted_packets = 0
        /\ server = "sender" =>
            /\ written <= posted[server].bytes + 1
            /\ udp => written <= posted[server].packets
            /\ ~udp => posted[server].packets = 0
        /\ server = "receiver" =>
            /\ posted[server].bytes <= bytes["receiver"]
            /\ posted[server].packets <= packet_count
            /\ posted[server].errors - posted[server].omitted_errors \in 0 .. written
            /\ ~udp => posted[server].errors = posted[server].omitted_errors

PlausibleParts == Delivery /\ Numbering /\ NothingOmitted /\ Exchanged /\ ReportIsPlausible

\* The inductive invariant of ReportIsPlausible, with LossInv and AgreeInv.
PlausibleInv == ~test.omit => PlausibleParts

\* Every step preserves it.
LEMMA PlausibleStep ==
    ASSUME TypeOK, LossInv, AgreeInv, PlausibleInv, [Next]_vars
    PROVE  PlausibleInv'
<1> USE DEF TypeOK, ThreadTypes, CounterTypes, MainTypes, ResultTypes, ResultType, ReportType,
            threads, network, sequence, totals, omitted, mains, results, history
<1>1. /\ Ends = {"sender", "receiver"}
      /\ client = test.client
      /\ \/ client = "sender" /\ server = "receiver"
         \/ client = "receiver" /\ server = "sender"
  BY StreamStatsAssumption DEF TestKinds, client, server, Ends
<1>2. SUFFICES ASSUME test' = test, client' = client, server' = server, udp' = udp,
                      ~test.omit, Ending, Loads, PlausibleParts
               PROVE  PlausibleParts'
  <2>1. test' = test
    BY TestStays
  <2> QED
    BY <1>1, <2>1 DEF AgreeInv, PlausibleInv, client, server, udp
<1>3. /\ IsFiniteSet(net) /\ Cardinality(net) \in Nat
  BY SubsetSize DEF LossInv, Wire
<1>4. /\ cnt_error <= written
      /\ pcount(datagram) \in Nat /\ pcount(datagram) <= written
      /\ thread["receiver"] = "highest" => packet_count < pcount(datagram)
      /\ net \subseteq 1 .. written
  <2>1. pcount(datagram) \in Nat /\ pcount(datagram) <= written
    BY NumberRead DEF LossInv, Wire
  <2> QED
    BY <1>2, <2>1 DEF PlausibleParts, Numbering, LossInv, Wire, Omission, Bounded
<1> USE DEF PlausibleParts, OnWire, Delivery, Numbering, NothingOmitted, Exchanged, ReportIsPlausible
<1>5. CASE Stamp
  BY <1>1, <1>2, <1>3, <1>4, <1>5 DEF Stamp, At, Goto, udp, Loads, Ending
<1>6. CASE SendFails
  BY <1>1, <1>2, <1>3, <1>4, <1>6 DEF SendFails, At, Goto, udp, Loads, Ending
<1>7. CASE CountSent
  <2>1. /\ thread["sender"] = "written" /\ bytes' = [bytes EXCEPT !["sender"] = bytes["sender"] + 1]
        /\ thread' = [thread EXCEPT !["sender"] = "interval"]
        /\ UNCHANGED <<datagram, network, sequence, bytes_sent_omit, omitted, mains, results>>
    BY <1>7 DEF CountSent, At, Goto
  <2>2. /\ thread' \in [Ends -> ThreadPlaces] /\ thread'["sender"] = "interval"
        /\ thread'["receiver"] = thread["receiver"] /\ bytes'["receiver"] = bytes["receiver"]
        /\ bytes'["sender"] = bytes["sender"] + 1 /\ bytes["sender"] + 1 = written
    BY <1>1, <1>2, <2>1 DEF ThreadPlaces
  <2>3. Delivery'
    BY <1>2, <2>1, <2>2
  <2> QED
    BY <1>1, <1>2, <2>1, <2>2, <2>3
<1>8. CASE Gate
  <2>1. Delivery'
    BY <1>1, <1>2, <1>3, <1>4, <1>8 DEF Gate, At, Goto, Loads, Ending
  <2>2. Numbering'
    BY <1>1, <1>2, <1>3, <1>4, <1>8 DEF Gate, At, Goto, Loads, Ending
  <2>3. NothingOmitted'
    BY <1>1, <1>2, <1>3, <1>4, <1>8 DEF Gate, At, Goto, Loads, Ending
  <2>4. Exchanged'
    BY <1>1, <1>2, <1>3, <1>4, <1>8 DEF Gate, At, Goto, Loads, Ending
  <2>5. ReportIsPlausible'
    BY <1>1, <1>2, <1>3, <1>4, <1>8 DEF Gate, At, Goto, Loads, Ending
  <2> QED
    BY <2>1, <2>2, <2>3, <2>4, <2>5
<1>9. CASE AddToTotal
  <2>1. Delivery'
    BY <1>1, <1>2, <1>3, <1>4, <1>9 DEF AddToTotal, At, Goto, Loads, Ending
  <2>2. Numbering'
    BY <1>1, <1>2, <1>3, <1>4, <1>9 DEF AddToTotal, At, Goto, Loads, Ending
  <2>3. NothingOmitted'
    BY <1>1, <1>2, <1>3, <1>4, <1>9 DEF AddToTotal, At, Goto, Loads, Ending
  <2>4. Exchanged'
    BY <1>1, <1>2, <1>3, <1>4, <1>9 DEF AddToTotal, At, Goto, Loads, Ending
  <2>5. ReportIsPlausible'
    BY <1>1, <1>2, <1>3, <1>4, <1>9 DEF AddToTotal, At, Goto, Loads, Ending
  <2> QED
    BY <2>1, <2>2, <2>3, <2>4, <2>5
<1>10. CASE LoadTotal
  BY <1>1, <1>2, <1>3, <1>4, <1>10 DEF LoadTotal, At, Goto, Loads, Ending
<1>11. CASE StoreTotal
  <2>1. Delivery'
    BY <1>1, <1>2, <1>3, <1>4, <1>11 DEF StoreTotal, At, Goto, Loads, Ending
  <2>2. Numbering'
    BY <1>1, <1>2, <1>3, <1>4, <1>11 DEF StoreTotal, At, Goto, Loads, Ending
  <2>3. NothingOmitted'
    BY <1>1, <1>2, <1>3, <1>4, <1>11 DEF StoreTotal, At, Goto, Loads, Ending
  <2>4. Exchanged'
    BY <1>1, <1>2, <1>3, <1>4, <1>11 DEF StoreTotal, At, Goto, Loads, Ending
  <2>5. ReportIsPlausible'
    BY <1>1, <1>2, <1>3, <1>4, <1>11 DEF StoreTotal, At, Goto, Loads, Ending
  <2> QED
    BY <2>1, <2>2, <2>3, <2>4, <2>5
<1>12. CASE Gap
  BY <1>1, <1>2, <1>3, <1>4, <1>12 DEF Gap, At, Goto, Loads, Ending
<1>13. CASE Forward
  <2>0. /\ packet_count' = pcount(datagram) /\ packet_count <= packet_count'
        /\ thread["receiver"] \in {"highest", "sequence"}
        /\ thread' = [thread EXCEPT !["receiver"] = "ready"]
        /\ UNCHANGED <<datagram, net, written, repeats, sent_count, cnt_error, bytes,
                       bytes_sent_omit, this_interval, omitted_packets, omitted_errors,
                       place, temp, intervals, listed, omitting, running, posted, peer,
                       report, counted, repeated>>
    BY <1>4, <1>13 DEF Forward, At, Goto
  <2>1. Delivery'
    BY <1>1, <1>2, <1>3, <1>4, <2>0 DEF Loads, Ending
  <2>2. Numbering'
    BY <1>1, <1>2, <1>3, <1>4, <2>0 DEF Loads, Ending
  <2>3. NothingOmitted'
    BY <1>1, <1>2, <1>3, <1>4, <2>0 DEF Loads, Ending
  <2>4. Exchanged'
    BY <1>1, <1>2, <1>3, <1>4, <2>0 DEF Loads, Ending
  <2>5. ReportIsPlausible'
    BY <1>1, <1>2, <1>3, <1>4, <2>0 DEF Loads, Ending
  <2> QED
    BY <2>1, <2>2, <2>3, <2>4, <2>5
<1>14. CASE Backward
  BY <1>1, <1>2, <1>3, <1>4, <1>14 DEF Backward, At, Goto, Loads, Ending
<1>15. CASE OmitErrors
  BY <1>1, <1>2, <1>3, <1>4, <1>15 DEF OmitErrors, Move, Loads, Ending
<1>16. CASE EndTest
  BY <1>1, <1>2, <1>3, <1>4, <1>16 DEF EndTest, Move, Loads, Ending
<1>17. CASE SendTestEnd
  BY <1>1, <1>2, <1>3, <1>4, <1>17 DEF SendTestEnd, Move, Loads, Ending
<1>18. CASE HearTestEnd
  BY <1>1, <1>2, <1>3, <1>4, <1>18 DEF HearTestEnd, Move, Loads, Ending
<1>19. CASE CloseStreams
  BY <1>1, <1>2, <1>3, <1>4, <1>19 DEF CloseStreams, Move, Loads, Ending
<1>20. CASE ServerReports
  BY <1>1, <1>2, <1>3, <1>4, <1>20 DEF ServerReports, Move, Loads, Ending
<1>21. CASE Write
  <2>1. written + 1 \notin net
    BY <1>4
  <2>2. Cardinality(net') = Cardinality(net) + 1
    BY <1>3, <1>21, <2>1, FS_AddElement DEF Write
  <2>3. Delivery'
    BY <1>1, <1>2, <1>3, <1>4, <1>21, <2>2 DEF Write, At, Goto
  <2>4. Numbering' /\ NothingOmitted'
    BY <1>1, <1>2, <1>21 DEF Write, At, Goto
  <2>5. Exchanged' /\ ReportIsPlausible'
    BY <1>1, <1>2, <1>21 DEF Write, At, Goto, Closed, Ending
  <2> QED
    BY <2>3, <2>4, <2>5
<1>22. CASE Receive
  <2>1. PICK d \in net : /\ datagram' = d
                         /\ \/ net' = net \ {d} /\ repeats' = repeats
                            \/ net' = net /\ repeats' = repeats + 1
    BY <1>22 DEF Receive, Arrivals
  <2>2. Cardinality(net \ {d}) = Cardinality(net) - 1 /\ Cardinality(net \ {d}) \in Nat
    BY <1>3, FS_RemoveElement, FS_CardinalityType
  <2>3. /\ net' \subseteq net /\ repeats' \in Nat /\ Cardinality(net') \in Nat
        /\ repeats <= repeats'
        /\ Cardinality(net') + 1 + repeats <= Cardinality(net) + repeats'
    <3>1. CASE net' = net \ {d} /\ repeats' = repeats
      BY <1>3, <2>2, <3>1
    <3>2. CASE net' = net /\ repeats' = repeats + 1
      BY <1>3, <3>2
    <3> QED
      BY <2>1, <3>1, <3>2
  <2>4. /\ thread["receiver"] = "ready" /\ thread' = [thread EXCEPT !["receiver"] = "gate"]
        /\ UNCHANGED <<written, sequence, totals, omitted, mains, results>>
    BY <1>22 DEF Receive, At, Goto
  <2>5. Delivery'
    BY <1>1, <1>2, <1>3, <2>1, <2>3, <2>4
  <2> QED
    BY <1>1, <1>2, <2>3, <2>4, <2>5
<1>23. CASE ClientReports
  <2>1. Delivery'
    BY <1>1, <1>2, <1>3, <1>4, <1>23 DEF ClientReports, Move, Report, Results, Packets, Ending
  <2>2. Numbering'
    BY <1>1, <1>2, <1>3, <1>4, <1>23 DEF ClientReports, Move, Report, Results, Packets, Ending
  <2>3. NothingOmitted'
    BY <1>1, <1>2, <1>3, <1>4, <1>23 DEF ClientReports, Move, Report, Results, Packets, Ending
  <2>4. Exchanged'
    BY <1>1, <1>2, <1>3, <1>4, <1>23 DEF ClientReports, Move, Report, Results, Packets, Ending
  <2>5. ReportIsPlausible'
    <3>1. /\ place[client] = "display" /\ report' = [report EXCEPT ![client] = Report(client)]
          /\ UNCHANGED <<threads, network, sequence, totals, omitted, posted, peer>>
      BY <1>23 DEF ClientReports, Move
    <3>2. /\ place[server] = "done" /\ peer[client] = posted[server]
          /\ client = "sender" => thread["sender"] = "gone"
      BY <1>2, <3>1 DEF Ending
    <3>3. report'[client] = Report(client) /\ repeats' = repeats
      BY <1>1, <3>1
    <3>4. CASE client = "sender"
      BY <1>1, <1>2, <1>3, <1>4, <3>2, <3>3, <3>4 DEF Report, Results, Packets
    <3>5. CASE client = "receiver"
      BY <1>1, <1>2, <1>3, <1>4, <3>2, <3>3, <3>5 DEF Report, Results, Packets
    <3> QED
      BY <1>1, <3>4, <3>5
  <2> QED
    BY <2>1, <2>2, <2>3, <2>4, <2>5
<1>24. ASSUME NEW e \in Ends, AddToInterval(e)
      PROVE  PlausibleParts'
  BY <1>1, <1>2, <1>3, <1>4, <1>24 DEF AddToInterval, At, Goto, AfterInterval, Loads, Ending
<1>25. ASSUME NEW e \in Ends, LoadInterval(e)
      PROVE  PlausibleParts'
  BY <1>1, <1>2, <1>3, <1>4, <1>25 DEF LoadInterval, At, Goto, AfterInterval, Loads, Ending
<1>26. ASSUME NEW e \in Ends, StoreInterval(e)
      PROVE  PlausibleParts'
  BY <1>1, <1>2, <1>3, <1>4, <1>26 DEF StoreInterval, At, Goto, AfterInterval, Loads, Ending
<1>27. ASSUME NEW e \in Ends, StatsRead(e)
      PROVE  PlausibleParts'
  BY <1>1, <1>2, <1>3, <1>4, <1>27 DEF StatsRead, Move, Loads, Ending
<1>28. ASSUME NEW e \in Ends, StatsAppend(e)
      PROVE  PlausibleParts'
  BY <1>1, <1>2, <1>3, <1>4, <1>28 DEF StatsAppend, Move, Loads, Ending
<1>29. ASSUME NEW e \in Ends, OmitOver(e)
      PROVE  PlausibleParts'
  BY <1>1, <1>2, <1>3, <1>4, <1>29 DEF OmitOver, Move, Loads, Ending
<1>30. ASSUME NEW e \in Ends, OmitTotals(e)
      PROVE  PlausibleParts'
  BY <1>1, <1>2, <1>3, <1>4, <1>30 DEF OmitTotals, Move, Loads, Ending
<1>31. ASSUME NEW e \in Ends, OmitInterval(e)
      PROVE  PlausibleParts'
  BY <1>1, <1>2, <1>3, <1>4, <1>31 DEF OmitInterval, Move, Loads, Ending
<1>32. ASSUME NEW e \in Ends, SendResults(e)
      PROVE  PlausibleParts'
  <2>1. Delivery'
    BY <1>1, <1>2, <1>3, <1>4, <1>32 DEF SendResults, Move, Results, Packets, Loads, Ending
  <2>2. Numbering'
    BY <1>1, <1>2, <1>3, <1>4, <1>32 DEF SendResults, Move, Results, Packets, Loads, Ending
  <2>3. NothingOmitted'
    BY <1>1, <1>2, <1>3, <1>4, <1>32 DEF SendResults, Move, Results, Packets, Loads, Ending
  <2>4. Exchanged'
    BY <1>1, <1>2, <1>3, <1>4, <1>32 DEF SendResults, Move, Results, Packets, Loads, Ending
  <2>5. ReportIsPlausible'
    BY <1>1, <1>2, <1>3, <1>4, <1>32 DEF SendResults, Move, Results, Packets, Loads, Ending
  <2> QED
    BY <2>1, <2>2, <2>3, <2>4, <2>5
<1>33. ASSUME NEW e \in Ends, GetResults(e)
      PROVE  PlausibleParts'
  BY <1>1, <1>2, <1>3, <1>4, <1>33 DEF GetResults, Move, Loads, Ending
<1>34. CASE UNCHANGED vars
  BY <1>2, <1>34 DEF vars
<1> QED
  BY <1>5, <1>6, <1>7, <1>8, <1>9, <1>10, <1>11, <1>12, <1>13, <1>14, <1>15, <1>16, <1>17, <1>18, <1>19, <1>20, <1>21, <1>22, <1>23, <1>24, <1>25, <1>26, <1>27, <1>28, <1>29, <1>30, <1>31, <1>32, <1>33, <1>34
     DEF Next, ThreadStep, MainStep

\* It holds when the streams are new.
LEMMA PlausibleInit == ASSUME Init PROVE PlausibleInv
<1>1. Cardinality({}) = 0
  BY FS_EmptySet
<1>2. /\ Ends = {"sender", "receiver"} /\ server \in Ends /\ client \in Ends
  BY StreamStatsAssumption DEF Init, TestKinds, client, server, Ends
<1> QED
  BY <1>1, <1>2 DEF Init, PlausibleInv, PlausibleParts, OnWire, Delivery, Numbering, NothingOmitted,
     Exchanged, ReportIsPlausible, NoReport

\* The report of a client is plausible, with or without loss, reordering and repeats,
\* wherever its own and the server's threads are stopped, for any number of blocks.
THEOREM ReportPlausible == Spec => []ReportIsPlausible
<1>1. Spec => []TypeOK
  BY TypeCorrect
<1>2. Init => LossInv /\ AgreeInv /\ PlausibleInv
  BY LossInit, AgreeInit, PlausibleInit
<1>3. TypeOK /\ LossInv /\ AgreeInv /\ PlausibleInv /\ [Next]_vars
      => LossInv' /\ AgreeInv' /\ PlausibleInv'
  BY LossStep, AgreeStep, PlausibleStep
<1>4. PlausibleInv => ReportIsPlausible
  BY DEF PlausibleInv, PlausibleParts, ReportIsPlausible
<1> QED
  BY <1>1, <1>2, <1>3, <1>4, PTL DEF Spec
=============================================================================
