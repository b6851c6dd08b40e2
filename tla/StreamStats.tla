---------------------------- MODULE StreamStats ----------------------------
(* The counters of one test stream at its two ends: the stream thread that    *)
(* sends or receives the blocks and counts them, the main thread of the same  *)
(* process that reads and clears the counters (statistics callback, end of    *)
(* the omitted period), and the end of the test: TEST_END, the exchange of    *)
(* results and the reports.  Threads share the counters without a lock.       *)
(*                                                                            *)
(* A block is one successful write and counts as one byte.  The data network  *)
(* keeps TCP blocks in order; it may lose, reorder and repeat UDP datagrams.  *)
(* The control connection is reliable (IperfSession models it).               *)
EXTENDS Integers, FiniteSets

CONSTANT Tests          \* the kinds of test

Ends == {"sender", "receiver"}

\* A test: its protocol, which end the client is, whether it omits a first
\* period, and whether atomic_uint_fast64_t is atomic in the build (HAVE_STDATOMIC_H:
\* on iOS it is, on Android it is a plain integer), and how many numbers a datagram has
\* room for: 2^32, or 2^64 with --udp-counters-64bit.  Three fields bound the test: the
\* blocks written, the datagrams that come twice, the periodic statistics callbacks.
TestKinds == [proto : {"Ptcp", "Pudp"}, client : Ends, omit : BOOLEAN, atomic : BOOLEAN,
              numbers : Nat \ {0}, blocks : Nat, repeats : Nat, callbacks : Nat]

ASSUME StreamStatsAssumption == Tests \subseteq TestKinds

VARIABLES
    \* The kind of the test
    test,
    \* The stream threads
    thread, register, datagram,
    \* The data network and what was written to it
    net, written, repeats,
    \* struct iperf_stream and its result at the two ends
    sent_count, packet_count, cnt_error, bytes, bytes_sent_omit, this_interval,
    omitted_packets, omitted_errors,
    \* The main threads: where they are, the bytes of the interval they read,
    \* the sum of the intervals they listed, test->omitting, state = TEST_RUNNING
    place, temp, intervals, listed, omitting, running,
    \* The results as JSON on the control connection and as merged and reported
    posted, peer, report,
    \* What really happened: blocks counted at an end, datagrams accounted for
    counted, accounted, repeated

threads == <<thread, register, datagram>>
network == <<net, written, repeats>>
sequence == <<sent_count, packet_count, cnt_error>>
totals == <<bytes, bytes_sent_omit>>
omitted == <<omitted_packets, omitted_errors>>
mains == <<place, temp, intervals, listed, omitting, running>>
results == <<posted, peer, report>>
history == <<counted, accounted, repeated>>
vars == <<test, threads, network, sequence, totals, this_interval, omitted, mains, results, history>>

-----------------------------------------------------------------------------
udp == test.proto = "Pudp"
client == test.client
server == IF client = "sender" THEN "receiver" ELSE "sender"

ThreadPlaces == {"ready", "stamped", "written", "gate", "total", "total_store",
                 "interval", "interval_store", "sequence", "highest", "gone"}

MainPlaces == {"running", "append", "errors", "totals", "clear", "final", "final_append",
               "sampled", "ended", "closed", "exchange", "posted", "merged", "display", "done"}

Nothing == [bytes |-> 0, packets |-> 0, errors |-> 0, omitted_packets |-> 0, omitted_errors |-> 0]

NoReport == [printed |-> FALSE, sent |-> 0, received |-> 0,
             sent_packets |-> 0, received_packets |-> 0, lost |-> 0]

\* The streams after iperf_new_stream (calloc) and iperf_init_test, the threads
\* just created, the test in TEST_RUNNING at both ends.
Init ==
    /\ test \in Tests
    /\ thread = [e \in Ends |-> "ready"]
    /\ register = [e \in Ends |-> 0]
    /\ datagram = 0
    /\ net = {} /\ written = 0 /\ repeats = 0
    /\ sent_count = 0 /\ packet_count = 0 /\ cnt_error = 0
    /\ bytes = [e \in Ends |-> 0]
    /\ bytes_sent_omit = 0
    /\ this_interval = [e \in Ends |-> 0]
    /\ omitted_packets = [e \in Ends |-> 0]
    /\ omitted_errors = 0
    /\ place = [e \in Ends |-> "running"]
    /\ temp = [e \in Ends |-> 0]
    /\ intervals = [e \in Ends |-> 0]
    /\ listed = 0
    /\ omitting = [e \in Ends |-> test.omit]
    /\ running = [e \in Ends |-> TRUE]
    /\ posted = [e \in Ends |-> Nothing]
    /\ peer = [e \in Ends |-> Nothing]
    /\ report = [e \in Ends |-> NoReport]
    /\ counted = [e \in Ends |-> 0]
    /\ accounted = {} /\ repeated = 0

At(e, p) == thread[e] = p
Goto(e, p) == thread' = [thread EXCEPT ![e] = p]

-----------------------------------------------------------------------------
(* The sender's thread: iperf_udp_send, iperf_tcp_send                        *)

\* UDP numbers the datagram before it is written: as many bits of sent_count as there
\* is room for go into it (pcount).  The model names a datagram by the whole count.
Stamp ==
    /\ At("sender", "ready")
    /\ written < test.blocks
    /\ sent_count' = IF udp THEN sent_count + 1 ELSE sent_count
    /\ Goto("sender", "stamped")
    /\ UNCHANGED <<test, register, datagram, network, packet_count, cnt_error, totals,
                   this_interval, omitted, mains, results, history>>

\* The server has closed the stream sockets (on TEST_END).
Closed == server = "sender" /\ place["sender"] \in {"closed", "exchange", "merged", "done"}

\* The write sends nothing: the number is taken back.  After a soft error the
\* thread goes on, after a hard one (a closed socket) it ends.
SendFails ==
    /\ At("sender", "stamped")
    /\ sent_count' = IF udp THEN sent_count - 1 ELSE sent_count
    /\ \/ ~Closed /\ Goto("sender", "ready")
       \/ Goto("sender", "gone")
    /\ UNCHANGED <<test, register, datagram, network, packet_count, cnt_error, totals,
                   this_interval, omitted, mains, results, history>>

Write ==
    /\ At("sender", "stamped")
    /\ ~Closed
    /\ written' = written + 1
    /\ net' = net \cup {written + 1}
    /\ Goto("sender", "written")
    /\ UNCHANGED <<test, register, datagram, repeats, sequence, totals,
                   this_interval, omitted, mains, results, history>>

\* bytes_sent += r: no other thread writes bytes_sent of a sending stream.
CountSent ==
    /\ At("sender", "written")
    /\ bytes' = [bytes EXCEPT !["sender"] = @ + 1]
    /\ counted' = [counted EXCEPT !["sender"] = @ + 1]
    /\ Goto("sender", "interval")
    /\ UNCHANGED <<test, register, datagram, network, sequence, bytes_sent_omit,
                   this_interval, omitted, mains, results, accounted, repeated>>

\* bytes_..._this_interval += r, which the main thread sets to 0: one step where
\* the type is atomic, a load and a store where it is a plain integer.
AfterInterval(e) == IF e = "receiver" /\ udp THEN "sequence" ELSE "ready"

AddToInterval(e) ==
    /\ At(e, "interval")
    /\ test.atomic
    /\ this_interval' = [this_interval EXCEPT ![e] = @ + 1]
    /\ Goto(e, AfterInterval(e))
    /\ UNCHANGED <<test, register, datagram, network, sequence, totals, omitted, mains,
                   results, history>>

LoadInterval(e) ==
    /\ At(e, "interval")
    /\ ~test.atomic
    /\ register' = [register EXCEPT ![e] = this_interval[e]]
    /\ Goto(e, "interval_store")
    /\ UNCHANGED <<test, datagram, network, sequence, totals, this_interval, omitted, mains,
                   results, history>>

StoreInterval(e) ==
    /\ At(e, "interval_store")
    /\ this_interval' = [this_interval EXCEPT ![e] = register[e] + 1]
    /\ Goto(e, AfterInterval(e))
    /\ UNCHANGED <<test, register, datagram, network, sequence, totals, omitted, mains,
                   results, history>>

-----------------------------------------------------------------------------
(* The data network.  A datagram that stays in it for ever is lost.           *)

\* What recv may return: any datagram, or the next block of a TCP connection.
Arrivals == {d \in net : ~udp => \A b \in net : d <= b}

-----------------------------------------------------------------------------
(* The receiver's thread: iperf_udp_recv, iperf_tcp_recv                      *)

\* The network may keep a copy of a datagram and deliver it again.
Receive ==
    /\ At("receiver", "ready")
    /\ \E d \in Arrivals :
        /\ datagram' = d
        /\ \/ net' = net \ {d} /\ UNCHANGED repeats
           \/ /\ udp /\ repeats < test.repeats
              /\ repeats' = repeats + 1
              /\ UNCHANGED net
    /\ Goto("receiver", "gate")
    /\ UNCHANGED <<test, register, written, sequence, totals, this_interval, omitted, mains,
                   results, history>>

\* Mutant: whatever is received is counted.
GateOpen ==
    /\ At("receiver", "gate")
    /\ Goto("receiver", "total")
    /\ UNCHANGED <<test, register, datagram, network, sequence, totals, this_interval, omitted,
                   mains, results, history>>

\* Only count bytes received while in TEST_RUNNING.
Gate ==
    /\ At("receiver", "gate")
    /\ Goto("receiver", IF running["receiver"] THEN "total" ELSE "ready")
    /\ UNCHANGED <<test, register, datagram, network, sequence, totals, this_interval, omitted,
                   mains, results, history>>

\* bytes_received += r, which the end of the omitted period sets to 0.
AddToTotal ==
    /\ At("receiver", "total")
    /\ test.atomic
    /\ bytes' = [bytes EXCEPT !["receiver"] = @ + 1]
    /\ counted' = [counted EXCEPT !["receiver"] = @ + 1]
    /\ Goto("receiver", "interval")
    /\ UNCHANGED <<test, register, datagram, network, sequence, bytes_sent_omit,
                   this_interval, omitted, mains, results, accounted, repeated>>

LoadTotal ==
    /\ At("receiver", "total")
    /\ ~test.atomic
    /\ register' = [register EXCEPT !["receiver"] = bytes["receiver"]]
    /\ Goto("receiver", "total_store")
    /\ UNCHANGED <<test, datagram, network, sequence, totals, this_interval, omitted, mains,
                   results, history>>

StoreTotal ==
    /\ At("receiver", "total_store")
    /\ bytes' = [bytes EXCEPT !["receiver"] = register["receiver"] + 1]
    /\ counted' = [counted EXCEPT !["receiver"] = @ + 1]
    /\ Goto("receiver", "interval")
    /\ UNCHANGED <<test, register, datagram, network, sequence, bytes_sent_omit,
                   this_interval, omitted, mains, results, accounted, repeated>>

\* The number iperf_udp_recv reads from a datagram: htonl and ntohl of 32 bits of the
\* sender's counter, or htobe64 and be64toh of all 64.
pcount(d) == d % test.numbers

\* Mutant: the gap includes the datagram itself.
GapOneMore ==
    /\ At("receiver", "sequence")
    /\ pcount(datagram) > packet_count + 1
    /\ cnt_error' = cnt_error + pcount(datagram) - packet_count
    /\ Goto("receiver", "highest")
    /\ UNCHANGED <<test, register, datagram, network, sent_count, packet_count, totals,
                   this_interval, omitted, mains, results, history>>

\* The sequence numbers jump forward: the gap counts as lost, before the
\* highest number is updated.
Gap ==
    /\ At("receiver", "sequence")
    /\ pcount(datagram) > packet_count + 1
    /\ cnt_error' = cnt_error + (pcount(datagram) - 1) - packet_count
    /\ Goto("receiver", "highest")
    /\ UNCHANGED <<test, register, datagram, network, sent_count, packet_count, totals,
                   this_interval, omitted, mains, results, history>>

\* The highest number seen so far is the datagram's.
Forward ==
    /\ \/ At("receiver", "highest")
       \/ At("receiver", "sequence") /\ pcount(datagram) = packet_count + 1
    /\ packet_count' = pcount(datagram)
    /\ accounted' = accounted \cup {datagram}
    /\ Goto("receiver", "ready")
    /\ UNCHANGED <<test, register, datagram, network, sent_count, cnt_error, totals,
                   this_interval, omitted, mains, results, counted, repeated>>

\* A late datagram takes back a loss; so does one that comes twice, and one whose
\* number has wrapped.
Backward ==
    /\ At("receiver", "sequence")
    /\ pcount(datagram) <= packet_count
    /\ cnt_error' = IF cnt_error > 0 THEN cnt_error - 1 ELSE cnt_error
    /\ accounted' = accounted \cup {datagram}
    /\ repeated' = IF datagram \in accounted THEN repeated + 1 ELSE repeated
    /\ Goto("receiver", "ready")
    /\ UNCHANGED <<test, register, datagram, network, sent_count, packet_count, totals,
                   this_interval, omitted, mains, results, counted>>

-----------------------------------------------------------------------------
(* The main threads: iperf_stats_callback and iperf_reset_stats               *)

Move(e, from, to) == place[e] = from /\ place' = [place EXCEPT ![e] = to]

\* A periodic callback of the statistics timer, or the last one at TEST_END: it
\* reads the bytes of the interval, ...
StatsRead(e) ==
    /\ \/ Move(e, "running", "append") /\ listed < test.callbacks
       \/ Move(e, "final", "final_append")
    /\ temp' = [temp EXCEPT ![e] = this_interval[e]]
    /\ UNCHANGED <<test, threads, network, sequence, totals, this_interval, omitted,
                   intervals, listed, omitting, running, results, history>>

\* Mutant: the counter of the interval is not cleared.
StatsAppendOnly(e) ==
    /\ \/ Move(e, "append", "running") /\ listed' = listed + 1
       \/ Move(e, "final_append", "sampled") /\ UNCHANGED listed
    /\ intervals' = [intervals EXCEPT ![e] = @ + temp[e]]
    /\ temp' = [temp EXCEPT ![e] = 0]
    /\ UNCHANGED <<test, threads, network, sequence, totals, this_interval, omitted, omitting,
                   running, results, history>>

\* ... lists them as an interval and sets the counter to 0.
StatsAppend(e) ==
    /\ \/ Move(e, "append", "running") /\ listed' = listed + 1
       \/ Move(e, "final_append", "sampled") /\ UNCHANGED listed
    /\ intervals' = [intervals EXCEPT ![e] = @ + temp[e]]
    /\ this_interval' = [this_interval EXCEPT ![e] = 0]
    /\ temp' = [temp EXCEPT ![e] = 0]
    /\ UNCHANGED <<test, threads, network, sequence, totals, omitted, omitting, running,
                   results, history>>

\* The omit timer of an end fires.  iperf_reset_stats, statement by statement.
Packets(e) == IF e = "sender" THEN sent_count ELSE packet_count

OmitOver(e) ==
    /\ Move(e, "running", IF e = "receiver" THEN "errors" ELSE "totals")
    /\ omitting[e]
    /\ omitting' = [omitting EXCEPT ![e] = FALSE]
    /\ omitted_packets' = [omitted_packets EXCEPT ![e] = Packets(e)]
    /\ UNCHANGED <<test, threads, network, sequence, totals, this_interval, omitted_errors,
                   temp, intervals, listed, running, results, history>>

\* Mutant: the losses of the omitted period are not set apart.
OmitErrorsForgotten ==
    /\ Move("receiver", "errors", "totals")
    /\ omitted_errors' = 0
    /\ UNCHANGED <<test, threads, network, sequence, totals, this_interval, omitted_packets,
                   temp, intervals, listed, omitting, running, results, history>>

OmitErrors ==
    /\ Move("receiver", "errors", "totals")
    /\ omitted_errors' = cnt_error
    /\ UNCHANGED <<test, threads, network, sequence, totals, this_interval, omitted_packets,
                   temp, intervals, listed, omitting, running, results, history>>

OmitTotals(e) ==
    /\ Move(e, "totals", "clear")
    /\ bytes_sent_omit' = IF e = "sender" THEN bytes["sender"] ELSE bytes_sent_omit
    /\ bytes' = IF e = "receiver" THEN [bytes EXCEPT ![e] = 0] ELSE bytes
    /\ UNCHANGED <<test, threads, network, sequence, this_interval, omitted,
                   temp, intervals, listed, omitting, running, results, history>>

OmitInterval(e) ==
    /\ Move(e, "clear", "running")
    /\ this_interval' = [this_interval EXCEPT ![e] = 0]
    /\ UNCHANGED <<test, threads, network, sequence, totals, omitted,
                   temp, intervals, listed, omitting, running, results, history>>

-----------------------------------------------------------------------------
(* The end of the test                                                        *)

\* The client's test is over (time, bytes or blocks): it cancels and joins its
\* sender threads wherever they are, sets done and takes the last statistics.
EndTest ==
    /\ Move(client, "running", "final")
    /\ ~omitting[client]
    /\ thread' = IF client = "sender" THEN [thread EXCEPT ![client] = "gone"] ELSE thread
    /\ UNCHANGED <<test, register, datagram, network, sequence, totals, this_interval, omitted,
                   temp, intervals, listed, omitting, running, results, history>>

\* iperf_set_send_state(test, TEST_END): the gate of the client's receivers closes.
SendTestEnd ==
    /\ Move(client, "sampled", "ended")
    /\ running' = [running EXCEPT ![client] = FALSE]
    /\ UNCHANGED <<test, threads, network, sequence, totals, this_interval, omitted,
                   temp, intervals, listed, omitting, results, history>>

\* The server reads TEST_END into test->state and takes the last statistics.
HearTestEnd ==
    /\ place[client] = "ended"
    /\ Move(server, "running", "final")
    /\ running' = [running EXCEPT ![server] = FALSE]
    /\ UNCHANGED <<test, threads, network, sequence, totals, this_interval, omitted,
                   temp, intervals, listed, omitting, results, history>>

\* It closes the stream sockets; its threads still run.
CloseStreams ==
    /\ Move(server, "sampled", "closed")
    /\ UNCHANGED <<test, threads, network, sequence, totals, this_interval, omitted,
                   temp, intervals, listed, omitting, running, results, history>>

\* Mutant: the sender's bytes are the sum of its intervals.
ResultsOfIntervals(e) ==
    [bytes |-> IF e = "sender" THEN intervals[e] ELSE bytes[e],
     packets |-> Packets(e),
     errors |-> IF e = "receiver" THEN cnt_error ELSE peer[e].errors,
     omitted_packets |-> omitted_packets[e],
     omitted_errors |-> IF e = "receiver" THEN omitted_errors ELSE peer[e].omitted_errors]

\* What send_results puts into the JSON of a stream.
Results(e) ==
    [bytes |-> IF e = "sender" THEN bytes[e] - bytes_sent_omit ELSE bytes[e],
     packets |-> Packets(e),
     errors |-> IF e = "receiver" THEN cnt_error ELSE peer[e].errors,
     omitted_packets |-> omitted_packets[e],
     omitted_errors |-> IF e = "receiver" THEN omitted_errors ELSE peer[e].omitted_errors]

\* What iperf_print_results shows of the stream at end e: its own counters and
\* those get_results merged from the other end (0 before the exchange).
Report(e) ==
    LET own == Results(e)
        snd == IF e = "sender" THEN own ELSE peer[e]
        rcv == IF e = "receiver" THEN own ELSE peer[e]
    IN  [printed |-> TRUE, sent |-> snd.bytes, received |-> rcv.bytes,
         sent_packets |-> snd.packets - snd.omitted_packets,
         received_packets |-> rcv.packets - rcv.omitted_packets,
         lost |-> own.errors - own.omitted_errors]

\* The server reports before the exchange, so it knows only its own side.
ServerReports ==
    /\ Move(server, "closed", "exchange")
    /\ report' = [report EXCEPT ![server] = Report(server)]
    /\ UNCHANGED <<test, threads, network, sequence, totals, this_interval, omitted,
                   temp, intervals, listed, omitting, running, posted, peer, history>>

\* The client sends its results on EXCHANGE_RESULTS, the server once it has them.
SendResults(e) ==
    /\ \/ e = client /\ place[server] = "exchange" /\ Move(e, "ended", "posted")
       \/ e = server /\ Move(e, "merged", "done")
    /\ posted' = [posted EXCEPT ![e] = Results(e)]
    /\ UNCHANGED <<test, threads, network, sequence, totals, this_interval, omitted,
                   temp, intervals, listed, omitting, running, peer, report, history>>

\* get_results merges what the other end counted into the stream: never into a
\* counter its own thread writes.
GetResults(e) ==
    LET other == IF e = client THEN server ELSE client
    IN  /\ \/ e = server /\ place[client] = "posted" /\ Move(e, "exchange", "merged")
           \/ e = client /\ place[server] = "done" /\ Move(e, "posted", "display")
        /\ peer' = [peer EXCEPT ![e] = posted[other]]
        /\ UNCHANGED <<test, threads, network, sequence, totals, this_interval, omitted,
                       temp, intervals, listed, omitting, running, posted, report, history>>

\* DISPLAY_RESULTS; the client's receiver threads are not stopped yet.
ClientReports ==
    /\ Move(client, "display", "done")
    /\ report' = [report EXCEPT ![client] = Report(client)]
    /\ UNCHANGED <<test, threads, network, sequence, totals, this_interval, omitted,
                   temp, intervals, listed, omitting, running, posted, peer, history>>

-----------------------------------------------------------------------------
ThreadStep ==
    \/ Stamp \/ SendFails \/ Write \/ CountSent
    \/ Receive \/ Gate \/ AddToTotal \/ LoadTotal \/ StoreTotal
    \/ Gap \/ Forward \/ Backward
    \/ \E e \in Ends : AddToInterval(e) \/ LoadInterval(e) \/ StoreInterval(e)

MainStep ==
    \/ OmitErrors
    \/ EndTest \/ SendTestEnd \/ HearTestEnd \/ CloseStreams \/ ServerReports \/ ClientReports
    \/ \E e \in Ends :
        \/ StatsRead(e) \/ StatsAppend(e)
        \/ OmitOver(e) \/ OmitTotals(e) \/ OmitInterval(e)
        \/ SendResults(e) \/ GetResults(e)

Next == ThreadStep \/ MainStep

Spec == Init /\ [][Next]_vars

-----------------------------------------------------------------------------
(* Properties                                                                 *)

\* The type invariant.
ResultType == [bytes : Int, packets : Int, errors : Int,
               omitted_packets : Int, omitted_errors : Int]

ReportType == [printed : BOOLEAN, sent : Int, received : Int,
               sent_packets : Int, received_packets : Int, lost : Int]

ThreadTypes ==
    /\ thread \in [Ends -> ThreadPlaces]
    /\ register \in [Ends -> Nat]
    /\ datagram \in Nat
    /\ thread["receiver"] # "ready" => datagram > 0
    /\ net \subseteq Nat \ {0}
    /\ written \in Nat
    /\ repeats \in Nat

CounterTypes ==
    /\ sent_count \in Int
    /\ packet_count \in Nat
    /\ cnt_error \in Nat
    /\ bytes \in [Ends -> Nat]
    /\ bytes_sent_omit \in Nat
    /\ this_interval \in [Ends -> Nat]
    /\ omitted_packets \in [Ends -> Int]
    /\ omitted_errors \in Nat
    /\ counted \in [Ends -> Nat]
    /\ accounted \subseteq Nat
    /\ repeated \in Nat

MainTypes ==
    /\ place \in [Ends -> MainPlaces]
    /\ temp \in [Ends -> Nat]
    /\ intervals \in [Ends -> Nat]
    /\ listed \in Nat
    /\ omitting \in [Ends -> BOOLEAN]
    /\ running \in [Ends -> BOOLEAN]

ResultTypes ==
    /\ posted \in [Ends -> ResultType]
    /\ peer \in [Ends -> ResultType]
    /\ report \in [Ends -> ReportType]

TypeOK ==
    /\ test \in Tests
    /\ ThreadTypes
    /\ CounterTypes
    /\ MainTypes
    /\ ResultTypes

\* iperf_udp_recv keeps the number of lost datagrams in constant storage.  Once a
\* datagram is counted, cnt_error is the number of datagrams up to the highest
\* one seen that never came, when none came twice; each repeat may hide one loss,
\* and never is a loss reported that did not happen.  That is so as long as the
\* numbers of the datagrams written have not wrapped (iperf3.1:443 says so).
Missing == packet_count - Cardinality(accounted)

LossIsExact ==
    written < test.numbers /\ thread["receiver"] # "highest" =>
        /\ cnt_error <= Missing
        /\ Missing <= cnt_error + repeated

\* The loss reported after the omitted period is never more than the datagrams
\* the sequence numbers advanced by in it: the snapshot of the omitted counters
\* is taken while the receiver thread goes on counting, and numbers may wrap.
LossWithinPackets ==
    (place["receiver"] # "errors" /\ thread["receiver"] # "highest") =>
        cnt_error - omitted_errors <= packet_count - omitted_packets["receiver"]

\* A block is listed in at most one interval: what the statistics callback has
\* listed and what still waits in the counter is never more than what the stream
\* thread counted.  (Blocks counted between its read and its write of 0 are in no
\* interval.)  It needs the atomic type.
ListedOnce == \A e \in Ends : intervals[e] + this_interval[e] <= counted[e]

IntervalsWithinTotal == test.atomic => ListedOnce

\* The two reports and the exchanged results are taken at different times while
\* threads still count, and yet differ by no more than the block in flight: what
\* the client shows for the server's side against what the server showed, and what
\* it shows for its own side against what it sent.  (Where the counters are not
\* atomic, a thread that loaded bytes_received before the end of the omitted period
\* may store the omitted bytes back much later.)
Side(e, r) == IF e = "sender" THEN r.sent ELSE r.received

ReportsAgree ==
    (report[client].printed /\ (test.omit => test.atomic)) =>
        /\ Side(server, report[client]) - Side(server, report[server]) \in {0, 1}
        /\ Side(client, report[client]) - posted[client].bytes \in {0, 1}

\* Without an omitted period the client's final report is plausible: no more is
\* received than sent but for the block the sender's thread had written and not
\* counted when it was stopped, and the sender's datagrams cover the receiver's
\* and the lost ones, also when their numbers have wrapped.
ReportIsPlausible ==
    (report[client].printed /\ ~test.omit) =>
        LET r == report[client]
        IN  /\ r.received <= r.sent + 1 + repeats
            /\ r.received_packets <= r.sent_packets
            /\ r.lost \in 0 .. r.sent_packets
=============================================================================
