---------------------------- MODULE JsonChannel ----------------------------
(* JSON texts on a control connection: JSON_write and JSON_read over Nwrite     *)
(* and Nread.  A text goes out as a length word and its bytes; the reader takes *)
(* the bytes as they come, in pieces of any size, and may stop short at any     *)
(* byte.  Bytes are positions in the stream: only their number matters.         *)
EXTENDS Integers, Sequences

CONSTANT LengthSize     \* the bytes of the length word (4 in the code)

ASSUME LengthAssumption == LengthSize \in Nat \ {0}

VARIABLES
    sent,       \* the texts handed to JSON_write, each with its position
    written,    \* bytes written to the socket
    taken,      \* bytes read from it
    reading,    \* which Nread of JSON_read is running
    limit,      \* JSON_read's max_size, 0 for none
    got, hsize, \* bytes of this Nread; the length word
    received,   \* the texts JSON_read returned
    broken      \* JSON_read returned NULL

channel == <<sent, written, taken, reading, limit, got, hsize, received, broken>>

\* What cJSON_Parse makes of bytes that are not one text.  It would refuse most of
\* them; the order of the texts does not rest on that.
Garbage == [size |-> 0, values |-> <<>>]

ChannelInit ==
    /\ sent = <<>> /\ received = <<>> /\ broken = FALSE
    /\ written = 0 /\ taken = 0
    /\ reading = "idle" /\ limit = 0 /\ got = 0 /\ hsize = 0

-----------------------------------------------------------------------------
(* The writer                                                                 *)

Frame(at, text) == [at |-> at, text |-> text]

End(frame) == frame.at + LengthSize + frame.text.size

Offered == IF sent = <<>> THEN 0 ELSE End(sent[Len(sent)])

\* Nwrite blocks: a text is handed over when the one before it is written.
JsonWrite(text) ==
    /\ written = Offered
    /\ sent' = Append(sent, Frame(Offered, text))
    /\ UNCHANGED <<written, taken, reading, limit, got, hsize, received, broken>>

WriteSome ==
    /\ written < Offered
    /\ \E n \in written + 1 .. Offered : written' = n
    /\ UNCHANGED <<sent, taken, reading, limit, got, hsize, received, broken>>

\* A new connection: the client writes its first text, the server starts to read.
Open(text, max) ==
    /\ sent' = <<Frame(0, text)>> /\ received' = <<>> /\ broken' = FALSE
    /\ written' = 0 /\ taken' = 0
    /\ reading' = "length" /\ limit' = max /\ got' = 0 /\ hsize' = 0

-----------------------------------------------------------------------------
(* The reader                                                                 *)

JsonRead(max) ==
    /\ reading = "idle" /\ ~broken
    /\ reading' = "length" /\ limit' = max /\ got' = 0
    /\ UNCHANGED <<sent, written, taken, hsize, received, broken>>

Wanted == IF reading = "length" THEN LengthSize ELSE hsize

\* One read(2) of Nrecv's loop: some of the bytes that are there.
ReadSome ==
    /\ reading # "idle"
    /\ \E n \in 1 .. Wanted - got :
        /\ taken + n <= written
        /\ taken' = taken + n
        /\ got' = got + n
    /\ UNCHANGED <<sent, written, reading, limit, hsize, received, broken>>

\* JSON_read returns NULL.
JsonFails ==
    /\ reading' = "idle" /\ broken' = TRUE
    /\ UNCHANGED <<sent, written, taken, limit, got, hsize, received>>

\* Nread stops short: nothing came for 10 s, 30 s in all, the peer closed, a
\* signal, an error.
ReadEnds ==
    /\ reading # "idle"
    /\ got < Wanted
    /\ JsonFails

\* The word at a position, and the bytes that follow it, as numbers and text.
Word(at) ==
    IF \E i \in DOMAIN sent : sent[i].at = at
    THEN (CHOOSE f \in {sent[i] : i \in DOMAIN sent} : f.at = at).text.size
    ELSE 0

Parse(at, size) ==
    IF size # 0 /\ Word(at) = size
    THEN (CHOOSE f \in {sent[i] : i \in DOMAIN sent} : f.at = at).text
    ELSE Garbage

LengthIsRead ==
    /\ reading = "length"
    /\ got = LengthSize
    /\ hsize' = Word(taken - LengthSize)
    /\ hsize' > 0 /\ (limit = 0 \/ hsize' <= limit)
    /\ reading' = "body" /\ got' = 0
    /\ UNCHANGED <<sent, written, taken, limit, received, broken>>

\* JSON data length overflow.
LengthRefused ==
    /\ reading = "length"
    /\ got = LengthSize
    /\ LET n == Word(taken - LengthSize) IN n = 0 \/ (limit # 0 /\ n > limit)
    /\ JsonFails

\* Mutant: the body is parsed whatever Nread returned.
BodyIsReadShort ==
    /\ reading = "body"
    /\ got > 0
    /\ received' = Append(received, Parse(taken - got - LengthSize, got))
    /\ reading' = "idle"
    /\ UNCHANGED <<sent, written, taken, limit, got, hsize, broken>>

\* The offered length and the bytes read agree: the text is parsed and returned.
BodyIsRead ==
    /\ reading = "body"
    /\ got = hsize
    /\ received' = Append(received, Parse(taken - got - LengthSize, got))
    /\ reading' = "idle"
    /\ UNCHANGED <<sent, written, taken, limit, got, hsize, broken>>
=============================================================================
