--------------------------- MODULE MessageChannel ---------------------------
(* What the two ends of a control connection promise about the JSON texts that *)
(* are exchanged on it: the reader gets the texts the writer handed over, whole *)
(* and in order, until a read fails; nothing is read after that.                *)
EXTENDS Naturals, Sequences

CONSTANT Texts

VARIABLES sent, received, broken

vars == <<sent, received, broken>>

Init == sent = <<>> /\ received = <<>> /\ broken = FALSE

\* A new connection and its first text.
Open ==
    /\ \E text \in Texts : sent' = <<text>>
    /\ received' = <<>> /\ broken' = FALSE

Send ==
    /\ \E text \in Texts : sent' = Append(sent, text)
    /\ UNCHANGED <<received, broken>>

Receive ==
    /\ ~broken
    /\ Len(received) < Len(sent)
    /\ received' = Append(received, sent[Len(received) + 1])
    /\ UNCHANGED <<sent, broken>>

Break == ~broken /\ broken' = TRUE /\ UNCHANGED <<sent, received>>

Next == Open \/ Send \/ Receive \/ Break

Spec == Init /\ [][Next]_vars
=============================================================================
