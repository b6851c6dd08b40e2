--------------------------- MODULE MCIperfSession ---------------------------
(* Small instances of IperfSession for TLC. *)
EXTENDS IperfSession, TLC

CONSTANTS c1, c2

Timed(m) == [mode |-> m, timed |-> TRUE, tuned |-> FALSE]
Counted(m) == [mode |-> m, timed |-> FALSE, tuned |-> FALSE]
Tuned(m) == [mode |-> m, timed |-> TRUE, tuned |-> TRUE]

Upload == {Timed("RECEIVER")}
OneWay == {Timed("RECEIVER"), Tuned("SENDER")}
AllModes == {Timed(m) : m \in Modes} \cup {Counted("RECEIVER"), Tuned("RECEIVER")}

Symmetry == Permutations({c1, c2})

\* The clients are alike: of two instances that differ in which of them asks for
\* a tuned test one is enough.  (Liveness is not checked under a symmetry.)
LiveInit == Init /\ (setup[c1].tuned => setup[c2].tuned)

LiveSpec == LiveInit /\ [][Next]_vars /\ Fairness
=============================================================================
