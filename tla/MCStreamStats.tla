--------------------------- MODULE MCStreamStats ---------------------------
(* Instances of StreamStats for TLC.                                          *)
EXTENDS StreamStats

Kind(p, c, o, a, s, b, r, n) ==
    [proto |-> p, client |-> c, omit |-> o, atomic |-> a, numbers |-> s,
     blocks |-> b, repeats |-> r, callbacks |-> n]

\* UDP with loss, reordering and repeats in both directions, with interval
\* reports, with an omitted period; with numbers that wrap within the test, to 0 at
\* its last datagram or before; TCP with an omitted period and with the counters that
\* are not atomic.
AllTests == {Kind("Pudp", "sender", FALSE, TRUE, 4, 3, 1, 0),
             Kind("Pudp", "sender", FALSE, TRUE, 4, 2, 0, 2),
             Kind("Pudp", "receiver", FALSE, TRUE, 4, 2, 1, 0),
             Kind("Pudp", "sender", TRUE, TRUE, 4, 2, 0, 0),
             Kind("Pudp", "sender", FALSE, TRUE, 2, 3, 1, 0),
             Kind("Pudp", "receiver", FALSE, TRUE, 3, 3, 0, 0),
             Kind("Pudp", "sender", TRUE, TRUE, 2, 2, 1, 0),
             Kind("Ptcp", "receiver", TRUE, TRUE, 4, 2, 0, 1),
             Kind("Ptcp", "receiver", FALSE, FALSE, 4, 2, 0, 1)}

\* One short TCP test of the build whose counters are not atomic.
AndroidTests == {Kind("Ptcp", "sender", FALSE, FALSE, 4, 2, 0, 1)}
=============================================================================
