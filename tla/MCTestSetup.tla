---------------------------- MODULE MCTestSetup ----------------------------
(* Instances of TestSetup for TLC.                                            *)
EXTENDS TestSetup

\* A plain test, two streams with a window, a reverse test that leaves a kept
\* setting behind, and a test with more parameters than the server takes.
Plain == Defaults
Parallel == [Defaults EXCEPT !["parallel"] = 2, !["window"] = 3]
FromServer == [Defaults EXCEPT !["reverse"] = 1, !["repeating_payload"] = 1, !["time"] = 2]
TooLong == [Defaults EXCEPT !["title"] = 1, !["extra_data"] = 1, !["TOS"] = 1]

FewRequests == {Plain, Parallel, FromServer, TooLong}
=============================================================================
