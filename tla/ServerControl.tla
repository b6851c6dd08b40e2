---------------------------- MODULE ServerControl ----------------------------
(* What start(), stop(), isRunning() and the log listener promise to an         *)
(* application on any platform: calls come one at a time; a server begins to    *)
(* run only in a start(), when the last one is gone and its log lines are       *)
(* delivered; a line comes from a server that runs and goes to the listener of  *)
(* the start() that made it; between calls isRunning() never tells of a server  *)
(* that is not there; and where stop() waits, it leaves neither server nor line.*)
CONSTANTS
    Servers,    \* one per start(); its listener has the same name
    StopWaits   \* whether stop() returns only when the server is gone

VARIABLES
    call,       \* the call that is being executed, or "none"
    running,    \* the servers that exist
    told,       \* the answer of isRunning()
    lines       \* <<s, t>>: a line of server s is on its way to the listener of t

vars == <<call, running, told, lines>>

Gone == running = {} /\ lines = {}

Init == call = "none" /\ Gone /\ told = FALSE

Calls(o) ==
    /\ call = "none" /\ call' = o
    /\ UNCHANGED <<running, told, lines>>

\* start() lets isRunning() tell of the server that it is about to make.
Tells ==
    /\ call = "start" /\ Gone
    /\ told' = TRUE
    /\ UNCHANGED <<call, running, lines>>

\* A stop(), or the decision of the server to end.
Denies ==
    /\ told' = FALSE
    /\ UNCHANGED <<call, running, lines>>

\* This may be the last step of start().
Begins(s) ==
    /\ call = "start" /\ Gone /\ told
    /\ running' = {s}
    /\ call' \in {"start", "none"}
    /\ UNCHANGED <<told, lines>>

Ends(s) ==
    /\ s \in running
    /\ running' = running \ {s}
    /\ told' = FALSE
    /\ UNCHANGED <<call, lines>>

Prints(s) ==
    /\ s \in running
    /\ lines' = lines \cup {<<s, s>>}
    /\ UNCHANGED <<call, running, told>>

Delivered ==
    /\ \E line \in lines : lines' = lines \ {line}
    /\ UNCHANGED <<call, running, told>>

\* start() may have failed to make a server.
Returns ==
    /\ call # "none" /\ call' = "none"
    /\ told => call = "start" /\ running # {}
    /\ call = "stop" /\ StopWaits => Gone
    /\ UNCHANGED <<running, told, lines>>

Next ==
    \/ \E o \in {"start", "stop"} : Calls(o)
    \/ Tells \/ Denies
    \/ \E s \in Servers : Begins(s) \/ Ends(s) \/ Prints(s)
    \/ Delivered \/ Returns

Spec == Init /\ [][Next]_vars
=============================================================================
