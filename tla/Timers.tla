------------------------------- MODULE Timers -------------------------------
(***************************************************************************)
(* The timers of a server: timer.c with its two global lists, and what     *)
(* iperf_server_api.c does with it from the start of a test to the         *)
(* cleanup, test after test.  All of it runs in the server's main thread.  *)
(*                                                                         *)
(* A doubly linked list is the sequence of its cells; the pointers of a    *)
(* cell are its neighbours in the list it is in.  Time is counted in units *)
(* of the shortest interval.                                               *)
(***************************************************************************)
EXTENDS Naturals, Sequences, SequencesExt

CONSTANTS
    Cells,      \* struct TimerStruct that malloc can return
    Nil,        \* NULL
    Setups,     \* tests that clients ask for: seconds of duration and omit,
                \* and the two report intervals; 0 stands for none
    Grace,      \* max_rtt * state_transitions
    MaxTime,    \* bound: the clock
    MaxTests    \* bound: tests, one after the other

ASSUME NilAssumption == Nil \notin Cells /\ Nil \notin Nat
ASSUME SetupsAssumption ==
    /\ Setups \subseteq [duration : Nat, omit : Nat, stats : Nat, reporter : Nat]
    /\ Setups # {}
ASSUME BoundsAssumption == Grace \in Nat /\ MaxTime \in Nat /\ MaxTests \in Nat

VARIABLES
    now,        \* the monotonic clock
    timers,     \* the active list, from the first timer to expire
    free,       \* the list of cells to reuse
    time,       \* time[t]: when t expires
    proc,       \* proc[t]: t->timer_proc, named after the handle it serves
    handle,     \* test->timer, test->stats_timer, ...: a cell or Nil
    setup,      \* the test's parameters
    pending,    \* timers of the test that are still to be created
    phase,      \* "idle", "starting", "running" or "ending"
    cursor,     \* t of tmr_run: the next timer to look at
    clock,      \* tmr_run's idea of now, while it runs; else Nil
    tests

listVars == <<timers, free, time, proc>>
vars == <<now, listVars, handle, setup, pending, phase, cursor, clock, tests>>

Procs == {"timer", "stats_timer", "reporter_timer", "omit_timer"}
Periodic == {"stats_timer", "reporter_timer"}

Usecs(s, p) ==
    CASE p = "timer" -> s.duration + s.omit + Grace
      [] p = "stats_timer" -> s.stats
      [] p = "reporter_timer" -> s.reporter
      [] p = "omit_timer" -> s.omit

Active == ToSet(timers)
Free == ToSet(free)

TypeOK ==
    /\ now \in 0 .. MaxTime
    /\ timers \in Seq(Cells) /\ free \in Seq(Cells)
    /\ time \in [Cells -> Nat]
    /\ proc \in [Cells -> Procs]
    /\ handle \in [Procs -> Cells \cup {Nil}]
    /\ setup \in Setups
    /\ pending \subseteq Procs
    /\ phase \in {"idle", "starting", "running", "ending"}
    /\ cursor \in Cells \cup {Nil}
    /\ clock \in 0 .. MaxTime \cup {Nil}
    /\ tests \in 0 .. MaxTests

Init ==
    /\ now = 0
    /\ timers = <<>> /\ free = <<>>
    /\ time = [t \in Cells |-> 0]
    /\ proc = [t \in Cells |-> "timer"]
    /\ handle = [p \in Procs |-> Nil]
    /\ setup = CHOOSE s \in Setups : TRUE
    /\ pending = {}
    /\ phase = "idle"
    /\ cursor = Nil /\ clock = Nil
    /\ tests = 0

----------------------------------------------------------------------------
(* timer.c.                                                                *)

\* Before the first timer that expires strictly later, or at the tail.
ListAdd(list, times, t) ==
    LET later == {i \in DOMAIN list : times[t] < times[list[i]]}
    IN  InsertAt(list, IF later = {} THEN Len(list) + 1 ELSE Min(later), t)

ListRemove(list, t) ==
    IF t \in ToSet(list) THEN RemoveAt(list, CHOOSE i \in DOMAIN list : list[i] = t) ELSE list

\* Mutant: the timer stays where it was.
ListResortNot(list, times, t) == list

ListResort(list, times, t) == ListAdd(ListRemove(list, t), times, t)

\* t->next, whichever list t is in.
NextOf(t) ==
    LET list == IF t \in Active THEN timers ELSE free
        i == CHOOSE j \in DOMAIN list : list[j] = t
    IN  IF i = Len(list) THEN Nil ELSE list[i + 1]

----------------------------------------------------------------------------
(* The server: create_server_timers, its timer procs, cleanup_server.      *)

\* The handles that a test of this setup needs.
Wanted(s) == {p \in Procs : IF p = "timer" THEN s.duration # 0 ELSE Usecs(s, p) # 0}

CreateOrder == <<"timer", "stats_timer", "reporter_timer", "omit_timer">>

\* The first one that is still to be created.
NextWanted == CreateOrder[Min({i \in DOMAIN CreateOrder : CreateOrder[i] \in pending})]

StartTest ==
    /\ phase = "idle"
    /\ tests < MaxTests
    /\ tests' = tests + 1
    /\ setup' \in Setups
    /\ pending' = Wanted(setup')
    /\ phase' = "starting"
    /\ UNCHANGED <<now, listVars, handle, cursor, clock>>

\* malloc returns some cell that is not in use; which one does not matter.
Unused == Cells \ (Active \cup Free)

\* tmr_create: a cell from the free list, else from malloc.
CreateTimer ==
    /\ phase = "starting"
    /\ pending # {}
    /\ free # <<>> \/ Unused # {}
    /\ LET t == IF free # <<>> THEN Head(free) ELSE CHOOSE u \in Unused : TRUE
       IN  /\ time' = [time EXCEPT ![t] = now + Usecs(setup, NextWanted)]
           /\ proc' = [proc EXCEPT ![t] = NextWanted]
           /\ timers' = ListAdd(timers, time', t)
           /\ handle' = [handle EXCEPT ![NextWanted] = t]
    /\ free' = IF free = <<>> THEN free ELSE Tail(free)
    /\ pending' = pending \ {NextWanted}
    /\ UNCHANGED <<now, setup, phase, cursor, clock, tests>>

\* malloc returns NULL: the call goes to its cleanup.
CreateFails ==
    /\ phase = "starting"
    /\ pending # {} /\ free = <<>>
    /\ phase' = "ending"
    /\ UNCHANGED <<now, listVars, handle, setup, pending, cursor, clock, tests>>

TestRuns ==
    /\ phase = "starting"
    /\ pending = {}
    /\ phase' = "running"
    /\ UNCHANGED <<now, listVars, handle, setup, pending, cursor, clock, tests>>

\* The run is over, whatever the reason.
Leave ==
    /\ phase = "running" /\ clock = Nil
    /\ phase' = "ending"
    /\ UNCHANGED <<now, listVars, handle, setup, pending, cursor, clock, tests>>

\* tmr_cancel of the timer p, unless its handle is NULL, in a record of both lists.
Cancel(l, p) ==
    IF handle[p] = Nil THEN l
    ELSE [active |-> ListRemove(l.active, handle[p]), free |-> <<handle[p]>> \o l.free]

Lists == [active |-> timers, free |-> free]

\* Mutant: the omit timer is forgotten.
CancelAllButOmit ==
    \E s \in {Cancel(Lists, "stats_timer")} : \E r \in {Cancel(s, "reporter_timer")} :
    \E l \in {Cancel(r, "timer")} : timers' = l.active /\ free' = l.free

\* The timers that cleanup_server cancels, one after the other.
CancelAll ==
    \E s \in {Cancel(Lists, "stats_timer")} : \E r \in {Cancel(s, "reporter_timer")} :
    \E o \in {Cancel(r, "omit_timer")} : \E l \in {Cancel(o, "timer")} :
        timers' = l.active /\ free' = l.free

Cleanup ==
    /\ phase = "ending"
    /\ CancelAll
    /\ handle' = [p \in Procs |-> Nil]
    /\ phase' = "idle"
    /\ UNCHANGED <<now, time, proc, setup, pending, cursor, clock, tests>>

----------------------------------------------------------------------------
(* tmr_run, one timer per step.                                            *)

RunTimers ==
    /\ phase = "running" /\ clock = Nil
    /\ clock' = now
    /\ cursor' = IF timers = <<>> THEN Nil ELSE Head(timers)
    /\ UNCHANGED <<now, listVars, handle, setup, pending, phase, tests>>

Fires(p) ==
    /\ clock # Nil /\ cursor # Nil
    /\ proc[cursor] = p
    /\ time[cursor] <= clock

\* Mutant: t->next is read after tmr_cancel.
NextTimerLate ==
    cursor' = IF proc[cursor] \in Periodic THEN NextOf(cursor)
              ELSE IF free = <<>> THEN Nil ELSE Head(free)

\* "next" is read before the timer's proc runs.
NextTimer == cursor' = NextOf(cursor)

\* A timer that is not periodic is cancelled once it has run.
CancelTimer(list) ==
    /\ timers' = ListRemove(list, cursor)
    /\ free' = <<cursor>> \o free

\* Mutant: test->timer is not set to NULL.
ServerTimerKeepsHandle ==
    /\ Fires("timer")
    /\ CancelTimer(timers)
    /\ NextTimer
    /\ UNCHANGED <<now, time, proc, handle, setup, pending, phase, clock, tests>>

ServerTimer ==
    /\ Fires("timer")
    /\ handle' = [handle EXCEPT !["timer"] = Nil]
    /\ CancelTimer(timers)
    /\ NextTimer
    /\ UNCHANGED <<now, time, proc, setup, pending, phase, clock, tests>>

\* tmr_reset of the timer p, in a record of the active list and the times.
Reset(l, p) ==
    LET times == [l.times EXCEPT ![handle[p]] = clock + Usecs(setup, p)]
    IN  IF handle[p] = Nil THEN l
        ELSE [list |-> ListResort(l.list, times, handle[p]), times |-> times]

\* Mutant: test->omit_timer is not set to NULL.
OmitTimerKeepsHandle ==
    /\ Fires("omit_timer")
    /\ CancelTimer(timers)
    /\ NextTimer
    /\ UNCHANGED <<now, time, proc, handle, setup, pending, phase, clock, tests>>

OmitTimer ==
    /\ Fires("omit_timer")
    /\ handle' = [handle EXCEPT !["omit_timer"] = Nil]
    /\ \E s \in {Reset([list |-> timers, times |-> time], "stats_timer")} :
       \E r \in {Reset(s, "reporter_timer")} : time' = r.times /\ CancelTimer(r.list)
    /\ NextTimer
    /\ UNCHANGED <<now, proc, setup, pending, phase, clock, tests>>

\* Mutant: tmr_run never gets past a timer that runs again.
PeriodicTimerStays ==
    /\ \E p \in Periodic : Fires(p)
    /\ UNCHANGED <<now, time, timers, cursor, free, proc, handle, setup, pending, phase,
                   clock, tests>>

\* Statistics and reports change no timer; then list_resort.
PeriodicTimer ==
    /\ \E p \in Periodic : Fires(p)
    /\ time' = [time EXCEPT ![cursor] = @ + Usecs(setup, proc[cursor])]
    /\ timers' = ListResort(timers, time', cursor)
    /\ NextTimer
    /\ UNCHANGED <<now, free, proc, handle, setup, pending, phase, clock, tests>>

RunEnds ==
    /\ clock # Nil
    /\ cursor # Nil => time[cursor] > clock
    /\ clock' = Nil /\ cursor' = Nil
    /\ UNCHANGED <<now, listVars, handle, setup, pending, phase, tests>>

Tick ==
    /\ now < MaxTime
    /\ now' = now + 1
    /\ UNCHANGED <<listVars, handle, setup, pending, phase, cursor, clock, tests>>

\* The last test is over.
Over == phase = "idle" /\ tests = MaxTests /\ now = MaxTime /\ UNCHANGED vars

TmrRun == RunTimers \/ ServerTimer \/ OmitTimer \/ PeriodicTimer \/ RunEnds

Next ==
    \/ StartTest \/ CreateTimer \/ CreateFails \/ TestRuns \/ Leave \/ Cleanup
    \/ TmrRun \/ Tick \/ Over

\* The loop of iperf_run_server comes back to tmr_run: its select waits no longer
\* than tmr_timeout allows.
Spec == Init /\ [][Next]_vars /\ WF_vars(TmrRun)

----------------------------------------------------------------------------
\* "Since the list is sorted, we only need to look at the first timer"
\* (timer.c:162, and tmr_run): no resort is forgotten, in any order of events.
Sorted(list, times) ==
    \A i, j \in DOMAIN list : i < j => times[list[i]] <= times[list[j]]

ListIsSorted == Sorted(timers, time)

\* A cell is in one place: cancelled twice, it would be in the free list twice
\* and later serve two timers at once.
CellsAreInOnePlace ==
    /\ IsInjective(timers) /\ IsInjective(free)
    /\ Active \cap Free = {}

\* What the test points to is its own active timer: cleanup and tmr_reset never
\* touch a timer that has expired or serves someone else.
HandlesAreActive ==
    \A p \in Procs : handle[p] # Nil => handle[p] \in Active /\ proc[handle[p]] = p

\* No timer outlives its test, whose memory its proc would use.
NoTimerOutlivesItsTest ==
    \A t \in Active : \E p \in Procs : handle[p] = t

\* The "next" that tmr_run has saved is still an active timer when it gets there.
CursorIsActive == cursor # Nil => cursor \in Active

\* A timer that is due does fire, although tmr_run may stop early after the omit
\* timer has moved the one it was to look at next.
DueTimersFire ==
    \A t \in Cells :
        (phase = "running" /\ t \in Active /\ time[t] <= now)
        ~> (phase # "running" \/ t \notin Active \/ time[t] > now)
=============================================================================
