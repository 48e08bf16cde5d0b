----------------------------- MODULE RealClint -----------------------------
(***************************************************************************)
(* The core-local interruptor of hifive-vp (core/common/real_clint.cpp)    *)
(* and the host timers behind it (core/common/timer.cpp).  mtime is the    *)
(* host's clock; a write of mtimecmp lets a host thread sleep until the    *)
(* comparison holds, and that thread requests an asynchronous event, whose *)
(* method raises the timer interrupts.                                     *)
(*                                                                         *)
(* The SystemC thread and the timer threads run concurrently.  Time passes *)
(* at any point.  A cancelled thread ends at its next cancellation point,  *)
(* the entry of nanosleep or the sleep itself.                             *)
(***************************************************************************)
EXTENDS Integers, FiniteSets

CONSTANTS
    Harts,
    HalfWord,       \* values of one half of a register, 2^32 in the code
    Halves,         \* the half words that the software writes
    DIVIDEND,       \* microseconds of a tick, 30 in the code
    US_MAX,         \* longest single sleep
    TimeSteps,      \* how far the host's clock may advance between two steps
    MaxTime         \* bound on the host's clock, which stands for all later times

\* Values of the 64 bit registers and of a count of microseconds.
Wrap == HalfWord * HalfWord

ASSUME RealClintAssumption ==
    /\ HalfWord \in Nat \ {0} /\ Halves \subseteq 0..(HalfWord - 1)
    /\ DIVIDEND \in Nat \ {0} /\ US_MAX \in Nat \ {0}
    /\ TimeSteps \subseteq Nat /\ MaxTime \in Nat /\ MaxTime < Wrap

VARIABLES
    now,            \* the host's clock, microseconds since first_mtime
    mtime,
    mtimecmp,       \* hart -> comparand
    written,        \* harts whose mtimecmp has been written
    mtip, msip,     \* harts whose timer, software interrupt line is up
    kernel,         \* the SystemC thread: what it is in the middle of
    event,          \* the asynchronous event is requested
    running,        \* harts whose Timer has a thread to join
    thread,         \* hart -> [at, count, until]: the timer thread
    cancelled,      \* harts whose timer thread was cancelled
    aborted         \* an assertion failed

timers == <<running, thread, cancelled>>
vars == <<now, mtime, mtimecmp, written, mtip, msip, kernel, event,
          running, thread, cancelled, aborted>>

Values == 0..(Wrap - 1)
Idle == [op |-> "idle"]
Ended == [at |-> "ended", count |-> 0, until |-> 0]
Running == ~ aborted /\ kernel.op # "gone"

-----------------------------------------------------------------------------
(* Ticks and microseconds.                                                 *)

usec_to_ticks(usec) == usec \div DIVIDEND

\* Mutant: the time to the next tick is one short.
ShortTicks(ticks) == ((ticks * DIVIDEND) - 1) % Wrap

\* The product is computed in 64 bits.
ticks_to_usec(ticks) == (ticks * DIVIDEND) % Wrap

update_and_get_mtime == mtime' = usec_to_ticks(now)

-----------------------------------------------------------------------------
Init ==
    /\ now = 0 /\ mtime = 0
    /\ mtimecmp = [h \in Harts |-> 0] /\ written = {}
    /\ mtip = {} /\ msip = {}
    /\ kernel = Idle /\ event = FALSE
    /\ running = {} /\ cancelled = {}
    /\ thread = [h \in Harts |-> Ended]
    /\ aborted = FALSE

Tick(d) ==
    /\ Running
    /\ now + d <= MaxTime
    /\ now' = now + d
    /\ UNCHANGED <<mtime, mtimecmp, written, mtip, msip, kernel, event,
                   timers, aborted>>

-----------------------------------------------------------------------------
(* The SystemC thread.                                                     *)

\* mtimecmp after one of its halves has been written.
Store(old, half, v) ==
    IF half = "low" THEN (old \div HalfWord) * HalfWord + v
                    ELSE v * HalfWord + (old % HalfWord)

\* pthread_cancel
Cancel(h) == IF h \in running THEN cancelled \cup {h} ELSE cancelled

\* post_write_mtimecmp up to the pthread_join in timer->pause.
WriteMtimecmp(h, half, v) ==
    /\ Running /\ kernel = Idle
    /\ mtimecmp' = [mtimecmp EXCEPT ![h] = Store(@, half, v)]
    /\ written' = written \cup {h}
    /\ update_and_get_mtime
    /\ cancelled' = Cancel(h)
    /\ kernel' = [op |-> "write", hart |-> h]
    /\ UNCHANGED <<now, mtip, msip, event, running, thread, aborted>>

Joined(h) == h \in running => thread[h].at = "ended"

\* The rest of post_write_mtimecmp, with the time taken before the join.
ProgramTimer(h) ==
    /\ Running /\ kernel = [op |-> "write", hart |-> h] /\ Joined(h)
    /\ IF mtime >= mtimecmp[h]
       THEN /\ mtip' = mtip \cup {h}
            /\ running' = running \ {h}
            /\ UNCHANGED thread
       ELSE /\ mtip' = mtip \ {h}
            /\ running' = running \cup {h}
            /\ thread' = [thread EXCEPT ![h] =
                 [at |-> "loop", until |-> 0,
                  count |-> ticks_to_usec(mtimecmp[h] - mtime)]]
    /\ cancelled' = cancelled \ {h}
    /\ kernel' = Idle
    /\ UNCHANGED <<now, mtime, mtimecmp, written, msip, event, aborted>>

\* post_write_msip: the upper bits are tied to zero.
WriteMsip(h, v) ==
    /\ Running /\ kernel = Idle
    /\ msip' = IF v % 2 = 1 THEN msip \cup {h} ELSE msip \ {h}
    /\ UNCHANGED <<now, mtime, mtimecmp, written, mtip, kernel, event, timers,
                   aborted>>

\* pre_read_mtime
ReadMtime ==
    /\ Running /\ kernel = Idle
    /\ update_and_get_mtime
    /\ UNCHANGED <<now, mtimecmp, written, mtip, msip, kernel, event,
                   timers, aborted>>

\* post_write_mtime does nothing: the value stands until the next update.
WriteMtime(half, v) ==
    /\ Running /\ kernel = Idle
    /\ mtime' = Store(mtime, half, v)
    /\ UNCHANGED <<now, mtimecmp, written, mtip, msip, kernel, event,
                   timers, aborted>>

\* Mutant: the event itself is taken for the timeout of every hart.
Unchecked(h) == TRUE

\* mtime >= cmp, after the update of mtime.
Reached(h) == mtime' >= mtimecmp[h]

\* The method interrupt, run by the event.
interrupt ==
    /\ Running /\ kernel = Idle
    /\ event
    /\ event' = FALSE
    /\ update_and_get_mtime
    /\ mtip' = mtip \cup {h \in Harts : Reached(h)}
    /\ UNCHANGED <<now, mtimecmp, written, msip, kernel, timers, aborted>>

\* The timers that ~RealCLINT has to pause.
TimersToDelete == running

\* ~RealCLINT at the end of a simulation: delete each timer, then the members.
Destroy ==
    /\ Running /\ kernel = Idle
    /\ kernel' = [op |-> "delete", left |-> TimersToDelete]
    /\ UNCHANGED <<now, mtime, mtimecmp, written, mtip, msip, event, timers,
                   aborted>>

DeleteTimer(h) ==
    /\ Running /\ kernel.op = "delete" /\ h \in kernel.left
    /\ IF h \in cancelled
       THEN /\ Joined(h)
            /\ kernel' = [kernel EXCEPT !.left = @ \ {h}]
            /\ running' = running \ {h}
            /\ cancelled' = cancelled \ {h}
       ELSE /\ cancelled' = Cancel(h)
            /\ UNCHANGED <<kernel, running>>
    /\ UNCHANGED <<now, mtime, mtimecmp, written, mtip, msip, event, thread,
                   aborted>>

Destroyed ==
    /\ Running /\ kernel.op = "delete" /\ kernel.left = {}
    /\ kernel' = [op |-> "gone"]
    /\ UNCHANGED <<now, mtime, mtimecmp, written, mtip, msip, event, timers,
                   aborted>>

-----------------------------------------------------------------------------
(* The timer thread of a hart: callback in timer.cpp.                      *)

End(h) == thread' = [thread EXCEPT ![h] = Ended]

\* Mutant: a sleep of US_MAX is not subtracted.
Undiminished(count) == IF count > US_MAX THEN count ELSE 0

\* What is left to sleep after the next nanosleep.
Remaining(count) == IF count > US_MAX THEN count - US_MAX ELSE 0

\* The next nanosleep: US_MAX microseconds, or all that remain, which an
\* assertion requires to be more than none.
Sleep(h) ==
    LET c == thread[h].count
        d == IF c > US_MAX THEN US_MAX ELSE c
    IN  /\ ~ aborted /\ thread[h].at = "loop"
        /\ IF c = 0
           THEN aborted' = TRUE /\ UNCHANGED thread
           ELSE /\ IF h \in cancelled
                   THEN End(h)
                   ELSE thread' = [thread EXCEPT ![h] =
                          [at |-> "asleep", count |-> Remaining(c), until |-> now + d]]
                /\ UNCHANGED aborted
        /\ UNCHANGED <<now, mtime, mtimecmp, written, mtip, msip, kernel,
                       event, running, cancelled>>

\* nanosleep returns after at least the time it was given, or is cancelled.
Wake(h) ==
    /\ ~ aborted /\ thread[h].at = "asleep"
    /\ \/ h \in cancelled /\ End(h)
       \/ /\ now >= thread[h].until \/ now = MaxTime
          /\ thread' = [thread EXCEPT
               ![h].at = IF thread[h].count = 0 THEN "callback" ELSE "loop",
               ![h].until = 0]
    /\ UNCHANGED <<now, mtime, mtimecmp, written, mtip, msip, kernel, event,
                   running, cancelled, aborted>>

\* timercb, which is no cancellation point.
timercb(h) ==
    /\ ~ aborted /\ thread[h].at = "callback"
    /\ event' = TRUE
    /\ End(h)
    /\ UNCHANGED <<now, mtime, mtimecmp, written, mtip, msip, kernel,
                   running, cancelled, aborted>>

TimerThread(h) == Sleep(h) \/ Wake(h) \/ timercb(h)

-----------------------------------------------------------------------------
Software ==
    \/ \E h \in Harts, half \in {"low", "high"}, v \in Halves :
          WriteMtimecmp(h, half, v)
    \/ \E h \in Harts, v \in Halves : WriteMsip(h, v)
    \/ ReadMtime
    \/ \E half \in {"low", "high"}, v \in Halves : WriteMtime(half, v)

\* What the SystemC thread goes on with once it has begun it.
KernelStep ==
    \/ \E h \in Harts : ProgramTimer(h) \/ DeleteTimer(h)
    \/ Destroyed
    \/ interrupt

Next ==
    \/ \E d \in TimeSteps : Tick(d)
    \/ Software \/ KernelStep \/ Destroy
    \/ \E h \in Harts : TimerThread(h)

\* The host schedules all threads.
Scheduled == WF_vars(KernelStep) /\ \A h \in Harts : WF_vars(TimerThread(h))

\* Time need not pass.
Spec == Init /\ [][Next]_vars /\ Scheduled

-----------------------------------------------------------------------------
(* Properties.                                                             *)

Ops == {Idle, [op |-> "gone"]} \cup [op : {"write"}, hart : Harts]
         \cup [op : {"delete"}, left : SUBSET Harts]

\* Widths of the registers and states of the threads.
TypeOK ==
    /\ now \in 0..MaxTime /\ mtime \in Values
    /\ mtimecmp \in [Harts -> Values] /\ written \subseteq Harts
    /\ mtip \subseteq Harts /\ msip \subseteq Harts
    /\ kernel \in Ops /\ event \in BOOLEAN
    /\ running \subseteq Harts /\ cancelled \subseteq running
    /\ thread \in [Harts -> [at : {"loop", "asleep", "callback", "ended"},
                             count : Values, until : 0..(MaxTime + US_MAX)]]
    /\ aborted \in BOOLEAN

\* The SystemC thread is between the write of a comparand and the line it sets.
BeingWritten(h) == kernel = [op |-> "write", hart |-> h]

\* No early and no stale interrupt: while the timer interrupt of a hart is
\* pending, the clock has reached the comparand, even if the callback of a
\* cancelled timer arrives after a new comparand was written.
PendingIsDue ==
    \A h \in mtip : usec_to_ticks(now) >= mtimecmp[h] \/ BeingWritten(h)

\* The interrupt of a hart will come without another access: its thread is on
\* the way or the event is requested.
Alarmed(h) ==
    \/ event \/ BeingWritten(h)
    \/ thread[h].at # "ended" /\ h \notin cancelled

\* No timeout is lost: once the clock has reached a comparand, the interrupt is
\* pending or about to be; the conversions to microseconds and back do not let
\* a timer end before the tick it waits for.
NoLostTimeout ==
    ~ aborted /\ kernel.op \notin {"delete", "gone"} =>
        \A h \in written :
            usec_to_ticks(now) >= mtimecmp[h] => h \in mtip \/ Alarmed(h)

\* A timer thread never calls back into an event that ~RealCLINT has destroyed.
NoLateCallback == kernel.op = "gone" => \A h \in Harts : thread[h].at = "ended"

Due(h) == h \in written /\ usec_to_ticks(now) >= mtimecmp[h]

\* A comparand that the clock has reached interrupts the hart, unless the
\* software moves it on or the simulation ends.  All sleeps have ended at
\* MaxTime, the bound of the clock.
TimeoutArrives ==
    \A h \in Harts :
        Due(h) /\ now = MaxTime
          ~> (h \in mtip \/ ~ Due(h) \/ kernel.op \in {"delete", "gone"} \/ aborted)

=============================================================================
