------------------------------- MODULE Clint -------------------------------
(***************************************************************************)
(* The core-local interruptor of symex-vp (core/common/clint.h), driven by *)
(* simulation time, with the harts that program it.                        *)
(*                                                                         *)
(* A hart runs ahead of the kernel's time by up to a quantum before it     *)
(* synchronises, and its accesses reach the registers at once, whatever    *)
(* time they carry: the interruptor sees writes from the future, and       *)
(* harts' accesses out of the order of their times.                        *)
(*                                                                         *)
(* Actions are steps of the SystemC kernel: in an evaluation phase the     *)
(* runnable processes run in any order; when none is left, a delta cycle   *)
(* wakes the processes that were notified without delay, and when there    *)
(* are none either, time advances to the next timed event.                 *)
(***************************************************************************)
EXTENDS Integers, FiniteSetsExt

CONSTANTS
    Harts,
    HalfWord,       \* values of one half of a register, 2^32 in the code
    Halves,         \* the half words that the software writes
    scaler,         \* time units of a tick, 10^6 in the code
    Quantum,        \* how far a hart may run ahead of the kernel
    Access,         \* time of an access to the interruptor
    MaxTime         \* bound on the kernel's time

\* Values of the 64 bit registers and of a time.
Wrap == HalfWord * HalfWord

ASSUME ClintAssumption ==
    /\ HalfWord \in Nat \ {0, 1} /\ Halves \subseteq 0..(HalfWord - 1)
    /\ scaler \in Nat \ {0} /\ Quantum \in Nat \ {0} /\ Access \in Nat \ {0}
    /\ MaxTime \in Nat
    /\ MaxTime + Quantum + Access < Wrap

VARIABLES
    time,           \* sc_time_stamp()
    at,             \* hart -> "runs", in "sync" or in "wfi"
    ahead,          \* hart -> its local time, or what it has yet to wait in sync
    mtime, mtimecmp,
    mtip, msip,     \* harts whose timer, software interrupt is pending
    wfi_event,      \* harts whose wfi_event is notified
    irq_event,      \* {} or the delay after which irq_event is notified
    triggered,      \* irq_event has triggered and run is runnable
    written         \* the register mtime was written

hartVars == <<at, ahead>>
vars == <<time, at, ahead, mtime, mtimecmp, mtip, msip, wfi_event,
          irq_event, triggered, written>>

UINT_MAX == Wrap - 1
Values == 0..UINT_MAX

-----------------------------------------------------------------------------
Init ==
    /\ time = 0
    /\ at = [h \in Harts |-> "runs"] /\ ahead = [h \in Harts |-> 0]
    /\ mtime = 0 /\ mtimecmp = [h \in Harts |-> 0]
    /\ mtip = {} /\ msip = {} /\ wfi_event = {}
    /\ irq_event = {} /\ triggered = FALSE
    /\ written = FALSE

\* Mutant: a later notification replaces an earlier one.
LastNotified(delays) == IF delays = {} THEN {} ELSE {Max(delays)}

\* An event has one pending notification: sc_event::notify keeps the earliest.
Notified(delays) == IF delays = {} THEN {} ELSE {Min(delays)}

update_and_get_mtime ==
    mtime' = IF time \div scaler > mtime THEN time \div scaler ELSE mtime

-----------------------------------------------------------------------------
(* The harts.                                                              *)

\* quantum_keeper.need_sync()
need_sync(t) == t >= Quantum

\* An instruction of hart h that takes time d; the hart synchronises at the
\* latest when its quantum is used up.  While lr_sc_counter is not 0 it does so a
\* few instructions later: Quantum is then meant to include these.
Elapse(h, d) ==
    /\ at[h] = "runs"
    /\ ahead' = [ahead EXCEPT ![h] = @ + d]
    /\ \/ at' = [at EXCEPT ![h] = "sync"]
       \/ ~ need_sync(ahead[h] + d) /\ UNCHANGED at

Instruction(h) ==
    /\ Elapse(h, 1)
    /\ UNCHANGED <<time, mtime, mtimecmp, mtip, msip, wfi_event, irq_event,
                   triggered, written>>

\* A register after one of its halves has been written.
Store(old, half, v) ==
    IF half = "low" THEN (old \div HalfWord) * HalfWord + v
                    ELSE v * HalfWord + (old % HalfWord)

\* "the software is responsible to ensure that no overflow occurs when writing
\* mtimecmp": the comparand is a time, or disables the timer.
NoOverflow(cmp) == cmp * scaler < Wrap \/ cmp = UINT_MAX

\* The transport's delay includes the access itself.
WriteMtimecmp(h, target, half, v) ==
    LET cmp == Store(mtimecmp[target], half, v)
    IN  /\ NoOverflow(cmp)
        /\ Elapse(h, Access)
        /\ mtimecmp' = [mtimecmp EXCEPT ![target] = cmp]
        /\ irq_event' = Notified(irq_event \cup {ahead[h] + Access})
        /\ UNCHANGED <<time, mtime, mtip, msip, wfi_event, triggered, written>>

\* post_write_msip: the upper bits are tied to zero.
WriteMsip(h, target, v) ==
    /\ Elapse(h, Access)
    /\ msip' = IF v % 2 = 1 THEN msip \cup {target} ELSE msip \ {target}
    /\ wfi_event' = wfi_event \cup {target}
    /\ UNCHANGED <<time, mtime, mtimecmp, mtip, irq_event, triggered, written>>

\* pre_read_mtime: the time of the access, not the kernel's.
ReadMtime(h) ==
    /\ Elapse(h, Access)
    /\ mtime' = (time + ahead[h] + Access) \div scaler
    /\ UNCHANGED <<time, mtimecmp, mtip, msip, wfi_event, irq_event, triggered, written>>

\* mtime has no callback for writes.
WriteMtime(h, half, v) ==
    /\ Elapse(h, Access)
    /\ mtime' = Store(mtime, half, v)
    /\ written' = TRUE
    /\ UNCHANGED <<time, mtimecmp, mtip, msip, wfi_event, irq_event, triggered>>

\* A read of the time CSR: the kernel's time.
ReadTimeCsr(h) ==
    /\ Elapse(h, 1)
    /\ update_and_get_mtime
    /\ UNCHANGED <<time, mtimecmp, mtip, msip, wfi_event, irq_event, triggered,
                   written>>

\* WFI with both interrupts enabled.  The local time is kept.
Wfi(h) ==
    /\ at[h] = "runs"
    /\ h \notin mtip \cup msip
    /\ at' = [at EXCEPT ![h] = "wfi"]
    /\ UNCHANGED <<time, ahead, mtime, mtimecmp, mtip, msip, wfi_event,
                   irq_event, triggered, written>>

HartStep(h) ==
    \/ Instruction(h) \/ ReadMtime(h) \/ ReadTimeCsr(h) \/ Wfi(h)
    \/ \E target \in Harts, half \in {"low", "high"}, v \in Halves :
          WriteMtimecmp(h, target, half, v)
    \/ \E target \in Harts, v \in Halves : WriteMsip(h, target, v)
    \/ \E half \in {"low", "high"}, v \in Halves : WriteMtime(h, half, v)

-----------------------------------------------------------------------------
(* The thread run, resumed by irq_event.                                   *)

\* Mutant: an interrupt that is no longer due is not withdrawn.
Latched == mtip \cup {h \in Harts : mtimecmp[h] > 0 /\ mtime' >= mtimecmp[h]}

\* The lines after the loop, with mtime updated.
Lines == {h \in Harts : mtimecmp[h] > 0 /\ mtime' >= mtimecmp[h]}

\* trigger_timer_interrupt notifies wfi_event, whatever the level.
Woken == Harts

\* The delay to the goal of each comparand that is neither reached nor off.
Goals ==
    {((mtimecmp[h] - mtime') * scaler) % Wrap :
        h \in {g \in Harts : mtimecmp[g] > mtime' /\ mtimecmp[g] < UINT_MAX}}

run ==
    /\ triggered
    /\ update_and_get_mtime
    /\ mtip' = Lines
    /\ wfi_event' = wfi_event \cup Woken
    /\ irq_event' = Notified(irq_event \cup Goals)
    /\ triggered' = FALSE
    /\ UNCHANGED <<time, hartVars, mtimecmp, msip, written>>

-----------------------------------------------------------------------------
(* The SystemC kernel.                                                     *)

Evaluated == ~ triggered /\ \A h \in Harts : at[h] # "runs"

\* The delta cycle after an evaluation phase.
Delta ==
    /\ Evaluated
    /\ wfi_event # {} \/ 0 \in irq_event
    /\ at' = [h \in Harts |->
                IF at[h] = "wfi" /\ h \in wfi_event THEN "runs" ELSE at[h]]
    /\ wfi_event' = {}
    /\ triggered' = (0 \in irq_event)
    /\ irq_event' = irq_event \ {0}
    /\ UNCHANGED <<time, ahead, mtime, mtimecmp, mtip, msip, written>>

Synced == {h \in Harts : at[h] = "sync"}
Delays == irq_event \cup {ahead[h] : h \in Synced}

\* Time advances to the next timed event.
Advance ==
    /\ Evaluated /\ wfi_event = {} /\ 0 \notin irq_event
    /\ Delays # {}
    /\ LET d == Min(Delays)
       IN  /\ time + d <= MaxTime
           /\ time' = time + d
           /\ ahead' = [h \in Harts |-> IF h \in Synced THEN ahead[h] - d
                                                       ELSE ahead[h]]
           /\ at' = [h \in Harts |-> IF h \in Synced /\ ahead[h] = d
                                     THEN "runs" ELSE at[h]]
           /\ triggered' = (d \in irq_event)
           /\ irq_event' = {e - d : e \in irq_event \ {d}}
    /\ UNCHANGED <<mtime, mtimecmp, mtip, msip, wfi_event, written>>

-----------------------------------------------------------------------------
Next == (\E h \in Harts : HartStep(h)) \/ run \/ Delta \/ Advance

Spec == Init /\ [][Next]_vars

-----------------------------------------------------------------------------
(* Properties.                                                             *)

\* Widths of the registers, and no hart ahead by more than a quantum and the
\* instruction that uses it up.
TypeOK ==
    /\ time \in 0..MaxTime
    /\ at \in [Harts -> {"runs", "sync", "wfi"}]
    /\ ahead \in [Harts -> 0..(Quantum + Access)]
    /\ mtime \in Values /\ mtimecmp \in [Harts -> Values]
    /\ mtip \subseteq Harts /\ msip \subseteq Harts /\ wfi_event \subseteq Harts
    /\ (irq_event = {} \/ \E e \in Values : irq_event = {e})
    /\ triggered \in BOOLEAN
    /\ written \in BOOLEAN

Larger(a, b) == IF a > b THEN a ELSE b

\* The latest time that any hart has reached.
Front == Max({time} \cup {time + ahead[h] : h \in Harts})

\* irq_event comes no later than at time t.
EventBy(t) == triggered \/ \E e \in irq_event : time + e <= t

\* No timeout is lost or late: while the timer interrupt of a hart is not
\* pending and its comparand is set, irq_event comes within the tick of the
\* comparand, or as soon as the harts have got to the time of the write.
Punctual ==
    \A h \in Harts :
        h \notin mtip /\ mtimecmp[h] \in 1..(UINT_MAX - 1) =>
            EventBy(Larger((mtimecmp[h] + 1) * scaler, Front))

\* No early interrupt, and a stale one is withdrawn: while the timer interrupt
\* of a hart is pending, some hart has reached the comparand, or irq_event comes
\* by the time of the write that changed it.  Software that writes mtime sets
\* the interruptor's clock as it likes.
PendingIsDue ==
    ~written =>
        \A h \in mtip :
            \/ mtimecmp[h] > 0 /\ mtimecmp[h] * scaler <= Front
            \/ EventBy(Front)

=============================================================================
