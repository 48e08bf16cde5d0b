-------------------------- MODULE RealClintProofs --------------------------
(***************************************************************************)
(* Theorems about RealClint for any number of harts, any width of the      *)
(* registers, any length of a tick and of a single sleep.                  *)
(***************************************************************************)
EXTENDS RealClint, TLAPS

-----------------------------------------------------------------------------
(* Arithmetic.                                                             *)

\* Division with remainder.
LEMMA Division ==
    ASSUME NEW a \in Nat, NEW d \in Nat \ {0}
    PROVE  /\ a \div d \in Nat /\ a % d \in 0..(d - 1)
           /\ a = (a \div d) * d + (a % d)
OBVIOUS

\* Multiplication is monotonic.
LEMMA Monotonic ==
    ASSUME NEW a \in Nat, NEW b \in Nat, NEW d \in Nat, a <= b
    PROVE  a * d <= b * d /\ a * d \in Nat
OBVIOUS

\* Multiplication distributes over differences.
LEMMA Distributes ==
    ASSUME NEW a \in Nat, NEW b \in Nat, NEW d \in Nat, a <= b
    PROVE  (b - a) * d = b * d - a * d
OBVIOUS

\* The clock has reached a tick exactly if its microseconds have passed.
LEMMA TickReached ==
    ASSUME NEW u \in Nat, NEW c \in Nat
    PROVE  usec_to_ticks(u) >= c <=> u >= c * DIVIDEND
<1> DEFINE q == usec_to_ticks(u)
<1>1. DIVIDEND \in Nat \ {0}
  BY RealClintAssumption
<1>2. q \in Nat /\ u % DIVIDEND \in 0..(DIVIDEND - 1)
        /\ u = q * DIVIDEND + (u % DIVIDEND)
  BY <1>1, Division DEF usec_to_ticks
<1> HIDE DEF q
<1>3. q * DIVIDEND \in Nat /\ c * DIVIDEND \in Nat
  BY <1>1, <1>2, Monotonic
<1>4. CASE q >= c
  <2>1. c * DIVIDEND <= q * DIVIDEND
    BY <1>1, <1>2, <1>4, Monotonic
  <2> QED BY <1>1, <1>2, <1>3, <1>4, <2>1 DEF q
<1>5. CASE q < c
  <2>1. (q + 1) * DIVIDEND <= c * DIVIDEND
    BY <1>1, <1>2, <1>5, Monotonic
  <2>2. (q + 1) * DIVIDEND = q * DIVIDEND + DIVIDEND
    BY <1>1, <1>2
  <2>3. u < c * DIVIDEND
    BY <1>1, <1>2, <1>3, <2>1, <2>2
  <2> QED BY <1>2, <1>3, <1>5, <2>3 DEF q
<1> QED BY <1>2, <1>4, <1>5

\* The time in ticks fits the register.
LEMMA TicksFit ==
    ASSUME NEW u \in 0..MaxTime
    PROVE  usec_to_ticks(u) \in Values
<1>1. DIVIDEND \in Nat \ {0} /\ MaxTime \in Nat /\ MaxTime < Wrap /\ Wrap \in Nat
  BY RealClintAssumption DEF Wrap
<1>2. usec_to_ticks(u) \in Nat
  BY <1>1, Division DEF usec_to_ticks
<1>3. u >= usec_to_ticks(u) * DIVIDEND
  BY <1>1, <1>2, TickReached
<1>4. usec_to_ticks(u) * 1 <= usec_to_ticks(u) * DIVIDEND
  BY <1>1, <1>2
<1> QED BY <1>1, <1>2, <1>3, <1>4 DEF Values

\* A half word written into a register leaves a value of the register.
LEMMA StoreFits ==
    ASSUME NEW old \in Values, NEW half, NEW v \in Halves
    PROVE  Store(old, half, v) \in Values
<1> DEFINE q == old \div HalfWord
           r == old % HalfWord
<1>1. HalfWord \in Nat \ {0} /\ v \in 0..(HalfWord - 1)
  BY RealClintAssumption
<1>2. old \in Nat /\ old < HalfWord * HalfWord
  BY <1>1 DEF Values, Wrap
<1>3. q \in Nat /\ r \in 0..(HalfWord - 1) /\ old = q * HalfWord + r
  BY <1>1, <1>2, Division
<1> HIDE DEF q, r
<1>4. \A a \in 0..(HalfWord - 1), b \in 0..(HalfWord - 1) :
        a * HalfWord + b \in 0..(HalfWord * HalfWord - 1)
  <2> TAKE a \in 0..(HalfWord - 1), b \in 0..(HalfWord - 1)
  <2>1. (a + 1) * HalfWord <= HalfWord * HalfWord /\ a * HalfWord \in Nat
    BY <1>1, Monotonic
  <2>2. (a + 1) * HalfWord = a * HalfWord + HalfWord
    BY <1>1
  <2> QED BY <1>1, <2>1, <2>2
<1>5. q < HalfWord
  <2> SUFFICES ASSUME HalfWord <= q PROVE FALSE
    BY <1>1, <1>3
  <2>1. HalfWord * HalfWord <= q * HalfWord
    BY <1>1, <1>3, Monotonic
  <2> QED BY <1>1, <1>2, <1>3, <2>1
<1>6. q \in 0..(HalfWord - 1)
  BY <1>1, <1>3, <1>5
<1>7. q * HalfWord + v \in Values /\ v * HalfWord + r \in Values
  BY <1>1, <1>3, <1>4, <1>6 DEF Values, Wrap
<1> QED BY <1>7 DEF Store, q, r

\* The microseconds of a timer fit their counter.
LEMMA UsecsFit ==
    ASSUME NEW t \in Nat
    PROVE  ticks_to_usec(t) \in Values
<1>1. DIVIDEND \in Nat /\ Wrap \in Nat \ {0} /\ t * DIVIDEND \in Nat
  BY RealClintAssumption DEF Wrap
<1> QED BY <1>1, Division DEF ticks_to_usec, Values

-----------------------------------------------------------------------------
(* Types.                                                                  *)

LEMMA TypeInit == Init => TypeOK
<1> SUFFICES ASSUME Init PROVE TypeOK
  OBVIOUS
<1>1. 0 \in Values /\ 0 \in 0..MaxTime /\ 0 \in 0..(MaxTime + US_MAX)
  BY RealClintAssumption DEF Values, Wrap
<1> QED BY <1>1 DEF Init, TypeOK, Ended, Ops

LEMMA TypeStep ==
    ASSUME TypeOK, [Next]_vars
    PROVE  TypeOK'
<1> USE DEF timers
<1>0. /\ now \in Nat /\ MaxTime \in Nat /\ US_MAX \in Nat \ {0} /\ TimeSteps \subseteq Nat
      /\ Wrap \in Nat \ {0} /\ 0 \in Values /\ Values \subseteq Nat
      /\ usec_to_ticks(now) \in Values
  BY RealClintAssumption, TicksFit DEF TypeOK, Values, Wrap
<1>1. ASSUME NEW d \in TimeSteps, Tick(d) PROVE TypeOK'
  BY <1>0, <1>1 DEF Tick, TypeOK
<1>2. ASSUME NEW h \in Harts, NEW half \in {"low", "high"}, NEW v \in Halves,
             WriteMtimecmp(h, half, v)
      PROVE  TypeOK'
  <2>1. Store(mtimecmp[h], half, v) \in Values
    BY StoreFits DEF TypeOK
  <2>2. mtimecmp' \in [Harts -> Values] /\ mtime' \in Values
    BY <1>0, <1>2, <2>1 DEF WriteMtimecmp, TypeOK, update_and_get_mtime
  <2>3. kernel' \in Ops
    BY <1>2 DEF WriteMtimecmp, Ops
  <2> QED BY <1>2, <2>2, <2>3 DEF WriteMtimecmp, TypeOK, Cancel
<1>3. ASSUME NEW h \in Harts, ProgramTimer(h) PROVE TypeOK'
  <2>0. mtime \in Nat /\ mtimecmp[h] \in Nat
    BY <1>0 DEF TypeOK
  <2>a. mtime < mtimecmp[h] => mtimecmp[h] - mtime \in Nat
    BY <2>0
  <2>1. mtime < mtimecmp[h] => ticks_to_usec(mtimecmp[h] - mtime) \in Values
    BY <2>a, UsecsFit
  <2>2. kernel' \in Ops
    BY <1>3 DEF ProgramTimer, Ops
  <2>3. thread' \in [Harts -> [at : {"loop", "asleep", "callback", "ended"},
                               count : Values, until : 0..(MaxTime + US_MAX)]]
    <3>1. CASE mtime >= mtimecmp[h]
      BY <1>3, <3>1 DEF ProgramTimer, TypeOK
    <3>2. CASE mtime < mtimecmp[h]
      <4>1. thread' = [thread EXCEPT ![h] =
              [at |-> "loop", until |-> 0,
               count |-> ticks_to_usec(mtimecmp[h] - mtime)]]
        BY <1>3, <2>0, <3>2 DEF ProgramTimer
      <4>2. 0 \in 0..(MaxTime + US_MAX)
        BY <1>0
      <4> QED BY <2>1, <3>2, <4>1, <4>2 DEF TypeOK
    <3> QED BY <2>0, <3>1, <3>2
  <2> QED BY <1>3, <2>2, <2>3 DEF ProgramTimer, TypeOK
<1>4. ASSUME NEW h \in Harts, NEW v \in Halves, WriteMsip(h, v) PROVE TypeOK'
  BY <1>4 DEF WriteMsip, TypeOK
<1>5. CASE ReadMtime
  BY <1>0, <1>5 DEF ReadMtime, TypeOK, update_and_get_mtime
<1>6. ASSUME NEW half \in {"low", "high"}, NEW v \in Halves, WriteMtime(half, v)
      PROVE  TypeOK'
  BY <1>6, StoreFits DEF WriteMtime, TypeOK
<1>7. CASE interrupt
  BY <1>0, <1>7 DEF interrupt, TypeOK, update_and_get_mtime
<1>8. CASE Destroy
  BY <1>8 DEF Destroy, TypeOK, Ops, TimersToDelete
<1>9. ASSUME NEW h \in Harts, DeleteTimer(h) PROVE TypeOK'
  <2>1. kernel \in [op : {"delete"}, left : SUBSET Harts]
    BY <1>9 DEF DeleteTimer, TypeOK, Ops, Idle
  <2>2. kernel' \in Ops
    BY <1>9, <2>1 DEF DeleteTimer, Ops
  <2> QED BY <1>9, <2>2 DEF DeleteTimer, TypeOK, Cancel
<1>10. CASE Destroyed
  BY <1>10 DEF Destroyed, TypeOK, Ops
<1>11. ASSUME NEW h \in Harts, Sleep(h) PROVE TypeOK'
  <2>1. thread' \in [Harts -> [at : {"loop", "asleep", "callback", "ended"},
                               count : Values, until : 0..(MaxTime + US_MAX)]]
    BY <1>0, <1>11 DEF Sleep, Remaining, End, Ended, TypeOK, Values
  <2> QED BY <1>11, <2>1 DEF Sleep, TypeOK
<1>12. ASSUME NEW h \in Harts, Wake(h) PROVE TypeOK'
  <2>1. thread' \in [Harts -> [at : {"loop", "asleep", "callback", "ended"},
                               count : Values, until : 0..(MaxTime + US_MAX)]]
    BY <1>0, <1>12 DEF Wake, End, Ended, TypeOK
  <2> QED BY <1>12, <2>1 DEF Wake, TypeOK
<1>13. ASSUME NEW h \in Harts, timercb(h) PROVE TypeOK'
  BY <1>0, <1>13 DEF timercb, End, Ended, TypeOK
<1>14. CASE UNCHANGED vars
  BY <1>14 DEF vars, TypeOK
<1> QED BY <1>1, <1>2, <1>3, <1>4, <1>5, <1>6, <1>7, <1>8, <1>9, <1>10, <1>11,
          <1>12, <1>13, <1>14 DEF Next, Software, KernelStep, TimerThread

\* Registers, counters and threads keep their types, the software writing
\* mtimecmp and mtime half by half.
THEOREM ClintTypeCorrect == Spec => []TypeOK
BY TypeInit, TypeStep, PTL DEF Spec

-----------------------------------------------------------------------------
(* The inductive invariant.  All of it is in microseconds.                 *)

\* The microsecond at which the comparand of a hart is reached.
Goal(h) == mtimecmp[h] * DIVIDEND

\* It lies beyond the clock, or the clock is at its bound: nothing is promised.
Beyond(h) == Goal(h) >= Wrap \/ now = MaxTime

\* A thread that has not ended is one that its Timer will join.
Owned == \A h \in Harts : thread[h].at # "ended" => h \in running

\* The destructor has what it still has to join on its list.
Listed == /\ kernel.op = "delete" => running \subseteq kernel.left
          /\ kernel.op = "gone" => running = {}

\* Only a pause that has not returned leaves a cancelled thread.
Pausing == \A h \in cancelled : BeingWritten(h) \/ kernel.op \in {"delete", "gone"}

\* The time that post_write_mtimecmp goes on with is not ahead of the clock.
Sampled == kernel.op = "write" => mtime * DIVIDEND <= now

\* PendingIsDue, in microseconds.
Raised == \A h \in mtip : BeingWritten(h) \/ now >= Goal(h)

\* What a thread has still to sleep takes it to its goal.
OnTime(h) ==
    CASE thread[h].at = "loop"   -> now + thread[h].count >= Goal(h)
      [] thread[h].at = "asleep" -> thread[h].until + thread[h].count >= Goal(h)
      [] OTHER                   -> now >= Goal(h)

\* A comparand that was written has a thread that is on time, until the event
\* of that thread has been handled.
Timed ==
    \A h \in written :
        \/ h \in mtip \/ BeingWritten(h) \/ kernel.op \in {"delete", "gone"}
        \/ /\ OnTime(h) \/ Beyond(h)
           /\ thread[h].at = "ended" /\ ~ event => now < Goal(h)

IInv ==
    /\ TypeOK /\ Owned /\ Listed /\ Pausing /\ Sampled /\ Raised /\ Timed

LEMMA GoalType ==
    ASSUME TypeOK, NEW h \in Harts
    PROVE  Goal(h) \in Nat
BY RealClintAssumption DEF TypeOK, Goal, Values, Wrap

LEMMA InvInit == Init => IInv
<1> SUFFICES ASSUME Init PROVE IInv
  OBVIOUS
<1>1. TypeOK
  BY TypeInit
<1> QED BY <1>1 DEF Init, IInv, Owned, Listed, Pausing, Sampled, Raised, Timed,
               Ended, Idle

\* The microseconds of the timer that post_write_mtimecmp starts.
LEMMA Programmed ==
    ASSUME TypeOK, Sampled, kernel.op = "write", NEW h \in Harts,
           mtime < mtimecmp[h]
    PROVE  \/ now + ticks_to_usec(mtimecmp[h] - mtime) >= Goal(h)
           \/ Goal(h) >= Wrap
<1> DEFINE left == (mtimecmp[h] - mtime) * DIVIDEND
<1>1. /\ DIVIDEND \in Nat /\ Wrap \in Nat \ {0} /\ now \in Nat
      /\ mtime \in Nat /\ mtimecmp[h] \in Nat
  BY RealClintAssumption DEF TypeOK, Values, Wrap
<1>2. mtime * DIVIDEND \in Nat /\ Goal(h) \in Nat
  BY <1>1, Monotonic DEF Goal
<1>3. left = Goal(h) - mtime * DIVIDEND /\ left \in Nat
  <2>1. mtime * DIVIDEND <= Goal(h)
    BY <1>1, Monotonic DEF Goal
  <2>2. left = Goal(h) - mtime * DIVIDEND
    BY <1>1, Distributes DEF Goal
  <2> QED BY <1>2, <2>1, <2>2
<1>4. ticks_to_usec(mtimecmp[h] - mtime) = left % Wrap
  BY DEF ticks_to_usec
<1> HIDE DEF left
<1>5. CASE left < Wrap
  <2>1. left % Wrap = left
    BY <1>1, <1>3, <1>5
  <2> QED BY <1>1, <1>2, <1>3, <1>4, <2>1 DEF Sampled
<1>6. CASE left >= Wrap
  BY <1>1, <1>2, <1>3, <1>6
<1> QED BY <1>1, <1>3, <1>5, <1>6

\* A step that keeps the clock, the comparands and the kernel's place keeps
\* what those alone decide.
LEMMA SameGoal ==
    ASSUME mtimecmp' = mtimecmp, NEW h
    PROVE  Goal(h)' = Goal(h)
BY DEF Goal

LEMMA TickInv ==
    ASSUME IInv, NEW d \in TimeSteps, Tick(d)
    PROVE  (Owned /\ Listed /\ Pausing /\ Sampled /\ Raised /\ Timed)'
<1> USE DEF IInv, timers
<1>1. /\ now \in Nat /\ now' \in Nat /\ now <= now' /\ now' <= MaxTime
      /\ MaxTime \in Nat /\ Wrap \in Nat /\ MaxTime < Wrap
  BY RealClintAssumption DEF Tick, TypeOK, Wrap
<1>2. (Owned /\ Listed /\ Pausing)'
  BY DEF Tick, Owned, Listed, Pausing, BeingWritten
<1>3. Sampled'
  <2>1. mtime * DIVIDEND \in Nat
    BY RealClintAssumption DEF TypeOK, Values, Wrap
  <2> QED BY <1>1, <2>1 DEF Tick, Sampled
<1>4. ASSUME NEW h \in Harts PROVE Goal(h) \in Nat /\ Goal(h)' = Goal(h)
  BY GoalType, SameGoal DEF Tick
<1>5. Raised'
  BY <1>1, <1>4 DEF Tick, Raised, BeingWritten, TypeOK
<1>6. Timed'
  <2> SUFFICES ASSUME NEW h \in written', ~(h \in mtip \/ BeingWritten(h) \/ kernel.op \in {"delete", "gone"})
               PROVE  /\ (OnTime(h) \/ Beyond(h))'
                      /\ (thread[h].at = "ended" /\ ~ event => now < Goal(h))'
    BY DEF Timed, Tick, BeingWritten
  <2>1. /\ h \in Harts
        /\ thread[h].count \in Nat /\ thread[h].until \in Nat
    BY RealClintAssumption DEF Tick, TypeOK, Values, Wrap
  <2>2. /\ OnTime(h) \/ Beyond(h)
        /\ thread[h].at = "ended" /\ ~ event => now < Goal(h)
    BY DEF Timed, Tick
  <2>3. (OnTime(h) \/ Beyond(h))'
    BY <1>1, <1>4, <2>1, <2>2 DEF OnTime, Beyond, Tick
  <2>4. (thread[h].at = "ended" /\ ~ event => now < Goal(h))'
    BY <1>1, <1>4, <2>1, <2>2 DEF OnTime, Beyond, Tick
  <2> QED BY <2>3, <2>4
<1> QED BY <1>2, <1>3, <1>5, <1>6

LEMMA WriteInv ==
    ASSUME IInv, NEW h \in Harts, NEW half, NEW v \in Halves,
           WriteMtimecmp(h, half, v)
    PROVE  (Owned /\ Listed /\ Pausing /\ Sampled /\ Raised /\ Timed)'
<1> USE DEF IInv, WriteMtimecmp
<1>1. (Owned /\ Listed)'
  BY DEF Owned, Listed
<1>2. Pausing'
  BY DEF Pausing, BeingWritten, Cancel, Idle
<1>3. Sampled'
  <2>1. now \in Nat /\ usec_to_ticks(now) \in Nat
    BY TicksFit, RealClintAssumption DEF TypeOK, Values, Wrap
  <2>2. now >= usec_to_ticks(now) * DIVIDEND
    BY <2>1, TickReached
  <2>3. usec_to_ticks(now) * DIVIDEND \in Nat
    BY <2>1, RealClintAssumption, Monotonic
  <2> QED BY <2>1, <2>2, <2>3 DEF Sampled, update_and_get_mtime
<1>4. ASSUME NEW g \in Harts, g # h
      PROVE  Goal(g)' = Goal(g) /\ ~BeingWritten(g)
  BY <1>4 DEF Goal, TypeOK, BeingWritten, Idle
<1>5. BeingWritten(h)'
  BY DEF BeingWritten
<1>6. Raised'
  BY <1>4, <1>5 DEF Raised, TypeOK
<1>7. Timed'
  BY <1>4, <1>5 DEF Timed, TypeOK, OnTime, Beyond, Idle
<1> QED BY <1>1, <1>2, <1>3, <1>6, <1>7

LEMMA ProgramInv ==
    ASSUME IInv, NEW h \in Harts, ProgramTimer(h)
    PROVE  (Owned /\ Listed /\ Pausing /\ Sampled /\ Raised /\ Timed)'
<1> USE DEF IInv
<1>0. kernel.op = "write" /\ kernel'.op = "idle" /\ BeingWritten(h)
  BY DEF ProgramTimer, Idle, BeingWritten
<1>1. thread[h].at = "ended"
  BY DEF ProgramTimer, Joined, Owned
<1>2. Owned'
  BY <1>1 DEF ProgramTimer, Owned, TypeOK
<1>3. (Listed /\ Sampled)'
  BY <1>0 DEF Listed, Sampled
<1>4. ASSUME NEW g \in Harts, g # h
      PROVE  ~BeingWritten(g)
  BY <1>0, <1>4 DEF BeingWritten
<1>5. Pausing'
  BY <1>0, <1>4 DEF ProgramTimer, Pausing, TypeOK
<1>6. ASSUME NEW g \in Harts PROVE Goal(g) \in Nat /\ Goal(g)' = Goal(g)
  BY GoalType, SameGoal DEF ProgramTimer
<1>7. now' = now /\ now \in Nat /\ mtime \in Nat /\ mtimecmp[h] \in Nat
  BY RealClintAssumption DEF ProgramTimer, TypeOK, Values, Wrap
<1>8. CASE mtime >= mtimecmp[h]
  <2>1. Goal(h) <= mtime * DIVIDEND
    BY <1>7, <1>8, RealClintAssumption, Monotonic DEF Goal
  <2>2. mtime * DIVIDEND \in Nat
    BY <1>7, RealClintAssumption, Monotonic
  <2>3. now >= Goal(h)
    BY <1>0, <1>6, <1>7, <2>1, <2>2 DEF Sampled
  <2>4. mtip' = mtip \cup {h} /\ thread' = thread /\ written' = written /\ event' = event
    BY <1>8 DEF ProgramTimer
  <2>5. Raised'
    BY <1>4, <1>6, <1>7, <2>3, <2>4 DEF Raised, TypeOK
  <2>6. Timed'
    BY <1>0, <1>4, <1>6, <1>7, <2>4 DEF Timed, TypeOK, OnTime, Beyond
  <2> QED BY <1>2, <1>3, <1>5, <2>5, <2>6
<1>9. CASE mtime < mtimecmp[h]
  <2>1. /\ mtip' = mtip \ {h} /\ written' = written /\ event' = event
        /\ thread' = [thread EXCEPT ![h] =
              [at |-> "loop", until |-> 0,
               count |-> ticks_to_usec(mtimecmp[h] - mtime)]]
    BY <1>7, <1>9 DEF ProgramTimer
  <2>2. now + ticks_to_usec(mtimecmp[h] - mtime) >= Goal(h) \/ Goal(h) >= Wrap
    BY <1>0, <1>9, Programmed
  <2>3. Raised'
    BY <1>4, <1>6, <1>7, <2>1 DEF Raised, TypeOK
  <2>4. ASSUME NEW g \in Harts, g # h PROVE thread'[g] = thread[g]
    BY <2>1, <2>4 DEF TypeOK
  <2>5. thread'[h] = [at |-> "loop", until |-> 0,
                      count |-> ticks_to_usec(mtimecmp[h] - mtime)]
    BY <2>1 DEF TypeOK
  <2>6. (OnTime(h) \/ Beyond(h))' /\ thread'[h].at # "ended"
    BY <1>6, <1>7, <2>2, <2>5 DEF OnTime, Beyond
  <2>7. ASSUME NEW g \in written', g # h, ~(g \in mtip' \/ BeingWritten(g)' \/ kernel'.op \in {"delete", "gone"})
        PROVE  /\ (OnTime(g) \/ Beyond(g))'
               /\ (thread[g].at = "ended" /\ ~ event => now < Goal(g))'
    <3>1. g \in Harts /\ g \in written /\ g \notin mtip /\ ~BeingWritten(g)
      BY <1>4, <2>1, <2>7 DEF TypeOK
    <3>2. /\ OnTime(g) \/ Beyond(g)
          /\ thread[g].at = "ended" /\ ~ event => now < Goal(g)
      BY <1>0, <3>1 DEF Timed
    <3> QED BY <1>6, <1>7, <2>1, <2>4, <2>7, <3>1, <3>2 DEF OnTime, Beyond
  <2>8. Timed'
    BY <2>6, <2>7 DEF Timed
  <2> QED BY <1>2, <1>3, <1>5, <2>3, <2>8
<1> QED BY <1>7, <1>8, <1>9

\* Accesses that program no timer.
LEMMA QuietInv ==
    ASSUME IInv, UNCHANGED <<now, mtimecmp, written, mtip, kernel, event, timers>>,
           mtime' = mtime \/ kernel = Idle
    PROVE  (Owned /\ Listed /\ Pausing /\ Sampled /\ Raised /\ Timed)'
<1> USE DEF IInv, timers
<1>1. (Owned /\ Listed /\ Pausing)'
  BY DEF Owned, Listed, Pausing, BeingWritten
<1>2. Sampled'
  BY DEF Sampled, Idle
<1>3. ASSUME NEW h \in Harts PROVE Goal(h)' = Goal(h)
  BY SameGoal
<1>4. Raised'
  BY <1>3 DEF Raised, BeingWritten, TypeOK
<1>5. Timed'
  BY <1>3 DEF Timed, BeingWritten, OnTime, Beyond, TypeOK
<1> QED BY <1>1, <1>2, <1>4, <1>5

LEMMA InterruptInv ==
    ASSUME IInv, interrupt
    PROVE  (Owned /\ Listed /\ Pausing /\ Sampled /\ Raised /\ Timed)'
<1> USE DEF IInv, timers
<1>1. (Owned /\ Listed /\ Pausing /\ Sampled)'
  BY DEF interrupt, Owned, Listed, Pausing, BeingWritten, Sampled, Idle
<1>2. ASSUME NEW h \in Harts
      PROVE  /\ Goal(h) \in Nat /\ Goal(h)' = Goal(h) /\ now' = now /\ now \in Nat
             /\ h \in mtip' <=> h \in mtip \/ now >= Goal(h)
  <2>1. mtimecmp[h] \in Nat /\ now \in Nat
    BY RealClintAssumption DEF TypeOK, Values, Wrap
  <2>2. h \in mtip' <=> h \in mtip \/ usec_to_ticks(now) >= mtimecmp[h]
    BY DEF interrupt, Reached, update_and_get_mtime
  <2>3. usec_to_ticks(now) >= mtimecmp[h] <=> now >= Goal(h)
    BY <2>1, TickReached DEF Goal
  <2> QED BY <2>1, <2>2, <2>3, GoalType, SameGoal DEF interrupt
<1>3. Raised'
  BY <1>2 DEF interrupt, Raised, BeingWritten, TypeOK
<1>4. Timed'
  BY <1>2 DEF interrupt, Timed, BeingWritten, OnTime, Beyond, TypeOK
<1> QED BY <1>1, <1>3, <1>4

LEMMA DestroyInv ==
    ASSUME IInv, Destroy \/ Destroyed \/ \E h \in Harts : DeleteTimer(h)
    PROVE  (Owned /\ Listed /\ Pausing /\ Sampled /\ Raised /\ Timed)'
<1> USE DEF IInv, timers
<1>1. kernel'.op \in {"delete", "gone"}
  <2>1. ASSUME NEW h \in Harts, DeleteTimer(h)
        PROVE  kernel'.op = "delete"
    <3>1. kernel \in [op : {"delete"}, left : SUBSET Harts]
      BY <2>1 DEF DeleteTimer, TypeOK, Ops, Idle
    <3> QED BY <2>1, <3>1 DEF DeleteTimer
  <2> QED BY <2>1 DEF Destroy, Destroyed
<1>2. (Pausing /\ Sampled /\ Timed)'
  BY <1>1 DEF Pausing, Sampled, Timed
<1>3. Owned'
  BY DEF Destroy, Destroyed, DeleteTimer, Owned, Joined
<1>4. Listed'
  <2>1. CASE Destroy
    BY <2>1 DEF Destroy, Listed, TimersToDelete
  <2>2. CASE Destroyed
    BY <2>2 DEF Destroyed, Listed
  <2>3. ASSUME NEW h \in Harts, DeleteTimer(h) PROVE Listed'
    <3>1. kernel \in [op : {"delete"}, left : SUBSET Harts]
      BY <2>3 DEF DeleteTimer, TypeOK, Ops, Idle
    <3> QED BY <2>3, <3>1 DEF DeleteTimer, Listed
  <2> QED BY <2>1, <2>2, <2>3
<1>5. Raised'
  <2>1. ASSUME NEW h \in Harts PROVE Goal(h)' = Goal(h)
    BY SameGoal DEF Destroy, Destroyed, DeleteTimer
  <2>2. now' = now /\ mtip' = mtip /\ kernel.op # "write"
    BY DEF Destroy, Destroyed, DeleteTimer, Idle
  <2> QED BY <2>1, <2>2 DEF Raised, BeingWritten, TypeOK
<1> QED BY <1>2, <1>3, <1>4, <1>5

\* A step of a timer thread touches nothing but that thread and the event.
LEMMA ThreadStep ==
    ASSUME NEW h \in Harts, TimerThread(h)
    PROVE  UNCHANGED <<now, mtime, mtimecmp, written, mtip, msip, kernel, running, cancelled>>
BY DEF TimerThread, Sleep, Wake, timercb

LEMMA ThreadInv ==
    ASSUME IInv, NEW h \in Harts, TimerThread(h)
    PROVE  (Owned /\ Listed /\ Pausing /\ Sampled /\ Raised /\ Timed)'
<1> USE DEF IInv
<1>0. UNCHANGED <<now, mtime, mtimecmp, written, mtip, kernel, running, cancelled>>
  BY ThreadStep
<1>1. (Listed /\ Pausing /\ Sampled)'
  BY <1>0 DEF Listed, Pausing, Sampled, BeingWritten
<1>2. thread[h].at # "ended"
  BY DEF TimerThread, Sleep, Wake, timercb
<1>3. ASSUME NEW g \in Harts, g # h PROVE thread'[g] = thread[g]
  BY <1>3 DEF TimerThread, Sleep, Wake, timercb, End, TypeOK
<1>4. Owned'
  BY <1>0, <1>2, <1>3 DEF Owned
<1>5. ASSUME NEW g \in Harts PROVE Goal(g) \in Nat /\ Goal(g)' = Goal(g)
  BY <1>0, GoalType, SameGoal
<1>6. Raised'
  BY <1>0, <1>5 DEF Raised, BeingWritten, TypeOK
<1>7. event => event'
  BY DEF TimerThread, Sleep, Wake, timercb
<1>8. Timed'
  <2> SUFFICES ASSUME NEW g \in written, g \notin mtip, ~BeingWritten(g),
                      kernel.op \notin {"delete", "gone"}
               PROVE  /\ (OnTime(g) \/ Beyond(g))'
                      /\ (thread[g].at = "ended" /\ ~ event => now < Goal(g))'
    BY <1>0 DEF Timed, BeingWritten
  <2>1. /\ OnTime(g) \/ Beyond(g)
        /\ thread[g].at = "ended" /\ ~ event => now < Goal(g)
    BY DEF Timed
  <2>2. g \in Harts /\ now \in Nat
    BY RealClintAssumption DEF TypeOK
  <2>3. CASE g # h
    BY <1>0, <1>3, <1>5, <1>7, <2>1, <2>2, <2>3 DEF OnTime, Beyond
  <2>4. CASE g = h
    <3>0. h \notin cancelled
      BY <2>4 DEF Pausing
    <3>1. /\ thread[h].count \in Nat /\ thread[h].until \in Nat
          /\ US_MAX \in Nat \ {0} /\ Goal(h) \in Nat /\ Goal(h)' = Goal(h)
      BY <1>5, RealClintAssumption DEF TypeOK, Values, Wrap
    <3>2. CASE Sleep(h)
      <4>1. CASE thread' = thread
        BY <1>0, <1>2, <1>5, <2>1, <2>4, <4>1 DEF OnTime, Beyond
      <4>2. CASE thread' # thread
        <5>1. PICK d \in Nat : thread'[h] = [at |-> "asleep", until |-> now + d,
                                             count |-> thread[h].count - d]
          BY <3>0, <3>1, <3>2, <4>2 DEF Sleep, Remaining, TypeOK
        <5>2. thread[h].at = "loop"
          BY <3>2 DEF Sleep
        <5> QED BY <1>0, <2>1, <2>2, <2>4, <3>1, <5>1, <5>2 DEF OnTime, Beyond
      <4> QED BY <4>1, <4>2
    <3>3. CASE Wake(h)
      <4>1. /\ thread[h].at = "asleep"
            /\ now >= thread[h].until \/ now = MaxTime
            /\ thread'[h].count = thread[h].count
            /\ thread'[h].at = IF thread[h].count = 0 THEN "callback" ELSE "loop"
        BY <3>0, <3>3 DEF Wake, TypeOK
      <4> QED BY <1>0, <2>1, <2>2, <2>4, <3>1, <4>1 DEF OnTime, Beyond
    <3>4. CASE timercb(h)
      <4>1. thread[h].at = "callback" /\ thread'[h].at = "ended" /\ event'
        BY <3>4 DEF timercb, End, Ended, TypeOK
      <4> QED BY <1>0, <2>1, <2>2, <2>4, <3>1, <4>1 DEF OnTime, Beyond
    <3> QED BY <3>2, <3>3, <3>4 DEF TimerThread
  <2> QED BY <2>3, <2>4
<1> QED BY <1>1, <1>4, <1>6, <1>8

LEMMA InvStep ==
    ASSUME IInv, [Next]_vars
    PROVE  IInv'
<1>1. TypeOK'
  BY TypeStep DEF IInv
<1>2. (Owned /\ Listed /\ Pausing /\ Sampled /\ Raised /\ Timed)'
  <2>1. CASE \E d \in TimeSteps : Tick(d)
    BY <2>1, TickInv
  <2>2. CASE Software
    <3>1. CASE \E h \in Harts, half \in {"low", "high"}, v \in Halves :
                 WriteMtimecmp(h, half, v)
      BY <3>1, WriteInv
    <3>2. CASE ReadMtime \/ (\E h \in Harts, v \in Halves : WriteMsip(h, v))
                 \/ (\E half \in {"low", "high"}, v \in Halves : WriteMtime(half, v))
      <4>1. /\ UNCHANGED <<now, mtimecmp, written, mtip, kernel, event, timers>>
            /\ mtime' = mtime \/ kernel = Idle
        BY <3>2 DEF ReadMtime, WriteMsip, WriteMtime
      <4> QED BY <4>1, QuietInv
    <3> QED BY <2>2, <3>1, <3>2 DEF Software
  <2>3. CASE KernelStep \/ Destroy
    BY <2>3, ProgramInv, DestroyInv, InterruptInv DEF KernelStep
  <2>4. CASE \E h \in Harts : TimerThread(h)
    BY <2>4, ThreadInv
  <2>5. CASE UNCHANGED vars
    BY <2>5, QuietInv DEF vars, timers
  <2> QED BY <2>1, <2>2, <2>3, <2>4, <2>5 DEF Next
<1> QED BY <1>1, <1>2 DEF IInv

LEMMA Invariance == Spec => []IInv
BY InvInit, InvStep, PTL DEF Spec

LEMMA DueInTicks ==
    ASSUME TypeOK, NEW h \in Harts
    PROVE  usec_to_ticks(now) >= mtimecmp[h] <=> now >= Goal(h)
<1>1. mtimecmp[h] \in Nat /\ now \in Nat
  BY RealClintAssumption DEF TypeOK, Values, Wrap
<1> QED BY <1>1, TickReached DEF Goal

\* No timer interrupt is early or stale, although the callback of a timer that
\* was replaced may still arrive.
THEOREM NoEarlyInterrupt == Spec => []PendingIsDue
<1>1. IInv => PendingIsDue
  BY DueInTicks DEF IInv, Raised, PendingIsDue, TypeOK
<1> QED BY <1>1, Invariance, PTL

\* No timeout is lost between the clock, the timer threads and the event, and
\* none ends before its tick, for every length of a tick.
THEOREM TimeoutNotLost == Spec => []NoLostTimeout
<1>1. ASSUME IInv PROVE NoLostTimeout
  <2> SUFFICES ASSUME kernel.op \notin {"delete", "gone"}, NEW h \in written,
                      usec_to_ticks(now) >= mtimecmp[h], h \notin mtip, ~Alarmed(h)
               PROVE  FALSE
    BY DEF NoLostTimeout
  <2>1. h \in Harts /\ now >= Goal(h) /\ Goal(h) \in Nat /\ now \in Nat
    BY <1>1, DueInTicks, GoalType, RealClintAssumption DEF IInv, TypeOK
  <2>2. ~event /\ ~BeingWritten(h) /\ (thread[h].at = "ended" \/ h \in cancelled)
    BY DEF Alarmed
  <2>3. h \notin cancelled
    BY <1>1, <2>2 DEF IInv, Pausing
  <2> QED BY <1>1, <2>1, <2>2, <2>3 DEF IInv, Timed
<1> QED BY <1>1, Invariance, PTL

\* The destructor leaves no timer thread behind that could call back.
THEOREM NoCallbackAfterEnd == Spec => []NoLateCallback
<1>1. IInv => NoLateCallback
  BY DEF IInv, Owned, Listed, NoLateCallback
<1> QED BY <1>1, Invariance, PTL

=============================================================================
