---------------------------- MODULE ClintProofs ----------------------------
(***************************************************************************)
(* Theorems about the interruptor driven by simulation time, for any       *)
(* harts, widths, scaler, quantum and time of an access: no timeout is     *)
(* lost or late, and no timer interrupt is early or stale, although        *)
(* accesses come from the future and out of the order of their times.      *)
(***************************************************************************)
EXTENDS Clint, WellFoundedInduction, TLAPS

-----------------------------------------------------------------------------
(* Arithmetic.                                                             *)

\* A non-empty set of naturals has a least element.
LEMMA Least ==
  ASSUME NEW S, S \subseteq Nat, S # {}
  PROVE  \E x \in S : \A y \in S : x <= y
  <1>1. PICK x \in S : \A y \in S : ~ (<<y, x>> \in OpToRel(<, Nat))
    BY WFMin, NatLessThanWellFounded
  <1>2. ASSUME NEW y \in S PROVE x <= y
    <2>1. x \in Nat /\ y \in Nat /\ ~ (y < x)
      BY <1>1 DEF OpToRel
    <2> QED
      BY <2>1
  <1> QED
    BY <1>2

\* A non-empty bounded set of naturals has a greatest element: its distance from
\* the bound is least.
LEMMA Greatest ==
  ASSUME NEW n \in Nat, NEW S, S \subseteq 0..n, S # {}
  PROVE  \E x \in S : \A y \in S : y <= x
  <1>1. PICK t \in {n - y : y \in S} : \A u \in {n - y : y \in S} : t <= u
    <2>1. {n - y : y \in S} # {}
      OBVIOUS
    <2>2. ASSUME NEW y \in S PROVE n - y \in Nat
      OBVIOUS
    <2>3. {n - y : y \in S} \subseteq Nat
      BY <2>2
    <2> QED
      BY <2>1, <2>3, Least
  <1>2. PICK x \in S : t = n - x
    BY <1>1
  <1>3. ASSUME NEW y \in S PROVE y <= x
    <2>1. t <= n - y /\ x \in 0..n /\ y \in 0..n
      BY <1>1
    <2> QED
      BY <1>2, <2>1
  <1> QED
    BY <1>3

\* Sums and products of naturals are naturals.
LEMMA Closed ==
  ASSUME NEW a \in Nat, NEW b \in Nat PROVE a + b \in Nat /\ a * b \in Nat
  OBVIOUS

\* The order of naturals is transitive.
LEMMA Trans ==
  ASSUME NEW a \in Nat, NEW b \in Nat, NEW c \in Nat, a <= b, b <= c PROVE a <= c
  OBVIOUS

\* Products are monotonic.
LEMMA Scaled ==
  ASSUME NEW a \in Nat, NEW b \in Nat, NEW s \in Nat, a <= b PROVE a * s <= b * s
  OBVIOUS

\* Quotients: the tick of a time.
LEMMA DivBounds ==
  ASSUME NEW a \in Nat, NEW s \in Nat \ {0}
  PROVE  a \div s \in Nat /\ (a \div s) * s <= a /\ a < (a \div s + 1) * s /\ a \div s <= a
  OBVIOUS

\* Remainders: what the width of a register leaves of a value.
LEMMA ModBounds ==
  ASSUME NEW a \in Nat, NEW s \in Nat \ {0}
  PROVE  a % s \in Nat /\ a % s <= a /\ a % s < s
  OBVIOUS

\* Writing the low half of a register keeps its width.
LEMMA StoreLow ==
  ASSUME NEW w \in Nat \ {0}, NEW a \in 0..(w * w - 1), NEW v \in 0..(w - 1)
  PROVE  (a \div w) * w + v \in 0..(w * w - 1)
  <1> DEFINE q == a \div w
  <1>1. a \in Nat /\ q \in Nat /\ q * w <= a
    OBVIOUS
  <1> HIDE DEF q
  <1>2. q <= w - 1
    <2> SUFFICES ASSUME q >= w PROVE FALSE
      BY <1>1
    <2>1. q * w >= w * w
      BY <1>1
    <2> QED
      BY <1>1, <2>1
  <1>3. q * w <= (w - 1) * w
    BY <1>1, <1>2
  <1>4. (w - 1) * w = w * w - w
    OBVIOUS
  <1>5. q * w \in Nat /\ w * w \in Nat
    BY <1>1
  <1>6. q * w + v <= w * w - 1
    BY <1>3, <1>4, <1>5
  <1> QED
    BY <1>5, <1>6 DEF q

\* Writing the high half of a register keeps its width.
LEMMA StoreHigh ==
  ASSUME NEW w \in Nat \ {0}, NEW a \in 0..(w * w - 1), NEW v \in 0..(w - 1)
  PROVE  v * w + (a % w) \in 0..(w * w - 1)
  OBVIOUS

\* A register keeps its width, whichever half is written.
LEMMA StoreType ==
  ASSUME NEW old \in Values, NEW half \in {"low", "high"}, NEW v \in Halves
  PROVE  Store(old, half, v) \in Values
  <1>1. HalfWord \in Nat \ {0} /\ old \in 0..(HalfWord * HalfWord - 1) /\ v \in 0..(HalfWord - 1)
    BY ClintAssumption DEF Values, UINT_MAX, Wrap
  <1> QED
    BY <1>1, StoreLow, StoreHigh DEF Store, Values, UINT_MAX, Wrap

-----------------------------------------------------------------------------
(* Least and greatest times.                                               *)

\* Front is the latest of the times of the harts and of the kernel.
FrontIsLatest ==
    /\ Front \in Nat /\ time <= Front
    /\ \A h \in Harts : time + ahead[h] <= Front
    /\ Front = time \/ \E h \in Harts : Front = time + ahead[h]

\* There is a latest time, since no hart runs ahead without bound.
LEMMA FrontIs == TypeOK => FrontIsLatest
  <1> SUFFICES ASSUME TypeOK PROVE FrontIsLatest
    OBVIOUS
  <1> DEFINE S == {time} \cup {time + ahead[h] : h \in Harts}
             n == MaxTime + Quantum + Access
  <1>1. n \in Nat
    BY ClintAssumption
  <1>2. S \subseteq 0..n /\ S # {}
    <2>1. time \in 0..n
      BY ClintAssumption DEF TypeOK
    <2>2. ASSUME NEW h \in Harts PROVE time + ahead[h] \in 0..n
      <3>1. ahead[h] \in 0..(Quantum + Access) /\ time \in 0..MaxTime
        BY DEF TypeOK
      <3> QED
        BY <3>1, ClintAssumption
    <2> QED
      BY <2>1, <2>2
  <1> HIDE DEF n
  <1>3. Front = Max(S)
    BY DEF Front
  <1>4. time \in S /\ \A h \in Harts : time + ahead[h] \in S
    OBVIOUS
  <1>5. \A x \in S : x = time \/ \E h \in Harts : x = time + ahead[h]
    OBVIOUS
  <1> HIDE DEF S
  <1>6. \E x \in S : \A y \in S : x >= y
    <2>1. PICK x \in S : \A y \in S : y <= x
      BY <1>1, <1>2, Greatest
    <2> QED
      BY <1>1, <1>2, <2>1
  <1>7. Front \in S /\ \A y \in S : Front >= y
    BY <1>3, <1>6 DEF Max
  <1>8. Front \in Nat
    BY <1>1, <1>2, <1>7
  <1>9. \A y \in S : y <= Front
    BY <1>1, <1>2, <1>7, <1>8
  <1> QED
    BY <1>4, <1>5, <1>7, <1>8, <1>9 DEF FrontIsLatest

\* Front does not go back when no hart's time does.
LEMMA FrontGrows ==
  ASSUME TypeOK, TypeOK', time <= time', \A h \in Harts : time + ahead[h] <= time' + ahead'[h]
  PROVE  Front <= Front'
  <1>1. /\ Front' \in Nat /\ time' <= Front' /\ \A h \in Harts : time' + ahead'[h] <= Front'
    <2>1. FrontIsLatest'
      BY FrontIs, PTL
    <2> QED
      BY <2>1 DEF FrontIsLatest
  <1>2. /\ Front \in Nat /\ (Front = time \/ \E h \in Harts : Front = time + ahead[h])
    BY FrontIs DEF FrontIsLatest
  <1>3. time \in Nat /\ time' \in Nat
    BY ClintAssumption DEF TypeOK
  <1>4. ASSUME NEW h \in Harts PROVE time + ahead[h] \in Nat /\ time' + ahead'[h] \in Nat
    <2>1. ahead[h] \in 0..(Quantum + Access) /\ ahead'[h] \in 0..(Quantum + Access)
      BY DEF TypeOK
    <2> QED
      BY <1>3, <2>1, ClintAssumption
  <1>5. CASE Front = time
    BY <1>1, <1>2, <1>3, <1>5
  <1>6. CASE \E h \in Harts : Front = time + ahead[h]
    <2>1. PICK h \in Harts : Front = time + ahead[h]
      BY <1>6
    <2> QED
      BY <1>1, <1>2, <1>4, <2>1
  <1> QED
    BY <1>2, <1>5, <1>6

\* Of the notifications of an event, the earliest counts.
LEMMA NotifiedIs ==
  ASSUME NEW D, D \subseteq Nat, D # {}
  PROVE  \E e \in D : Notified(D) = {e} /\ \A x \in D : e <= x
  <1>1. PICK x \in D : \A y \in D : x <= y
    BY Least
  <1>2. Min(D) \in D /\ \A y \in D : Min(D) <= y
    BY <1>1 DEF Min
  <1> QED
    BY <1>2 DEF Notified

-----------------------------------------------------------------------------
(* The inductive invariant.                                                *)

\* A hart that is not synchronising has not used up its quantum.
WithinQuantum == \A h \in Harts : at[h] # "sync" => ahead[h] < Quantum

\* Unless software wrote it, mtime is a tick that some hart has reached.
MtimeReached == ~ written => mtime * scaler <= Front

IInv == TypeOK /\ WithinQuantum /\ MtimeReached

\* What an instruction of a hart does to the times of the harts.
LEMMA Elapsed ==
  ASSUME TypeOK, WithinQuantum, NEW h \in Harts, NEW d \in {1, Access}, Elapse(h, d)
  PROVE  /\ ahead[h] \in Nat /\ ahead[h] < Quantum
         /\ ahead' \in [Harts -> 0..(Quantum + Access)] /\ at' \in [Harts -> {"runs", "sync", "wfi"}]
         /\ ahead'[h] = ahead[h] + d
         /\ \A g \in Harts : ahead[g] \in Nat /\ ahead'[g] \in Nat /\ ahead[g] <= ahead'[g]
         /\ WithinQuantum'
  <1>1. /\ Quantum \in Nat /\ Access \in Nat \ {0} /\ d \in Nat /\ d <= Access
    BY ClintAssumption
  <1>2. /\ ahead \in [Harts -> 0..(Quantum + Access)] /\ at \in [Harts -> {"runs", "sync", "wfi"}]
        /\ at[h] = "runs" /\ ahead[h] < Quantum
    BY DEF TypeOK, WithinQuantum, Elapse
  <1>3. ahead' = [ahead EXCEPT ![h] = ahead[h] + d]
    BY DEF Elapse
  <1>4. ahead[h] + d \in 0..(Quantum + Access)
    BY <1>1, <1>2
  <1>5. ahead' \in [Harts -> 0..(Quantum + Access)] /\ ahead'[h] = ahead[h] + d
        /\ \A g \in Harts : g # h => ahead'[g] = ahead[g]
    BY <1>2, <1>3, <1>4
  <1>6. \A g \in Harts : ahead[g] \in Nat /\ ahead'[g] \in Nat /\ ahead[g] <= ahead'[g]
    BY <1>1, <1>2, <1>5
  <1>7. at' \in [Harts -> {"runs", "sync", "wfi"}]
    BY <1>2 DEF Elapse
  <1>8. WithinQuantum'
    <2> SUFFICES ASSUME NEW g \in Harts, at'[g] # "sync" PROVE ahead'[g] < Quantum
      BY DEF WithinQuantum
    <2>1. CASE g = h
      <3>1. ~ need_sync(ahead[h] + d)
        BY <1>2, <2>1 DEF Elapse
      <3> QED
        BY <1>1, <1>2, <1>5, <2>1, <3>1 DEF need_sync
    <2>2. CASE g # h
      <3>1. at'[g] = at[g]
        BY <1>2, <2>2 DEF Elapse
      <3> QED
        BY <1>5, <2>2, <3>1 DEF WithinQuantum
    <2> QED
      BY <2>1, <2>2
  <1> QED
    BY <1>2, <1>5, <1>6, <1>7, <1>8

\* The tick of a time of the kernel or of an access fits into mtime.
LEMMA TickType ==
  ASSUME NEW t \in 0..(MaxTime + Quantum + Access)
  PROVE  t \div scaler \in Values /\ (t \div scaler) * scaler <= t
  <1>1. t \in Nat /\ scaler \in Nat \ {0} /\ t <= Wrap - 1 /\ Wrap \in Nat
    BY ClintAssumption DEF Wrap
  <1>2. t \div scaler \in Nat /\ (t \div scaler) * scaler <= t /\ t \div scaler <= t
    BY <1>1, DivBounds
  <1> QED
    BY <1>1, <1>2 DEF Values, UINT_MAX

\* The notification of an event stays a delay of the event's width.
LEMMA NotifiedType ==
  ASSUME TypeOK, NEW D, D \subseteq Values
  PROVE  LET n == Notified(irq_event \cup D) IN n = {} \/ \E e \in Values : n = {e}
  <1>1. irq_event \cup D \subseteq Values /\ Values \subseteq Nat
    <2>1. irq_event \subseteq Values
      BY DEF TypeOK
    <2>2. Values \subseteq Nat
      BY DEF Values
    <2> QED
      BY <2>1, <2>2
  <1>2. CASE irq_event \cup D = {}
    BY <1>2 DEF Notified
  <1>3. CASE irq_event \cup D # {}
    <2>1. PICK e \in irq_event \cup D : Notified(irq_event \cup D) = {e}
      BY <1>1, <1>3, NotifiedIs
    <2> QED
      BY <1>1, <2>1
  <1> QED
    BY <1>2, <1>3

\* How far time advances: no further than any hart waits and any event is away.
LEMMA AdvanceBy ==
  ASSUME TypeOK, Delays # {}
  PROVE  /\ Min(Delays) \in Nat
         /\ \A h \in Synced : Min(Delays) <= ahead[h]
         /\ \A e \in irq_event : Min(Delays) <= e /\ e \in Nat
  <1>1. \A e \in irq_event : e \in Nat
    BY DEF TypeOK, Values
  <1>2. \A h \in Synced : ahead[h] \in Nat
    BY DEF TypeOK, Synced
  <1>3. Delays \subseteq Nat
    BY <1>1, <1>2 DEF Delays
  <1>4. PICK x \in Delays : \A y \in Delays : x <= y
    BY <1>3, Least
  <1>5. Min(Delays) \in Delays /\ \A y \in Delays : Min(Delays) <= y
    BY <1>4 DEF Min
  <1> QED
    BY <1>1, <1>3, <1>5 DEF Delays

-----------------------------------------------------------------------------
(* The initial state satisfies it, and so does every step's result.        *)

\* It holds at reset.
LEMMA InitIInv == Init => IInv
  <1> SUFFICES ASSUME Init PROVE IInv
    OBVIOUS
  <1>1. 0 \in Values /\ 0 \in 0..MaxTime /\ 0 \in 0..(Quantum + Access) /\ 0 < Quantum
    <2>1. 0 \in Values
      BY ClintAssumption DEF Values, UINT_MAX, Wrap
    <2> QED
      BY <2>1, ClintAssumption
  <1>2. TypeOK
    BY <1>1 DEF Init, TypeOK
  <1>3. WithinQuantum
    BY <1>1 DEF Init, WithinQuantum
  <1>4. MtimeReached
    <2>1. Front \in Nat
      BY <1>2, FrontIs DEF FrontIsLatest
    <2> QED
      BY <2>1, ClintAssumption DEF Init, MtimeReached
  <1> QED
    BY <1>2, <1>3, <1>4 DEF IInv

\* The types, the quantum and the course of the harts' times.
LEMMA NextTypes ==
  IInv /\ [Next]_vars =>
     /\ TypeOK' /\ WithinQuantum'
     /\ time <= time' /\ \A h \in Harts : time + ahead[h] <= time' + ahead'[h]
  <1> SUFFICES ASSUME IInv, [Next]_vars
               PROVE  /\ TypeOK' /\ WithinQuantum'
                      /\ time <= time' /\ \A h \in Harts : time + ahead[h] <= time' + ahead'[h]
    OBVIOUS
  <1> USE DEF IInv, hartVars
  <1>0. /\ time \in 0..MaxTime /\ time \in Nat /\ \A h \in Harts : ahead[h] \in Nat
        /\ Quantum \in Nat \ {0} /\ Access \in Nat \ {0} /\ MaxTime \in Nat
    BY ClintAssumption DEF TypeOK
  <1>1. ASSUME NEW h \in Harts, HartStep(h)
        PROVE  /\ TypeOK' /\ WithinQuantum'
               /\ time' = time /\ \A g \in Harts : ahead[g] <= ahead'[g] /\ ahead'[g] \in Nat
    <2>1. CASE Instruction(h)
      BY <1>0, <2>1, Elapsed DEF Instruction, TypeOK
    <2>2. CASE ReadMtime(h)
      <3>1. Elapse(h, Access)
        BY <2>2 DEF ReadMtime
      <3>2. mtime' \in Values
        <4>1. time + ahead[h] + Access \in 0..(MaxTime + Quantum + Access)
          BY <1>0, <3>1, Elapsed
        <4> QED
          BY <2>2, <4>1, TickType DEF ReadMtime
      <3> QED
        BY <1>0, <2>2, <3>1, <3>2, Elapsed DEF ReadMtime, TypeOK
    <2>3. CASE ReadTimeCsr(h)
      <3>1. mtime' \in Values
        <4>1. time \in 0..(MaxTime + Quantum + Access)
          BY <1>0
        <4> QED
          BY <2>3, <4>1, TickType DEF ReadTimeCsr, update_and_get_mtime, TypeOK
      <3> QED
        BY <1>0, <2>3, <3>1, Elapsed DEF ReadTimeCsr, TypeOK
    <2>4. CASE Wfi(h)
      <3>1. at' \in [Harts -> {"runs", "sync", "wfi"}]
        BY <2>4 DEF Wfi, TypeOK
      <3>2. TypeOK'
        BY <2>4, <3>1 DEF Wfi, TypeOK
      <3>3. WithinQuantum'
        <4>1. \A g \in Harts : at'[g] # "sync" => at[g] # "sync"
          BY <2>4 DEF Wfi, TypeOK
        <4> QED
          BY <2>4, <4>1 DEF Wfi, WithinQuantum
      <3> QED
        BY <1>0, <2>4, <3>2, <3>3 DEF Wfi
    <2>5. ASSUME NEW target \in Harts, NEW half \in {"low", "high"}, NEW v \in Halves,
                 WriteMtimecmp(h, target, half, v)
          PROVE  /\ TypeOK' /\ WithinQuantum'
                 /\ time' = time /\ \A g \in Harts : ahead[g] <= ahead'[g] /\ ahead'[g] \in Nat
      <3>1. Elapse(h, Access)
        BY <2>5 DEF WriteMtimecmp
      <3>2. mtimecmp' \in [Harts -> Values]
        <4>1. Store(mtimecmp[target], half, v) \in Values
          BY StoreType DEF TypeOK
        <4>2. mtimecmp' = [mtimecmp EXCEPT ![target] = Store(mtimecmp[target], half, v)]
          BY <2>5 DEF WriteMtimecmp
        <4> QED
          BY <4>1, <4>2 DEF TypeOK
      <3>3. irq_event' = {} \/ \E e \in Values : irq_event' = {e}
        <4>1. ahead[h] + Access \in Values
          <5>1. ahead[h] + Access \in Nat /\ ahead[h] + Access < Quantum + Access
            BY <1>0, <3>1, Elapsed
          <5>2. Wrap \in Nat /\ Quantum + Access < Wrap
            BY ClintAssumption DEF Wrap
          <5> QED
            BY <1>0, <5>1, <5>2 DEF Values, UINT_MAX
        <4>2. irq_event' = Notified(irq_event \cup {ahead[h] + Access})
          BY <2>5 DEF WriteMtimecmp
        <4>3. {ahead[h] + Access} \subseteq Values
          BY <4>1
        <4> QED
          BY <4>2, <4>3, NotifiedType
      <3> QED
        BY <1>0, <2>5, <3>1, <3>2, <3>3, Elapsed DEF WriteMtimecmp, TypeOK
    <2>6. ASSUME NEW target \in Harts, NEW v \in Halves, WriteMsip(h, target, v)
          PROVE  /\ TypeOK' /\ WithinQuantum'
                 /\ time' = time /\ \A g \in Harts : ahead[g] <= ahead'[g] /\ ahead'[g] \in Nat
      <3>1. msip' \subseteq Harts /\ wfi_event' \subseteq Harts
        BY <2>6 DEF WriteMsip, TypeOK
      <3> QED
        BY <1>0, <2>6, <3>1, Elapsed DEF WriteMsip, TypeOK
    <2>7. ASSUME NEW half \in {"low", "high"}, NEW v \in Halves, WriteMtime(h, half, v)
          PROVE  /\ TypeOK' /\ WithinQuantum'
                 /\ time' = time /\ \A g \in Harts : ahead[g] <= ahead'[g] /\ ahead'[g] \in Nat
      <3>1. mtime' \in Values
        BY <2>7, StoreType DEF WriteMtime, TypeOK
      <3> QED
        BY <1>0, <2>7, <3>1, Elapsed DEF WriteMtime, TypeOK
    <2> QED
      BY <1>1, <2>1, <2>2, <2>3, <2>4, <2>5, <2>6, <2>7 DEF HartStep
  <1>2. CASE run
    <2>1. mtime' \in Values
      <3>1. time \in 0..(MaxTime + Quantum + Access)
        BY <1>0
      <3> QED
        BY <1>2, <3>1, TickType DEF run, update_and_get_mtime, TypeOK
    <2>2. Goals \subseteq Values
      <3> SUFFICES ASSUME NEW h \in Harts, mtimecmp[h] > mtime'
                   PROVE  ((mtimecmp[h] - mtime') * scaler) % Wrap \in Values
        BY DEF Goals
      <3>1. /\ mtimecmp[h] - mtime' \in Nat /\ scaler \in Nat /\ Wrap \in Nat \ {0}
        <4>1. mtimecmp[h] \in Values
          BY DEF TypeOK
        <4>2. Wrap \in Nat \ {0} /\ scaler \in Nat
          BY ClintAssumption DEF Wrap
        <4> QED
          BY <2>1, <4>1, <4>2 DEF Values
      <3>2. (mtimecmp[h] - mtime') * scaler \in Nat
        BY <3>1
      <3> QED
        BY <3>1, <3>2, ModBounds DEF Values, UINT_MAX
    <2>3. irq_event' = {} \/ \E e \in Values : irq_event' = {e}
      BY <1>2, <2>2, NotifiedType DEF run
    <2>4. mtip' \subseteq Harts /\ wfi_event' \subseteq Harts
      BY <1>2 DEF run, Lines, Woken, TypeOK
    <2>5. TypeOK'
      BY <1>2, <2>1, <2>3, <2>4 DEF run, TypeOK
    <2> QED
      BY <1>0, <1>2, <2>5 DEF run, WithinQuantum
  <1>3. CASE Delta
    <2>1. at' \in [Harts -> {"runs", "sync", "wfi"}]
      BY <1>3 DEF Delta, TypeOK
    <2>2. irq_event' = {} \/ \E e \in Values : irq_event' = {e}
      BY <1>3 DEF Delta, TypeOK
    <2>3. TypeOK'
      BY <1>3, <2>1, <2>2 DEF Delta, TypeOK
    <2>4. \A h \in Harts : at'[h] # "sync" => at[h] # "sync"
      BY <1>3 DEF Delta
    <2> QED
      BY <1>0, <1>3, <2>3, <2>4 DEF Delta, WithinQuantum
  <1>4. CASE Advance
    <2> DEFINE d == Min(Delays)
    <2>1. /\ d \in Nat /\ \A h \in Synced : d <= ahead[h]
          /\ \A e \in irq_event : d <= e /\ e \in Nat
      BY <1>4, AdvanceBy DEF Advance
    <2>2. /\ time + d <= MaxTime /\ time' = time + d
          /\ ahead' = [h \in Harts |-> IF h \in Synced THEN ahead[h] - d ELSE ahead[h]]
          /\ at' = [h \in Harts |-> IF h \in Synced /\ ahead[h] = d THEN "runs" ELSE at[h]]
          /\ triggered' = (d \in irq_event)
          /\ irq_event' = {e - d : e \in irq_event \ {d}}
          /\ UNCHANGED <<mtime, mtimecmp, mtip, msip, wfi_event, written>>
      BY <1>4 DEF Advance
    <2> HIDE DEF d
    <2>3. time' \in 0..MaxTime /\ time <= time'
      BY <1>0, <2>1, <2>2
    <2>4. ahead' \in [Harts -> 0..(Quantum + Access)]
      <3> SUFFICES ASSUME NEW h \in Harts
                   PROVE  (IF h \in Synced THEN ahead[h] - d ELSE ahead[h]) \in 0..(Quantum + Access)
        BY <2>2
      <3>1. ahead[h] \in 0..(Quantum + Access)
        BY DEF TypeOK
      <3> QED
        BY <1>0, <2>1, <3>1
    <2>5. at' \in [Harts -> {"runs", "sync", "wfi"}]
      BY <2>2 DEF TypeOK
    <2>6. irq_event' = {} \/ \E e \in Values : irq_event' = {e}
      <3>1. CASE irq_event = {}
        BY <2>2, <3>1
      <3>2. CASE \E e \in Values : irq_event = {e}
        <4>1. PICK e \in Values : irq_event = {e}
          BY <3>2
        <4>2. CASE e = d
          BY <2>2, <4>1, <4>2
        <4>3. CASE e # d
          <5>1. irq_event' = {e - d}
            BY <2>2, <4>1, <4>3
          <5>2. e - d \in Values
            <6>1. d <= e /\ e \in Nat
              BY <2>1, <4>1
            <6>2. UINT_MAX \in Int
              BY ClintAssumption DEF UINT_MAX, Wrap
            <6> QED
              BY <2>1, <4>1, <6>1, <6>2 DEF Values
          <5> QED
            BY <5>1, <5>2
        <4> QED
          BY <4>2, <4>3
      <3> QED
        BY <3>1, <3>2 DEF TypeOK
    <2>7. TypeOK'
      BY <2>2, <2>3, <2>4, <2>5, <2>6 DEF TypeOK
    <2>8. WithinQuantum'
      <3> SUFFICES ASSUME NEW h \in Harts, at'[h] # "sync" PROVE ahead'[h] < Quantum
        BY DEF WithinQuantum
      <3>1. CASE h \in Synced
        <4>1. ahead[h] = d /\ ahead'[h] = ahead[h] - d
          BY <2>2, <3>1 DEF Synced
        <4> QED
          BY <1>0, <2>1, <4>1
      <3>2. CASE h \notin Synced
        BY <2>2, <3>2 DEF Synced, WithinQuantum
      <3> QED
        BY <3>1, <3>2
    <2>9. \A h \in Harts : time + ahead[h] <= time' + ahead'[h]
      BY <1>0, <2>1, <2>2
    <2> QED
      BY <2>3, <2>7, <2>8, <2>9
  <1>5. CASE UNCHANGED vars
    BY <1>0, <1>5 DEF vars, TypeOK, WithinQuantum
  <1> QED
    BY <1>0, <1>1, <1>2, <1>3, <1>4, <1>5 DEF Next

\* What the steps do to Front.
LEMMA NextFront ==
  ASSUME IInv, [Next]_vars
  PROVE  /\ TypeOK' /\ Front <= Front' /\ Front \in Nat
         /\ Front' \in Nat /\ time' <= Front' /\ \A h \in Harts : time' + ahead'[h] <= Front'
  <1>1. /\ TypeOK /\ TypeOK'
        /\ time <= time' /\ \A h \in Harts : time + ahead[h] <= time' + ahead'[h]
    BY NextTypes DEF IInv
  <1>2. Front <= Front'
    BY <1>1, FrontGrows
  <1>3. FrontIsLatest /\ FrontIsLatest'
    BY <1>1, FrontIs, PTL
  <1> QED
    BY <1>1, <1>2, <1>3 DEF FrontIsLatest

\* Every step preserves the invariant: mtime follows the harts.
LEMMA NextIInv == IInv /\ [Next]_vars => IInv'
  <1> SUFFICES ASSUME IInv, [Next]_vars PROVE IInv'
    OBVIOUS
  <1>0. /\ TypeOK' /\ Front <= Front' /\ Front \in Nat /\ Front' \in Nat
        /\ time' <= Front' /\ \A h \in Harts : time' + ahead'[h] <= Front'
    BY NextFront
  <1>1. TypeOK' /\ WithinQuantum'
    BY NextTypes
  <1>2. /\ mtime \in Nat /\ scaler \in Nat \ {0} /\ time \in 0..(MaxTime + Quantum + Access)
    BY ClintAssumption DEF IInv, TypeOK, Values
  <1>3. MtimeReached'
    <2> SUFFICES ASSUME ~ written' PROVE mtime' * scaler <= Front'
      BY DEF MtimeReached
    <2>1. CASE UNCHANGED <<mtime, written>>
      <3>1. mtime * scaler <= Front /\ mtime * scaler \in Nat
        BY <1>2, <2>1 DEF IInv, MtimeReached
      <3> QED
        BY <1>0, <2>1, <3>1
    <2>2. CASE update_and_get_mtime /\ UNCHANGED <<time, written>>
      <3>1. CASE mtime' = mtime
        BY <2>1, <2>2, <3>1
      <3>2. CASE mtime' = time \div scaler
        <4>1. mtime' * scaler <= time /\ mtime' \in Nat
          BY <1>2, <3>2, TickType DEF Values
        <4>2. mtime' * scaler \in Nat
          BY <1>2, <4>1, Closed
        <4>3. time \in Nat /\ time <= Front'
          BY <1>0, <1>2, <2>2
        <4> QED
          BY <1>0, <4>1, <4>2, <4>3, Trans
      <3> QED
        BY <2>2, <3>1, <3>2 DEF update_and_get_mtime
    <2>3. ASSUME NEW h \in Harts, ReadMtime(h) PROVE mtime' * scaler <= Front'
      <3> DEFINE t == time + ahead[h] + Access
      <3>1. Elapse(h, Access) /\ mtime' = t \div scaler /\ time' = time
        BY <2>3 DEF ReadMtime
      <3>2. ahead'[h] = ahead[h] + Access /\ ahead[h] \in Nat /\ ahead[h] < Quantum
        BY <3>1, Elapsed DEF IInv
      <3>3. t \in 0..(MaxTime + Quantum + Access) /\ t = time' + ahead'[h]
        BY <3>1, <3>2, ClintAssumption DEF IInv, TypeOK
      <3> HIDE DEF t
      <3>4. mtime' * scaler <= t /\ mtime' \in Nat
        BY <3>1, <3>3, TickType DEF Values
      <3>5. mtime' * scaler \in Nat
        BY <1>2, <3>4, Closed
      <3>6. t \in Nat /\ t <= Front'
        BY <1>0, <3>3
      <3> QED
        BY <1>0, <3>4, <3>5, <3>6, Trans
    <2>4. ASSUME NEW h \in Harts, HartStep(h)
          PROVE  \/ UNCHANGED <<mtime, written>>
                 \/ update_and_get_mtime /\ UNCHANGED <<time, written>>
                 \/ ReadMtime(h) \/ written'
      BY <2>4 DEF HartStep, Instruction, ReadTimeCsr, Wfi, WriteMtimecmp, WriteMsip, WriteMtime
    <2>5. run => update_and_get_mtime /\ UNCHANGED <<time, written>>
      BY DEF run
    <2>6. Delta \/ Advance \/ UNCHANGED vars => UNCHANGED <<mtime, written>>
      BY DEF Delta, Advance, vars
    <2> QED
      BY <2>1, <2>2, <2>3, <2>4, <2>5, <2>6 DEF Next
  <1> QED
    BY <1>1, <1>3 DEF IInv

\* IInv is an invariant.
LEMMA ClintInvariance == Spec => []IInv
  BY InitIInv, NextIInv, PTL DEF Spec

\* The registers keep their widths, and no hart runs ahead of the kernel by more than
\* its quantum and the instruction that uses it up.
THEOREM ClintTypeCorrect == Spec => []TypeOK
  <1>1. IInv => TypeOK
    BY DEF IInv
  <1> QED
    BY <1>1, ClintInvariance, PTL

-----------------------------------------------------------------------------
(* Timeouts.                                                               *)

\* A step other than run's does not put off what irq_event was to do.
LEMMA EventStays ==
  ASSUME IInv, [Next]_vars, ~ run, NEW t \in Nat, EventBy(t)
  PROVE  triggered' \/ \E e \in irq_event' : time' + e <= t
  <1>0. /\ irq_event = {} \/ \E e \in Nat : irq_event = {e}
        /\ irq_event \subseteq Nat /\ time \in Nat
    BY ClintAssumption DEF IInv, TypeOK, Values
  <1>1. CASE UNCHANGED <<time, irq_event, triggered>>
    BY <1>1 DEF EventBy
  <1>2. ASSUME NEW h \in Harts, NEW target \in Harts, NEW half, NEW v, WriteMtimecmp(h, target, half, v)
        PROVE  triggered' \/ \E e \in irq_event' : time' + e <= t
    <2> DEFINE D == irq_event \cup {ahead[h] + Access}
    <2>1. UNCHANGED <<time, triggered>> /\ irq_event' = Notified(D)
      BY <1>2 DEF WriteMtimecmp
    <2>2. D \subseteq Nat /\ D # {}
      <3>1. ahead[h] + Access \in Nat
        BY ClintAssumption DEF IInv, TypeOK
      <3> QED
        BY <1>0, <3>1
    <2>3. PICK n \in D : Notified(D) = {n} /\ \A x \in D : n <= x
      BY <2>2, NotifiedIs
    <2>4. CASE triggered
      BY <2>1, <2>4
    <2>5. CASE \E e \in irq_event : time + e <= t
      <3>1. PICK e \in irq_event : time + e <= t
        BY <2>5
      <3>2. n <= e /\ n \in Nat /\ e \in Nat
        BY <1>0, <2>2, <2>3
      <3>3. time' + n <= t
        BY <1>0, <2>1, <3>1, <3>2
      <3> QED
        BY <2>1, <2>3, <3>3
    <2> QED
      BY <2>4, <2>5 DEF EventBy
  <1>3. CASE Delta
    BY <1>3 DEF Delta, Evaluated, EventBy
  <1>4. CASE Advance
    <2> DEFINE d == Min(Delays)
    <2>1. d \in Nat /\ \A e \in irq_event : d <= e
      BY <1>4, AdvanceBy DEF Advance, IInv
    <2>2. /\ time' = time + d /\ triggered' = (d \in irq_event) /\ ~ triggered
          /\ irq_event' = {e - d : e \in irq_event \ {d}}
      BY <1>4 DEF Advance, Evaluated
    <2> HIDE DEF d
    <2>3. PICK e \in irq_event : time + e <= t
      BY <2>2 DEF EventBy
    <2>4. CASE e = d
      BY <2>2, <2>4
    <2>5. CASE e # d
      <3>1. e - d \in irq_event' /\ time' + (e - d) = time + e
        BY <1>0, <2>1, <2>2, <2>5
      <3> QED
        BY <2>3, <3>1
    <2> QED
      BY <2>4, <2>5
  <1>5. ASSUME NEW h \in Harts, HartStep(h)
        PROVE  \/ UNCHANGED <<time, irq_event, triggered>>
               \/ \E target \in Harts, half \in {"low", "high"}, v \in Halves :
                     WriteMtimecmp(h, target, half, v)
    BY <1>5 DEF HartStep, Instruction, ReadMtime, ReadTimeCsr, Wfi, WriteMsip, WriteMtime
  <1>6. UNCHANGED vars => UNCHANGED <<time, irq_event, triggered>>
    BY DEF vars
  <1> QED
    BY <1>1, <1>2, <1>3, <1>4, <1>5, <1>6 DEF Next

\* A write of a comparand is looked at once the harts have got to its time.
LEMMA WriteIsSeen ==
  ASSUME IInv, [Next]_vars, NEW h \in Harts, NEW target \in Harts, NEW half, NEW v,
         WriteMtimecmp(h, target, half, v)
  PROVE  \E e \in irq_event' : time' + e <= Front'
  <1> DEFINE D == irq_event \cup {ahead[h] + Access}
  <1>1. time' = time /\ irq_event' = Notified(D) /\ Elapse(h, Access)
    BY DEF WriteMtimecmp
  <1>2. D \subseteq Nat /\ D # {} /\ time \in Nat
    BY ClintAssumption DEF IInv, TypeOK, Values
  <1>3. PICK n \in D : Notified(D) = {n} /\ \A x \in D : n <= x
    BY <1>2, NotifiedIs
  <1>4. ahead'[h] = ahead[h] + Access
    BY <1>1, Elapsed DEF IInv
  <1>5. n <= ahead'[h] /\ n \in Nat /\ ahead'[h] \in Nat
    BY <1>2, <1>3, <1>4
  <1>6. time + ahead'[h] <= Front' /\ Front' \in Nat
    BY <1>1, NextFront
  <1>7. time' + n <= Front'
    BY <1>1, <1>2, <1>5, <1>6
  <1> QED
    BY <1>1, <1>3, <1>7

\* A step that neither runs the thread nor writes a comparand leaves lines and
\* comparands alone.
LEMMA LinesStay ==
  ASSUME [Next]_vars, ~ run,
         ~ \E h, target \in Harts, half \in {"low", "high"}, v \in Halves :
              WriteMtimecmp(h, target, half, v)
  PROVE  UNCHANGED <<mtip, mtimecmp>>
  <1>1. ASSUME NEW h \in Harts, HartStep(h) PROVE UNCHANGED <<mtip, mtimecmp>>
    BY <1>1 DEF HartStep, Instruction, ReadMtime, ReadTimeCsr, Wfi, WriteMsip, WriteMtime
  <1>2. Delta \/ Advance \/ UNCHANGED vars => UNCHANGED <<mtip, mtimecmp>>
    BY DEF Delta, Advance, vars
  <1> QED
    BY <1>1, <1>2 DEF Next

\* Every step keeps irq_event in time for every timeout.
LEMMA NextPunctual == IInv /\ Punctual /\ [Next]_vars => Punctual'
  <1> SUFFICES ASSUME IInv, Punctual, [Next]_vars,
                      NEW h \in Harts, h \notin mtip', mtimecmp'[h] \in 1..(UINT_MAX - 1)
               PROVE  EventBy(Larger((mtimecmp[h] + 1) * scaler, Front))'
    BY DEF Punctual
  <1> DEFINE tick == (mtimecmp'[h] + 1) * scaler
  <1>0. /\ Front \in Nat /\ Front' \in Nat /\ Front <= Front' /\ TypeOK'
        /\ mtimecmp'[h] \in Nat /\ scaler \in Nat \ {0} /\ tick \in Nat
    <2>1. scaler \in Nat \ {0} /\ mtimecmp'[h] \in Nat
      BY ClintAssumption
    <2>2. tick \in Nat
      BY <2>1
    <2> QED
      BY <2>1, <2>2, NextFront
  <1> SUFFICES triggered' \/ \E e \in irq_event' : time' + e <= Larger(tick, Front')
    BY DEF EventBy, Larger
  <1> HIDE DEF tick
  <1>1. ASSUME NEW g \in Harts, NEW target \in Harts, NEW half \in {"low", "high"}, NEW v \in Halves,
               WriteMtimecmp(g, target, half, v)
        PROVE  \E e \in irq_event' : time' + e <= Larger(tick, Front')
    <2>1. PICK e \in irq_event' : time' + e <= Front'
      BY <1>1, WriteIsSeen
    <2>2. time' + e \in Nat
      <3>1. time' \in Nat /\ e \in Nat
        BY <1>0, ClintAssumption DEF TypeOK, Values
      <3> QED
        BY <3>1, Closed
    <2>3. time' + e <= Larger(tick, Front')
      BY <1>0, <2>1, <2>2 DEF Larger
    <2> QED
      BY <2>3
  <1>2. CASE run
    <2>1. /\ mtimecmp' = mtimecmp /\ time' = time /\ mtip' = Lines /\ irq_event' = Notified(irq_event \cup Goals)
          /\ update_and_get_mtime
      BY <1>2 DEF run
    <2>2. /\ time \in Nat /\ mtime' \in Nat /\ time < (time \div scaler + 1) * scaler
          /\ time \div scaler \in Nat
      <3>1. time \in Nat /\ mtime' \in Nat
        BY <1>0, ClintAssumption DEF IInv, TypeOK, Values
      <3> QED
        BY <1>0, <3>1, DivBounds
    <2> DEFINE tock == time \div scaler
    <2>3. PICK m \in Nat : m = mtime' /\ tock <= m
      <3>1. mtime \in Nat
        BY DEF IInv, TypeOK, Values
      <3> QED
        BY <2>1, <2>2, <3>1 DEF update_and_get_mtime
    <2>a. tock <= m /\ m \in Nat
      BY <2>3
    <2>4. m < mtimecmp[h] /\ mtimecmp[h] \in Nat /\ mtimecmp[h] < UINT_MAX
      <3>1. mtimecmp[h] \in 1..(UINT_MAX - 1) /\ UINT_MAX \in Int
        BY <2>1, ClintAssumption DEF UINT_MAX, Wrap
      <3>2. ~ (m >= mtimecmp[h])
        BY <2>1, <2>3, <3>1 DEF Lines
      <3> QED
        BY <3>1, <3>2
    <2> DEFINE delay == (mtimecmp[h] - m) * scaler
               goal == delay % Wrap
    <2>5. goal \in Goals
      BY <2>3, <2>4 DEF Goals
    <2>6. goal \in Nat /\ goal <= delay /\ delay \in Nat
      <3>1. Wrap \in Nat \ {0}
        BY ClintAssumption DEF Wrap
      <3>2. mtimecmp[h] - m \in Nat
        BY <2>4
      <3>3. delay \in Nat
        BY <1>0, <3>2
      <3> QED
        BY <3>1, <3>3, ModBounds
    <2>7. time + delay <= tick
      <3>1. tock \in Nat /\ time < (tock + 1) * scaler
        BY <2>2
      <3> HIDE DEF tock
      <3>2. (tock + 1) * scaler <= (m + 1) * scaler
        <4>1. tock + 1 \in Nat /\ m + 1 \in Nat /\ tock + 1 <= m + 1
          BY <2>a, <3>1
        <4> QED
          BY <1>0, <4>1, Scaled
      <3>3. tick = (m + 1) * scaler + delay
        BY <1>0, <2>1, <2>4 DEF tick
      <3>4. (tock + 1) * scaler \in Nat /\ (m + 1) * scaler \in Nat
        BY <1>0, <3>1
      <3> HIDE DEF delay
      <3> QED
        BY <1>0, <2>2, <2>6, <3>1, <3>2, <3>3, <3>4
    <2> HIDE DEF goal, delay
    <2>8. irq_event \cup Goals \subseteq Nat
      <3>1. irq_event \subseteq Nat
        BY DEF IInv, TypeOK, Values
      <3>2. Goals \subseteq Nat
        <4> SUFFICES ASSUME NEW g \in Harts, mtimecmp[g] > m
                     PROVE  ((mtimecmp[g] - m) * scaler) % Wrap \in Nat
          BY <2>3 DEF Goals
        <4>1. mtimecmp[g] - m \in Nat
          BY <2>3 DEF IInv, TypeOK, Values
        <4>2. (mtimecmp[g] - m) * scaler \in Nat /\ Wrap \in Nat \ {0}
          BY <1>0, <4>1, ClintAssumption DEF Wrap
        <4> QED
          BY <4>2, ModBounds
      <3> QED
        BY <3>1, <3>2
    <2>9. PICK n \in irq_event \cup Goals :
            Notified(irq_event \cup Goals) = {n} /\ \A x \in irq_event \cup Goals : n <= x
      BY <2>5, <2>8, NotifiedIs
    <2>10. n <= goal /\ n \in Nat
      BY <2>5, <2>8, <2>9
    <2>11. time' + n <= Larger(tick, Front')
      BY <1>0, <2>1, <2>2, <2>6, <2>7, <2>10 DEF Larger
    <2> QED
      BY <2>1, <2>9, <2>11
  <1>3. CASE /\ ~ run
             /\ ~ \E g, target \in Harts, half \in {"low", "high"}, v \in Halves :
                     WriteMtimecmp(g, target, half, v)
    <2>1. UNCHANGED <<mtip, mtimecmp>>
      BY <1>3, LinesStay
    <2>2. EventBy(Larger(tick, Front))
      BY <2>1 DEF Punctual, tick
    <2>3. Larger(tick, Front) \in Nat
      BY <1>0 DEF Larger
    <2>4. triggered' \/ \E e \in irq_event' : time' + e <= Larger(tick, Front)
      BY <1>3, <2>2, <2>3, EventStays
    <2>5. CASE triggered'
      BY <2>5
    <2>6. CASE \E e \in irq_event' : time' + e <= Larger(tick, Front)
      <3>1. PICK e \in irq_event' : time' + e <= Larger(tick, Front)
        BY <2>6
      <3>2. time' + e \in Nat
        <4>1. time' \in Nat /\ e \in Nat
          BY <1>0, ClintAssumption DEF TypeOK, Values
        <4> QED
          BY <4>1, Closed
      <3>3. time' + e <= Larger(tick, Front')
        BY <1>0, <3>1, <3>2 DEF Larger
      <3> QED
        BY <3>3
    <2> QED
      BY <2>4, <2>5, <2>6
  <1> QED
    BY <1>1, <1>2, <1>3

\* No timeout is lost or late, whatever the harts write ahead of time, in which order
\* their writes arrive, and although the goal is computed modulo the width.
THEOREM TimeoutsArePunctual == Spec => []Punctual
  <1>1. Init => Punctual
    BY DEF Init, Punctual
  <1> QED
    BY <1>1, NextPunctual, ClintInvariance, PTL DEF Spec

\* Every step keeps a pending interrupt due, or irq_event in time to withdraw it.
LEMMA NextDue == IInv /\ PendingIsDue /\ [Next]_vars => PendingIsDue'
  <1> SUFFICES ASSUME IInv, PendingIsDue, [Next]_vars, ~ written', NEW h \in mtip'
               PROVE  (mtimecmp[h] > 0 /\ mtimecmp[h] * scaler <= Front)' \/ EventBy(Front)'
    BY DEF PendingIsDue
  <1>0. /\ Front \in Nat /\ Front' \in Nat /\ Front <= Front' /\ TypeOK' /\ IInv'
        /\ scaler \in Nat \ {0} /\ mtip \subseteq Harts /\ mtip' \subseteq Harts
    BY NextFront, NextIInv, ClintAssumption DEF IInv, TypeOK
  <1>1. ~ written
    <2>1. ASSUME NEW g \in Harts, HartStep(g) PROVE written => written'
      BY <2>1 DEF HartStep, Instruction, ReadMtime, ReadTimeCsr, Wfi, WriteMtimecmp, WriteMsip, WriteMtime
    <2>2. run \/ Delta \/ Advance \/ UNCHANGED vars => (written => written')
      BY DEF run, Delta, Advance, vars
    <2> QED
      BY <2>1, <2>2 DEF Next
  <1>2. ASSUME NEW g \in Harts, NEW target \in Harts, NEW half \in {"low", "high"}, NEW v \in Halves,
               WriteMtimecmp(g, target, half, v)
        PROVE  EventBy(Front)'
    BY <1>2, WriteIsSeen DEF EventBy
  <1>3. CASE run
    <2>1. mtimecmp' = mtimecmp /\ h \in Lines
      BY <1>3 DEF run
    <2>2. PICK m \in Nat : m = mtime'
      BY <1>0 DEF TypeOK, Values
    <2>3. mtimecmp[h] > 0 /\ m >= mtimecmp[h] /\ mtimecmp[h] \in Nat
      BY <1>0, <2>1, <2>2 DEF Lines, IInv, TypeOK, Values
    <2>4. m * scaler <= Front'
      BY <1>0, <2>2 DEF IInv, MtimeReached
    <2>5. mtimecmp[h] * scaler <= m * scaler /\ mtimecmp[h] * scaler \in Nat /\ m * scaler \in Nat
      BY <1>0, <2>3
    <2>6. mtimecmp'[h] > 0 /\ mtimecmp'[h] * scaler <= Front'
      BY <1>0, <2>1, <2>3, <2>4, <2>5, Trans
    <2> QED
      BY <2>6
  <1>4. CASE /\ ~ run
             /\ ~ \E g, target \in Harts, half \in {"low", "high"}, v \in Halves :
                     WriteMtimecmp(g, target, half, v)
    <2>1. UNCHANGED <<mtip, mtimecmp>>
      BY <1>4, LinesStay
    <2>2. h \in mtip /\ mtimecmp[h] \in Nat
      BY <1>0, <2>1 DEF IInv, TypeOK, Values
    <2>3. CASE mtimecmp[h] > 0 /\ mtimecmp[h] * scaler <= Front
      <3>1. mtimecmp[h] * scaler \in Nat
        BY <1>0, <2>2
      <3>2. mtimecmp'[h] > 0 /\ mtimecmp'[h] * scaler <= Front'
        BY <1>0, <2>1, <2>3, <3>1
      <3> QED
        BY <3>2
    <2>4. CASE EventBy(Front)
      <3>1. triggered' \/ \E e \in irq_event' : time' + e <= Front
        BY <1>0, <1>4, <2>4, EventStays
      <3>2. ASSUME NEW e \in irq_event', time' + e <= Front PROVE time' + e <= Front'
        <4>1. time' \in Nat /\ e \in Nat
          BY <1>0, ClintAssumption DEF TypeOK, Values
        <4> QED
          BY <1>0, <3>2, <4>1, Closed, Trans
      <3> QED
        BY <3>1, <3>2 DEF EventBy
    <2> QED
      BY <1>1, <2>2, <2>3, <2>4 DEF PendingIsDue
  <1> QED
    BY <1>2, <1>3, <1>4

\* A pending timer interrupt is due, or is withdrawn by the time of the write that
\* made it stale, as long as software does not set mtime itself.
THEOREM NoEarlyInterrupt == Spec => []PendingIsDue
  <1>1. Init => PendingIsDue
    BY DEF Init, PendingIsDue
  <1> QED
    BY <1>1, NextDue, ClintInvariance, PTL DEF Spec

=============================================================================
