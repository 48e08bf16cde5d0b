----------------------------- MODULE PlicProofs -----------------------------
(***************************************************************************)
(* Theorems about the interrupt controller, for every number of sources,   *)
(* every maximal priority and, where a theorem says so, every handler.     *)
(***************************************************************************)
EXTENDS Plic, WellFoundedInduction, TLAPS

\* A non-empty set of naturals has a least element.
LEMMA Least ==
  ASSUME NEW S, S \subseteq Nat, S # {}
  PROVE  \E x \in S : \A y \in S : x <= y
  <1>1. PICK x \in S : \A y \in S : ~ (<<y, x>> \in OpToRel(<, Nat))
    BY WFMin, NatLessThanWellFounded
  <1>2. ASSUME NEW y \in S PROVE x <= y
    <2>1. x \in Nat /\ y \in Nat /\ ~ (y < x)
      BY <1>1 DEF OpToRel
    <2> QED
      BY <2>1
  <1> QED
    BY <1>2

\* A non-empty bounded set of naturals has a greatest element: its distance from
\* the bound is least.
LEMMA Greatest ==
  ASSUME NEW n \in Nat, NEW S, S \subseteq 0..n, S # {}
  PROVE  \E x \in S : \A y \in S : y <= x
  <1>1. PICK t \in {n - y : y \in S} : \A u \in {n - y : y \in S} : t <= u
    <2>1. {n - y : y \in S} # {}
      OBVIOUS
    <2>2. ASSUME NEW y \in S PROVE n - y \in Nat
      OBVIOUS
    <2>3. {n - y : y \in S} \subseteq Nat
      BY <2>2
    <2> QED
      BY <2>1, <2>3, Least
  <1>2. PICK x \in S : t = n - x
    BY <1>1
  <1>3. ASSUME NEW y \in S PROVE y <= x
    <2>1. t <= n - y /\ x \in 0..n /\ y \in 0..n
      BY <1>1
    <2> QED
      BY <1>2, <2>1
  <1> QED
    BY <1>3

\* One candidate has the highest priority and the lowest id.
LEMMA BestExists ==
  ASSUME TypeOK, NEW C, C \subseteq Sources, C # {}
  PROVE  \E i \in C : \A j \in C \ {i} :
            \/ interrupt_priorities[i] > interrupt_priorities[j]
            \/ interrupt_priorities[i] = interrupt_priorities[j] /\ i < j
  <1> DEFINE P == {interrupt_priorities[i] : i \in C}
  <1>1. \A i \in C : i \in Nat /\ interrupt_priorities[i] \in 0..MaxPriority
    BY PlicAssumption DEF TypeOK, Sources
  <1>2. PICK m \in P : \A p \in P : p <= m
    <2>1. P \subseteq 0..MaxPriority /\ P # {}
      BY <1>1
    <2> HIDE DEF P
    <2> QED
      BY <2>1, PlicAssumption, Greatest
  <1> DEFINE B == {i \in C : interrupt_priorities[i] = m}
  <1>3. PICK i \in B : \A j \in B : i <= j
    <2>1. B \subseteq Nat /\ B # {}
      BY <1>1
    <2> HIDE DEF B
    <2> QED
      BY <2>1, Least
  <1>4. ASSUME NEW j \in C \ {i}
        PROVE  \/ interrupt_priorities[i] > interrupt_priorities[j]
               \/ interrupt_priorities[i] = interrupt_priorities[j] /\ i < j
    <2>1. /\ interrupt_priorities[j] <= m /\ interrupt_priorities[i] = m
          /\ interrupt_priorities[j] \in Nat /\ m \in Nat
          /\ i \in Nat /\ j \in Nat /\ i # j
      BY <1>1, <1>2
    <2>2. interrupt_priorities[j] = m => i <= j
      BY <1>3
    <2> QED
      BY <2>1, <2>2
  <1> QED
    BY <1>4

\* The selection returns a candidate, or 0 if there is none.
LEMMA NextPending ==
  ASSUME TypeOK, NEW b \in BOOLEAN
  PROVE  /\ Candidates(b) = {} => hart_get_next_pending_interrupt(b) = 0
         /\ Candidates(b) # {} => hart_get_next_pending_interrupt(b) \in Candidates(b)
         /\ hart_get_next_pending_interrupt(b) \in Ids
  <1>1. Candidates(b) \subseteq Sources
    BY DEF Candidates, TypeOK
  <1>2. CASE Candidates(b) = {}
    BY <1>2, PlicAssumption DEF hart_get_next_pending_interrupt, Ids
  <1>3. CASE Candidates(b) # {}
    <2> DEFINE C == Candidates(b)
               Best(i) == \A j \in C \ {i} :
                  \/ interrupt_priorities[i] > interrupt_priorities[j]
                  \/ interrupt_priorities[i] = interrupt_priorities[j] /\ i < j
    <2>1. \E i \in C : Best(i)
      BY <1>1, <1>3, BestExists
    <2>2. hart_get_next_pending_interrupt(b) = CHOOSE i \in C : Best(i)
      BY <1>3 DEF hart_get_next_pending_interrupt
    <2>3. hart_get_next_pending_interrupt(b) \in C
      <3> HIDE DEF C, Best
      <3> QED
        BY <2>1, <2>2
    <2> QED
      BY <1>1, <1>3, <2>3 DEF Sources, Ids
  <1> QED
    BY <1>2, <1>3

\* The test of run and of the completion handler asks for a candidate.
LEMMA HasPending ==
  ASSUME TypeOK
  PROVE  hart_has_pending_enabled_interrupts <=> Candidates(TRUE) # {}
  <1> DEFINE C == Candidates(TRUE)
             n == hart_get_next_pending_interrupt(TRUE)
  <1>1. \A i \in C : i > 0
    BY PlicAssumption DEF Candidates, TypeOK, Sources
  <1>2. (C = {} => n = 0) /\ (C # {} => n \in C)
    BY NextPending
  <1>3. hart_has_pending_enabled_interrupts <=> n > 0
    BY DEF hart_has_pending_enabled_interrupts
  <1> HIDE DEF C, n
  <1>4. n > 0 <=> C # {}
    BY <1>1, <1>2
  <1> QED
    BY <1>3, <1>4 DEF C

-----------------------------------------------------------------------------
\* Every step keeps the registers within their types.
LEMMA NextTypeOK == TypeOK /\ [Next]_vars => TypeOK'
  <1> SUFFICES ASSUME TypeOK, [Next]_vars PROVE TypeOK'
    OBVIOUS
  <1> USE DEF config
  <1>1. ASSUME NEW i \in Sources, gateway_trigger_interrupt(i) PROVE TypeOK'
    BY <1>1 DEF gateway_trigger_interrupt, NotifyRun, TypeOK
  <1>2. CASE run
    BY <1>2 DEF run, Signal, TypeOK
  <1>3. ASSUME NEW i \in Sources, NEW v \in WrittenValues, WritePriority(i, v)
        PROVE  TypeOK'
    <2>1. Clamped(v) \in 0..MaxPriority
      BY PlicAssumption DEF Clamped, WrittenValues
    <2> QED
      BY <1>3, <2>1 DEF WritePriority, TypeOK
  <1>4. ASSUME NEW i \in Sources, NEW on \in BOOLEAN, WriteEnable(i, on)
        PROVE  TypeOK'
    BY <1>4 DEF WriteEnable, TypeOK
  <1>5. ASSUME NEW v \in WrittenValues, WriteThreshold(v) PROVE TypeOK'
    BY <1>5 DEF WriteThreshold, TypeOK
  <1>6. CASE TakeInterrupt
    BY <1>6 DEF TakeInterrupt, TypeOK
  <1>7. CASE Claim
    <2>1. hart_get_next_pending_interrupt(FALSE) \in Ids
      BY NextPending
    <2> QED
      BY <1>7, <2>1 DEF Claim, pre_read_hart_config, TypeOK
  <1>8. CASE Complete
    BY <1>8 DEF Complete, post_write_hart_config, clear_external_interrupt, TypeOK
  <1>9. CASE UNCHANGED vars
    BY <1>9 DEF vars, TypeOK
  <1> QED
    BY <1>1, <1>2, <1>3, <1>4, <1>5, <1>6, <1>7, <1>8, <1>9
       DEF Next, Devices, Configure, Handler

\* The registers have their types after reset.
LEMMA InitTypeOK == Init => TypeOK
  <1> SUFFICES ASSUME Init PROVE TypeOK
    OBVIOUS
  <1>1. 1 \in 0..MaxPriority /\ 0 \in WrittenValues /\ 0 \in Ids
    BY PlicAssumption DEF WrittenValues, Ids
  <1>2. interrupt_priorities \in [Sources -> 0..MaxPriority]
    BY <1>1 DEF Init
  <1> QED
    BY <1>1, <1>2 DEF Init, TypeOK

\* The registers keep their types and priorities never exceed MaxPriority.
THEOREM PlicTypeCorrect == Spec => []TypeOK
  BY InitTypeOK, NextTypeOK, PTL DEF Spec

\* Every step keeps hart_eip and mip.meip equal.
LEMMA NextMirrored == EipMirrored /\ [Next]_vars => EipMirrored'
  <1> SUFFICES ASSUME EipMirrored, [Next]_vars PROVE EipMirrored'
    OBVIOUS
  <1> USE DEF config, EipMirrored
  <1>1. CASE Devices
    BY <1>1 DEF Devices, gateway_trigger_interrupt
  <1>2. CASE run
    BY <1>2 DEF run, Signal, SignalsHart
  <1>3. CASE Configure
    BY <1>3 DEF Configure, WritePriority, WriteEnable, WriteThreshold
  <1>4. CASE TakeInterrupt \/ Claim
    BY <1>4 DEF TakeInterrupt, Claim
  <1>5. CASE Complete
    <2>1. CASE InterruptRemains
      BY <1>5, <2>1 DEF Complete, post_write_hart_config
    <2>2. CASE ~ InterruptRemains
      BY <1>5, <2>2 DEF Complete, post_write_hart_config, clear_external_interrupt
    <2> QED
      BY <2>1, <2>2
  <1>6. CASE UNCHANGED vars
    BY <1>6 DEF vars
  <1> QED
    BY <1>1, <1>2, <1>3, <1>4, <1>5, <1>6 DEF Next, Handler

\* hart_eip and mip.meip of the hart agree at all times, for any software.
THEOREM Mirrored == Spec => []EipMirrored
  <1>1. Init => EipMirrored
    BY DEF Init, EipMirrored
  <1> QED
    BY <1>1, NextMirrored, PTL DEF Spec

-----------------------------------------------------------------------------
(* A handler that claims once per interrupt never meets the assertion of    *)
(* post_write_hart_config: the line goes up before the handler starts and   *)
(* only its own completion takes it down.                                   *)

LineUpInHandler ==
    ~ LoopingHandler => (driver # "main" => hart_eip) /\ ~ aborted

\* Every step keeps the line up while a handler that does not loop runs.
LEMMA NextLineUp ==
  TypeOK /\ EipMirrored /\ LineUpInHandler /\ [Next]_vars => LineUpInHandler'
  <1> SUFFICES ASSUME TypeOK, EipMirrored, LineUpInHandler, [Next]_vars,
                      ~ LoopingHandler
               PROVE  (driver' # "main" => hart_eip') /\ ~ aborted'
    BY DEF LineUpInHandler
  <1>0. (driver # "main" => hart_eip) /\ ~ aborted
    BY DEF LineUpInHandler
  <1> USE DEF config
  <1>1. CASE Devices
    BY <1>0, <1>1 DEF Devices, gateway_trigger_interrupt
  <1>2. CASE run
    BY <1>0, <1>2 DEF run, Signal
  <1>3. CASE Configure
    <2>1. UNCHANGED <<driver, hart_eip, aborted>>
      BY <1>3 DEF Configure, WritePriority, WriteEnable, WriteThreshold
    <2> QED
      BY <1>0, <2>1
  <1>4. CASE TakeInterrupt
    <2>1. hart_eip
      BY <1>4, Zenon DEF TakeInterrupt, EipMirrored
    <2> QED
      BY <1>0, <1>4, <2>1 DEF TakeInterrupt
  <1>5. CASE Claim
    BY <1>0, <1>5 DEF Claim
  <1>6. CASE Complete
    BY <1>0, <1>6 DEF Complete, post_write_hart_config
  <1>7. CASE UNCHANGED vars
    BY <1>0, <1>7 DEF vars
  <1> QED
    BY <1>1, <1>2, <1>3, <1>4, <1>5, <1>6, <1>7 DEF Next, Handler

\* assert(hart_eip[idx]) holds whenever a handler that claims once per interrupt
\* completes, whatever is configured and triggered meanwhile.
THEOREM AssertionHolds == ~ LoopingHandler => (Spec => []CompleteFindsEip)
  <1>1. Init => LineUpInHandler
    BY DEF Init, LineUpInHandler
  <1>2. Spec => []LineUpInHandler
    BY <1>1, PlicTypeCorrect, Mirrored, NextLineUp, PTL DEF Spec
  <1>3. CASE ~ LoopingHandler
    <2>1. LineUpInHandler => CompleteFindsEip
      BY <1>3 DEF LineUpInHandler, CompleteFindsEip
    <2> QED
      BY <1>2, <2>1, PTL
  <1> QED
    BY <1>3

-----------------------------------------------------------------------------
(* No wakeup is lost as long as the software does not reconfigure a source  *)
(* that is pending.                                                         *)

\* Steps that leave the configuration alone and make nothing pending leave no
\* new candidate.
LEMMA FewerCandidates ==
  ASSUME UNCHANGED config, pending' \subseteq pending
  PROVE  Candidates(TRUE)' \subseteq Candidates(TRUE)
  BY DEF config, Candidates

\* A quiet configuration access leaves the candidates as they are.
LEMMA QuietCandidates ==
  ASSUME TypeOK, QuietConfig, Configure
  PROVE  Candidates(TRUE)' \subseteq Candidates(TRUE)
  <1>1. ASSUME NEW i \in Sources, NEW v \in WrittenValues, WritePriority(i, v)
        PROVE  Candidates(TRUE)' \subseteq Candidates(TRUE)
    <2>1. /\ i \notin pending
          /\ UNCHANGED <<priority_threshold, hart_enabled, pending>>
          /\ interrupt_priorities' = [interrupt_priorities EXCEPT ![i] = Clamped(v)]
      BY <1>1 DEF WritePriority, MayConfigure
    <2>2. \A j \in pending : interrupt_priorities'[j] = interrupt_priorities[j]
      BY <2>1 DEF TypeOK
    <2> QED
      BY <2>1, <2>2 DEF Candidates
  <1>2. ASSUME NEW i \in Sources, NEW on \in BOOLEAN, WriteEnable(i, on)
        PROVE  Candidates(TRUE)' \subseteq Candidates(TRUE)
    BY <1>2 DEF WriteEnable, MayConfigure, Candidates
  <1>3. ASSUME NEW v \in WrittenValues, WriteThreshold(v)
        PROVE  Candidates(TRUE)' \subseteq Candidates(TRUE)
    BY <1>3 DEF WriteThreshold, MayConfigure, Candidates, TypeOK
  <1> QED
    BY <1>1, <1>2, <1>3 DEF Configure

\* Every step keeps an interrupt the hart should see signalled or scheduled.
LEMMA NextNoMissed ==
  ASSUME QuietConfig, TypeOK, NoMissedSignal, [Next]_vars
  PROVE  NoMissedSignal'
  <1>1. CASE Devices
    BY <1>1 DEF Devices, gateway_trigger_interrupt, NotifyRun, NoMissedSignal
  <1>2. CASE run
    <2>1. CASE SignalsHart
      BY <1>2, <2>1 DEF run, Signal, NoMissedSignal
    <2>2. CASE ~ SignalsHart
      <3>1. hart_eip' = hart_eip /\ Candidates(TRUE)' \subseteq Candidates(TRUE)
        BY <1>2, <2>2, FewerCandidates DEF run
      <3>2. hart_eip \/ Candidates(TRUE) = {}
        BY <2>2, HasPending DEF SignalsHart
      <3> QED
        BY <3>1, <3>2 DEF NoMissedSignal
    <2> QED
      BY <2>1, <2>2
  <1>3. CASE Configure
    <2>1. UNCHANGED <<hart_eip, e_run>>
      BY <1>3 DEF Configure, WritePriority, WriteEnable, WriteThreshold
    <2> QED
      BY <1>3, <2>1, QuietCandidates DEF NoMissedSignal
  <1>4. CASE TakeInterrupt
    <2>1. UNCHANGED <<hart_eip, e_run>> /\ Candidates(TRUE)' \subseteq Candidates(TRUE)
      BY <1>4, FewerCandidates DEF TakeInterrupt
    <2> QED
      BY <2>1 DEF NoMissedSignal
  <1>5. CASE Claim
    <2>1. UNCHANGED <<hart_eip, e_run>> /\ Candidates(TRUE)' \subseteq Candidates(TRUE)
      BY <1>5, FewerCandidates DEF Claim, pre_read_hart_config
    <2> QED
      BY <2>1 DEF NoMissedSignal
  <1>6. CASE Complete
    <2>1. e_run' = e_run /\ Candidates(TRUE)' \subseteq Candidates(TRUE)
      BY <1>6, FewerCandidates DEF Complete
    <2>2. CASE InterruptRemains
      <3>1. hart_eip' = hart_eip
        BY <1>6, <2>2 DEF Complete, post_write_hart_config
      <3> QED
        BY <2>1, <3>1 DEF NoMissedSignal
    <2>3. CASE ~ InterruptRemains
      <3>1. Candidates(TRUE) = {}
        BY <2>3, HasPending DEF InterruptRemains
      <3> QED
        BY <2>1, <3>1 DEF NoMissedSignal
    <2> QED
      BY <2>2, <2>3
  <1>7. CASE UNCHANGED vars
    <2>1. UNCHANGED <<hart_eip, e_run>> /\ Candidates(TRUE)' \subseteq Candidates(TRUE)
      BY <1>7, FewerCandidates DEF vars, config
    <2> QED
      BY <2>1 DEF NoMissedSignal
  <1> QED
    BY <1>1, <1>2, <1>3, <1>4, <1>5, <1>6, <1>7 DEF Next, Handler

\* With a quiet configuration no interrupt the hart should see is ever left
\* without a raised line or a scheduled run.
THEOREM NoLostWakeup == QuietConfig => (Spec => []NoMissedSignal)
  <1>1. Init => NoMissedSignal
    BY DEF Init, NoMissedSignal, Candidates
  <1>2. CASE QuietConfig
    <2>1. TypeOK /\ NoMissedSignal /\ [Next]_vars => NoMissedSignal'
      BY <1>2, NextNoMissed
    <2> QED
      BY <1>1, <2>1, PlicTypeCorrect, PTL DEF Spec
  <1> QED
    BY <1>2

-----------------------------------------------------------------------------
(* No spurious interrupt: from the moment the line goes up until the        *)
(* handler claims, there is something to claim.  It is kept by the claim,   *)
(* which ignores the threshold, and by software that leaves pending sources *)
(* alone.                                                                   *)

RaisedForSomething ==
    hart_eip /\ driver # "claimed" => Candidates(FALSE) # {}

\* A candidate stays one while it is pending and its source is not configured.
LEMMA KeptCandidates ==
  ASSUME UNCHANGED config, pending \subseteq pending'
  PROVE  Candidates(FALSE) \subseteq Candidates(FALSE)'
  BY DEF config, Candidates

\* A quiet configuration access takes away no candidate.
LEMMA QuietKeeps ==
  ASSUME TypeOK, QuietConfig, Configure
  PROVE  Candidates(FALSE) \subseteq Candidates(FALSE)'
  <1>1. ASSUME NEW i \in Sources, NEW v \in WrittenValues, WritePriority(i, v)
        PROVE  Candidates(FALSE) \subseteq Candidates(FALSE)'
    <2>1. /\ i \notin pending
          /\ UNCHANGED <<priority_threshold, hart_enabled, pending>>
          /\ interrupt_priorities' = [interrupt_priorities EXCEPT ![i] = Clamped(v)]
      BY <1>1 DEF WritePriority, MayConfigure
    <2>2. \A j \in pending : interrupt_priorities'[j] = interrupt_priorities[j]
      BY <2>1 DEF TypeOK
    <2> QED
      BY <2>1, <2>2 DEF Candidates
  <1>2. ASSUME NEW i \in Sources, NEW on \in BOOLEAN, WriteEnable(i, on)
        PROVE  Candidates(FALSE) \subseteq Candidates(FALSE)'
    BY <1>2 DEF WriteEnable, MayConfigure, Candidates
  <1>3. ASSUME NEW v \in WrittenValues, WriteThreshold(v)
        PROVE  Candidates(FALSE) \subseteq Candidates(FALSE)'
    BY <1>3 DEF WriteThreshold, Candidates
  <1> QED
    BY <1>1, <1>2, <1>3 DEF Configure

\* Every step keeps a raised line justified until the claim.
LEMMA NextRaised ==
  ASSUME QuietConfig, ~ LoopingHandler, TypeOK, LineUpInHandler, RaisedForSomething,
         [Next]_vars
  PROVE  RaisedForSomething'
  <1>0. Candidates(TRUE) \subseteq Candidates(FALSE)
    BY DEF Candidates
  <1>1. CASE Devices
    <2>1. UNCHANGED <<hart_eip, driver>> /\ Candidates(FALSE) \subseteq Candidates(FALSE)'
      BY <1>1, KeptCandidates DEF Devices, gateway_trigger_interrupt
    <2> QED
      BY <2>1 DEF RaisedForSomething
  <1>2. CASE run
    <2>1. driver' = driver /\ Candidates(FALSE) \subseteq Candidates(FALSE)'
      BY <1>2, KeptCandidates DEF run
    <2>2. CASE SignalsHart
      <3>1. Candidates(TRUE) # {}
        BY <2>2, HasPending DEF SignalsHart
      <3> QED
        BY <1>0, <2>1, <3>1 DEF RaisedForSomething
    <2>3. CASE ~ SignalsHart
      <3>1. hart_eip' = hart_eip
        BY <1>2, <2>3 DEF run
      <3> QED
        BY <2>1, <3>1 DEF RaisedForSomething
    <2> QED
      BY <2>2, <2>3
  <1>3. CASE Configure
    <2>1. UNCHANGED <<hart_eip, driver>>
      BY <1>3 DEF Configure, WritePriority, WriteEnable, WriteThreshold
    <2> QED
      BY <1>3, <2>1, QuietKeeps DEF RaisedForSomething
  <1>4. CASE TakeInterrupt
    <2>1. /\ hart_eip' = hart_eip /\ driver = "main"
          /\ Candidates(FALSE) \subseteq Candidates(FALSE)'
      BY <1>4, KeptCandidates DEF TakeInterrupt
    <2> QED
      BY <2>1 DEF RaisedForSomething
  <1>5. CASE Claim
    <2>1. hart_eip /\ driver = "handler"
      BY <1>5 DEF Claim, LineUpInHandler
    <2>2. hart_get_next_pending_interrupt(FALSE) \in Candidates(FALSE)
      BY <2>1, NextPending DEF RaisedForSomething
    <2>3. hart_get_next_pending_interrupt(FALSE) # 0
      <3>1. Candidates(FALSE) \subseteq Sources
        BY DEF Candidates, TypeOK
      <3>2. 0 \notin Sources
        BY PlicAssumption DEF Sources
      <3> QED
        BY <2>2, <3>1, <3>2
    <2>4. driver' = "claimed"
      BY <1>5, <2>3 DEF Claim, pre_read_hart_config
    <2> QED
      BY <2>4 DEF RaisedForSomething
  <1>6. CASE Complete
    <2>1. Candidates(FALSE) \subseteq Candidates(FALSE)'
      BY <1>6, KeptCandidates DEF Complete
    <2>2. CASE InterruptRemains
      <3>1. Candidates(TRUE) # {}
        BY <2>2, HasPending DEF InterruptRemains
      <3> QED
        BY <1>0, <2>1, <3>1 DEF RaisedForSomething
    <2>3. CASE ~ InterruptRemains
      <3>1. hart_eip' = FALSE
        BY <1>6, <2>3 DEF Complete, post_write_hart_config
      <3> QED
        BY <3>1 DEF RaisedForSomething
    <2> QED
      BY <2>2, <2>3
  <1>7. CASE UNCHANGED vars
    <2>1. UNCHANGED <<hart_eip, driver>> /\ Candidates(FALSE) \subseteq Candidates(FALSE)'
      BY <1>7, KeptCandidates DEF vars, config
    <2> QED
      BY <2>1 DEF RaisedForSomething
  <1> QED
    BY <1>1, <1>2, <1>3, <1>4, <1>5, <1>6, <1>7 DEF Next, Handler

\* A handler that claims once per interrupt always finds one to claim, if the
\* software configures no source that is pending: the line goes up only for a
\* candidate, and nothing takes the last one away before the claim.
THEOREM NothingSpurious ==
  QuietConfig /\ ~ LoopingHandler => (Spec => []NoSpuriousInterrupt)
  <1>1. Init => RaisedForSomething /\ LineUpInHandler
    BY DEF Init, RaisedForSomething, LineUpInHandler
  <1>2. Spec => []LineUpInHandler
    BY <1>1, PlicTypeCorrect, Mirrored, NextLineUp, PTL DEF Spec
  <1>3. CASE QuietConfig /\ ~ LoopingHandler
    <2>1. TypeOK /\ LineUpInHandler /\ RaisedForSomething /\ [Next]_vars
            => RaisedForSomething'
      BY <1>3, NextRaised
    <2>2. LineUpInHandler /\ RaisedForSomething => NoSpuriousInterrupt
      BY <1>3 DEF LineUpInHandler, RaisedForSomething, NoSpuriousInterrupt
    <2> QED
      BY <1>1, <1>2, <2>1, <2>2, PlicTypeCorrect, PTL DEF Spec
  <1> QED
    BY <1>3

=============================================================================
