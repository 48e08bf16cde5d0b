------------------------- MODULE AbstractUartProofs -------------------------
(***************************************************************************)
(* Theorems about AbstractUart for any FIFO depth, any number of bytes,    *)
(* any burst of the device and any watermarks: the semaphores agree with   *)
(* the FIFOs, both directions implement ByteChannel, what the software has *)
(* read stays true, and no watermark interrupt is lost.                    *)
(***************************************************************************)
EXTENDS MCAbstractUart, SequenceTheorems, TLAPS

\* What the first byte of a queue and the rest of it are.
LEMMA Popped ==
  ASSUME NEW S, NEW s \in Seq(S), s # <<>>
  PROVE  /\ Oldest(s) \in S /\ Tail(s) \in Seq(S)
         /\ Len(s) \in Nat \ {0} /\ Len(Tail(s)) = Len(s) - 1
  BY HeadTailProperties, EmptySeq DEF Oldest

\* What a byte more makes of a queue.
LEMMA Pushed ==
  ASSUME NEW S, NEW s \in Seq(S), NEW e \in S
  PROVE  /\ Append(s, e) \in Seq(S) /\ Append(s, e) # <<>>
         /\ Len(s) \in Nat /\ Len(Append(s, e)) = Len(s) + 1
  BY AppendProperties, LenProperties

-----------------------------------------------------------------------------
(* The inductive invariant.                                                *)

\* stop_threads runs after the simulation: no callback is under way.
Stopping == /\ stop <=> main # "run"
            /\ main # "run" => kernel = "idle" /\ known = {}

\* handle_input pushes no more bytes than the bound allows.
WithinBound ==
    /\ rcvthr \in {"push", "lock", "notify"} => todo >= 1
    /\ rcvthr \in {"push", "lock"} => nrx + todo <= MaxRx
    /\ rcvthr = "notify" => nrx + todo - 1 <= MaxRx

\* Slots of the receive FIFO, with the one that stop_threads opens.
Slots == IF main \in {"join_rx", "joined"} THEN Depth + 1 ELSE Depth

\* txfull counts the bytes that nobody has claimed and that are posted; rxempty
\* the slots that nobody has claimed.
TxCounted == ~ stop => Len(tx_fifo) = txfull + (IF kernel = "txpost" THEN 1 ELSE 0)
                                             + (IF txthr = "take" THEN 1 ELSE 0)
RxCounted == Len(rx_fifo) + rxempty + (IF rcvthr = "lock" THEN 1 ELSE 0) = Slots

IInv == TypeOK /\ Stopping /\ WithinBound /\ TxCounted /\ RxCounted

\* A transmit thread that was let through finds a byte, unless it is to stop.
LEMMA TakeFindsByte ==
  ASSUME IInv, txthr = "take", ~ stop
  PROVE  tx_fifo # <<>> /\ Len(tx_fifo) > 0
  <1>1. Len(tx_fifo) >= 1
    BY DEF IInv, TypeOK, TxCounted
  <1> QED
    BY <1>1, EmptySeq

-----------------------------------------------------------------------------
(* The initial state satisfies it, and so does every step's result.        *)

\* It holds before the threads start.
LEMMA InitIInv == Init => IInv
  <1> SUFFICES ASSUME Init PROVE IInv
    OBVIOUS
  <1> USE UartAssumption
  <1>1. TypeOK
    <2>1. tx_fifo \in Seq(1..MaxTx) /\ rx_fifo \in Seq(1..MaxRx)
      BY EmptySeq DEF Init
    <2>2. cnt \in [Watermarks -> 0..MaxCnt]
      BY DEF Init
    <2>3. {ntx, nout} \subseteq 0..MaxTx /\ {nrx, nread} \subseteq 0..MaxRx
      BY DEF Init
    <2>4. txfull \in Nat /\ rxempty \in Nat /\ txbyte \in 0..MaxTx /\ todo \in 0..Burst
      BY DEF Init
    <2>5. signalled \subseteq Watermarks /\ known \subseteq Facts /\ ie \subseteq Watermarks
      BY DEF Init
    <2>6. async \in BOOLEAN /\ trigger \in BOOLEAN /\ stop \in BOOLEAN /\ stop_pipe \in BOOLEAN
      BY DEF Init
    <2> QED
      BY <2>1, <2>2, <2>3, <2>4, <2>5, <2>6 DEF Init, TypeOK
  <1>2. Stopping /\ WithinBound
    BY DEF Init, Stopping, WithinBound
  <1>3. Len(tx_fifo) = 0 /\ Len(rx_fifo) = 0
    BY EmptySeq DEF Init
  <1>4. TxCounted /\ RxCounted
    BY <1>3 DEF Init, TxCounted, RxCounted, Slots
  <1> QED
    BY <1>1, <1>2, <1>4 DEF IInv

\* Every step preserves it.
LEMMA NextIInv == IInv /\ [Next]_vars => IInv'
  <1> SUFFICES ASSUME IInv, [Next]_vars PROVE IInv'
    OBVIOUS
  <1> USE UartAssumption DEF IInv, kernelVars, txVars, rxVars, stopVars, Idle
  <1>1. CASE ReadTxdata
    BY <1>1 DEF ReadTxdata, Facts, TypeOK, Stopping, WithinBound, TxCounted, RxCounted, Slots
  <1>2. CASE ReadRxdata
    <2>1. /\ Oldest(rx_fifo) \in 1..MaxRx /\ Tail(rx_fifo) \in Seq(1..MaxRx)
          /\ Len(rx_fifo) \in Nat \ {0} /\ Len(Tail(rx_fifo)) = Len(rx_fifo) - 1
      BY <1>2, Popped DEF ReadRxdata, TypeOK
    <2>2. TypeOK'
      BY <1>2, <2>1 DEF ReadRxdata, Forget, TypeOK
    <2>3. Stopping' /\ WithinBound' /\ TxCounted'
      BY <1>2 DEF ReadRxdata, Forget, Stopping, WithinBound, TxCounted
    <2>4. RxCounted'
      <3>1. /\ Len(rx_fifo') = Len(rx_fifo) - 1 /\ rxempty' = rxempty + 1
            /\ rxempty \in Nat /\ Len(rx_fifo) \in Nat /\ UNCHANGED <<rcvthr, main>>
        BY <1>2, <2>1 DEF ReadRxdata, TypeOK
      <3> QED
        BY <3>1 DEF RxCounted, Slots
    <2> QED
      BY <2>2, <2>3, <2>4
  <1>3. CASE ReadIpTx
    BY <1>3 DEF ReadIpTx, Facts, Watermarks, TypeOK, Stopping, WithinBound, TxCounted, RxCounted, Slots
  <1>4. CASE WriteTxdata
    <2>1. CASE Len(tx_fifo) < Depth
      <3>1. ntx + 1 \in 1..MaxTx /\ tx_fifo \in Seq(1..MaxTx)
        BY <1>4 DEF WriteTxdata, TypeOK
      <3> DEFINE q == Append(tx_fifo, ntx + 1)
      <3>2. q \in Seq(1..MaxTx) /\ Len(q) = Len(tx_fifo) + 1 /\ Len(tx_fifo) \in Nat
        BY <3>1, Pushed
      <3>3. tx_fifo' = q /\ ntx' = ntx + 1 /\ kernel' = "txpost"
        BY <1>4, <2>1 DEF WriteTxdata
      <3> HIDE DEF q
      <3>4. TypeOK'
        <4>1. ntx' \in 0..MaxTx /\ tx_fifo' \in Seq(1..MaxTx)
          BY <3>1, <3>2, <3>3
        <4> QED
          BY <1>4, <3>3, <4>1 DEF WriteTxdata, Forget, TypeOK
      <3>5. Stopping' /\ WithinBound' /\ RxCounted'
        BY <1>4 DEF WriteTxdata, Forget, Stopping, WithinBound, RxCounted, Slots
      <3>6. TxCounted'
        <4>1. /\ Len(tx_fifo') = Len(tx_fifo) + 1 /\ txfull \in Nat
              /\ kernel = "idle" /\ kernel' = "txpost" /\ UNCHANGED <<txfull, txthr, stop>>
          BY <1>4, <3>2, <3>3 DEF WriteTxdata, TypeOK
        <4> QED
          BY <3>2, <4>1 DEF TxCounted
      <3> QED
        BY <3>4, <3>5, <3>6
    <2>2. CASE ~ (Len(tx_fifo) < Depth)
      BY <1>4, <2>2 DEF WriteTxdata, FullIsIgnored, Forget, TypeOK, Stopping, WithinBound,
                       TxCounted, RxCounted, Slots
    <2> QED
      BY <2>1, <2>2
  <1>5. ASSUME NEW w \in Watermarks, NEW v \in 0..MaxCnt, WriteCtrl(w, v) PROVE IInv'
    BY <1>5 DEF WriteCtrl, Forget, TypeOK, Stopping, WithinBound, TxCounted, RxCounted, Slots
  <1>6. ASSUME NEW e \in SUBSET Watermarks, WriteIe(e) PROVE IInv'
    BY <1>6 DEF WriteIe, Forget, TypeOK, Stopping, WithinBound, TxCounted, RxCounted, Slots
  <1>7. CASE ReadIpRx
    BY <1>7 DEF ReadIpRx, Facts, Watermarks, TypeOK, Stopping, WithinBound, TxCounted, RxCounted, Slots
  <1>8. CASE PostTxfull
    BY <1>8 DEF PostTxfull, spost, TypeOK, Stopping, WithinBound, TxCounted, RxCounted, Slots
  <1>9. CASE InterruptRx
    BY <1>9 DEF InterruptRx, TypeOK, Stopping, WithinBound, TxCounted, RxCounted, Slots
  <1>10. CASE InterruptTx
    BY <1>10 DEF InterruptTx, TypeOK, Stopping, WithinBound, TxCounted, RxCounted, Slots
  <1>11. CASE TxCheck
    BY <1>11 DEF TxCheck, TypeOK, Stopping, WithinBound, TxCounted, RxCounted, Slots
  <1>12. CASE TxWait
    BY <1>12 DEF TxWait, TypeOK, Stopping, WithinBound, TxCounted, RxCounted, Slots
  <1>13. CASE TxTake
    <2>1. CASE stop
      BY <1>13, <2>1 DEF TxTake, TypeOK, Stopping, WithinBound, TxCounted, RxCounted, Slots
    <2>2. CASE ~ stop
      <3>1. tx_fifo # <<>>
        BY <1>13, <2>2, TakeFindsByte DEF TxTake
      <3>2. /\ Oldest(tx_fifo) \in 1..MaxTx /\ Tail(tx_fifo) \in Seq(1..MaxTx)
            /\ Len(tx_fifo) \in Nat \ {0} /\ Len(Tail(tx_fifo)) = Len(tx_fifo) - 1
        BY <3>1, Popped DEF TypeOK
      <3>3. tx_fifo' = Tail(tx_fifo) /\ txbyte' = Oldest(tx_fifo) /\ txthr' = "notify"
        BY <1>13, <2>2 DEF TxTake
      <3>4. TypeOK'
        BY <1>13, <3>2, <3>3 DEF TxTake, TypeOK
      <3>5. Stopping' /\ WithinBound' /\ RxCounted'
        BY <1>13 DEF TxTake, Stopping, WithinBound, RxCounted, Slots
      <3>6. TxCounted'
        <4>1. Len(tx_fifo') = Len(tx_fifo) - 1
          BY <3>2, <3>3
        <4>2. txfull \in Nat /\ txthr = "take" /\ UNCHANGED <<txfull, kernel, stop>>
          BY <1>13 DEF TxTake, TypeOK
        <4>3. Len(tx_fifo) = txfull + (IF kernel = "txpost" THEN 1 ELSE 0) + 1
          BY <2>2, <4>2 DEF TxCounted
        <4> QED
          BY <3>2, <3>3, <4>1, <4>2, <4>3 DEF TxCounted
      <3> QED
        BY <3>4, <3>5, <3>6
    <2> QED
      BY <2>1, <2>2
  <1>14. CASE TxNotify
    BY <1>14 DEF TxNotify, TypeOK, Stopping, WithinBound, TxCounted, RxCounted, Slots
  <1>15. CASE TxWrite
    BY <1>15 DEF TxWrite, TypeOK, Stopping, WithinBound, TxCounted, RxCounted, Slots
  <1>16. CASE RxCheck
    BY <1>16 DEF RxCheck, TypeOK, Stopping, WithinBound, TxCounted, RxCounted, Slots
  <1>17. CASE PollStop
    BY <1>17 DEF PollStop, TypeOK, Stopping, WithinBound, TxCounted, RxCounted, Slots
  <1>18. CASE PollInput
    BY <1>18 DEF PollInput, TypeOK, Stopping, WithinBound, TxCounted, RxCounted, Slots
  <1>19. CASE RxWait
    BY <1>19 DEF RxWait, SlotFree, TypeOK, Stopping, WithinBound, TxCounted, RxCounted, Slots
  <1>20. CASE RxPush
    <2>1. nrx + 1 \in 1..MaxRx /\ rx_fifo \in Seq(1..MaxRx)
      BY <1>20 DEF RxPush, TypeOK, WithinBound
    <2> DEFINE q == Append(rx_fifo, nrx + 1)
    <2>2. q \in Seq(1..MaxRx) /\ Len(q) = Len(rx_fifo) + 1 /\ Len(rx_fifo) \in Nat
      BY <2>1, Pushed
    <2>3. rx_fifo' = q
      BY <1>20 DEF RxPush
    <2> HIDE DEF q
    <2>4. TypeOK'
      BY <1>20, <2>1, <2>2, <2>3 DEF RxPush, TypeOK
    <2>5. Stopping' /\ TxCounted' /\ WithinBound'
      BY <1>20 DEF RxPush, Stopping, WithinBound, TxCounted, TypeOK
    <2>6. RxCounted'
      BY <1>20, <2>2, <2>3 DEF RxPush, RxCounted, Slots, TypeOK
    <2> QED
      BY <2>4, <2>5, <2>6
  <1>21. CASE RxNotify
    BY <1>21 DEF RxNotify, TypeOK, Stopping, WithinBound, TxCounted, RxCounted, Slots
  <1>22. CASE StopBegin
    BY <1>22 DEF StopBegin, TypeOK, Stopping, WithinBound, TxCounted, RxCounted, Slots
  <1>23. CASE StopPostTx
    BY <1>23 DEF StopPostTx, spost, TypeOK, Stopping, WithinBound, TxCounted, RxCounted, Slots
  <1>24. CASE StopJoinTx
    BY <1>24 DEF StopJoinTx, TypeOK, Stopping, WithinBound, TxCounted, RxCounted, Slots
  <1>25. CASE StopWritePipe
    BY <1>25 DEF StopWritePipe, TypeOK, Stopping, WithinBound, TxCounted, RxCounted, Slots
  <1>26. CASE StopPostRx
    BY <1>26 DEF StopPostRx, PostForStop, TypeOK, Stopping, WithinBound, TxCounted, RxCounted, Slots
  <1>27. CASE StopJoinRx
    BY <1>27 DEF StopJoinRx, TypeOK, Stopping, WithinBound, TxCounted, RxCounted, Slots
  <1>28. CASE UNCHANGED vars
    BY <1>28 DEF vars, TypeOK, Stopping, WithinBound, TxCounted, RxCounted, Slots
  <1> QED
    BY <1>1, <1>2, <1>3, <1>4, <1>5, <1>6, <1>7, <1>8, <1>9, <1>10, <1>11, <1>12, <1>13, <1>14,
       <1>15, <1>16, <1>17, <1>18, <1>19, <1>20, <1>21, <1>22, <1>23, <1>24, <1>25, <1>26, <1>27, <1>28
       DEF Next, Software, Kernel, Transmit, Receive, StopThreads

\* IInv is an invariant.
THEOREM UartInvariance == Spec => []IInv
  <1>1. Init => IInv
    BY InitIInv
  <1>2. IInv /\ [Next]_vars => IInv'
    BY NextIInv
  <1> QED
    BY <1>1, <1>2, PTL DEF Spec

\* Every variable keeps its type; in particular no semaphore goes below zero and
\* front() of the transmit FIFO returns a byte that was sent.
THEOREM UartTypeCorrect == Spec => []TypeOK
  <1>1. IInv => TypeOK
    BY DEF IInv
  <1> QED
    BY <1>1, UartInvariance, PTL

\* The semaphores agree with the FIFOs in every state between start_threads and
\* stop_threads.
THEOREM SemaphoresCounted == Spec => []SemaphoresMatchFifos
  <1>1. IInv => SemaphoresMatchFifos
    BY DEF IInv, TypeOK, Stopping, TxCounted, RxCounted, Slots, SemaphoresMatchFifos
  <1> QED
    BY <1>1, UartInvariance, PTL

-----------------------------------------------------------------------------
(* What the software has read.                                             *)

\* The transmit thread only makes room, the receive thread only fills.
LEMMA NextKnowledge == IInv /\ KnowledgeIsStable /\ [Next]_vars => KnowledgeIsStable'
  <1> SUFFICES ASSUME IInv, KnowledgeIsStable, [Next]_vars PROVE KnowledgeIsStable'
    OBVIOUS
  <1> USE DEF kernelVars, txVars, rxVars, stopVars, KnowledgeIsStable
  <1>1. CASE known' = {}
    BY <1>1
  <1>2. CASE UNCHANGED <<known, tx_fifo, rx_fifo, cnt>>
    BY <1>2 DEF Holds, Reached
  <1>3. CASE ReadTxdata
    BY <1>3 DEF ReadTxdata, HasSpace, Holds
  <1>4. CASE ReadIpTx
    BY <1>4 DEF ReadIpTx, Holds, Reached
  <1>5. CASE ReadIpRx
    BY <1>5 DEF ReadIpRx, Holds, Reached
  <1>6. CASE TxTake /\ ~ stop
    <2>1. tx_fifo # <<>> /\ tx_fifo \in Seq(1..MaxTx)
      BY <1>6, TakeFindsByte DEF TxTake, IInv, TypeOK
    <2>2. Len(tx_fifo) \in Nat \ {0} /\ Len(Tail(tx_fifo)) = Len(tx_fifo) - 1
      BY <2>1, Popped
    <2>3. Len(tx_fifo') = Len(tx_fifo) - 1 /\ UNCHANGED <<known, rx_fifo, cnt>>
      BY <1>6, <2>2 DEF TxTake
    <2>4. Depth \in Nat /\ cnt["tx"] \in Nat
      BY UartAssumption DEF IInv, TypeOK, Watermarks
    <2> QED
      BY <2>2, <2>3, <2>4 DEF Holds, Reached
  <1>7. CASE RxPush
    <2>1. nrx + 1 \in 1..MaxRx /\ rx_fifo \in Seq(1..MaxRx)
      BY <1>7, UartAssumption DEF RxPush, IInv, TypeOK, WithinBound
    <2>2. Len(rx_fifo) \in Nat /\ Len(Append(rx_fifo, nrx + 1)) = Len(rx_fifo) + 1
      BY <2>1, Pushed
    <2>3. Len(rx_fifo') = Len(rx_fifo) + 1 /\ UNCHANGED <<known, tx_fifo, cnt>>
      BY <1>7, <2>2 DEF RxPush
    <2>4. cnt["rx"] \in Nat
      BY UartAssumption DEF IInv, TypeOK, Watermarks
    <2> QED
      BY <2>2, <2>3, <2>4 DEF Holds, Reached
  <1>8. Software \/ StopBegin => known' = {} \/ ReadTxdata \/ ReadIpTx
    BY DEF Software, StopBegin, ReadRxdata, WriteTxdata, WriteCtrl, WriteIe, Forget
  <1>9. Kernel => ReadIpRx \/ UNCHANGED <<known, tx_fifo, rx_fifo, cnt>>
    BY DEF Kernel, PostTxfull, InterruptRx, InterruptTx
  <1>10. Transmit => (TxTake /\ ~ stop) \/ UNCHANGED <<known, tx_fifo, rx_fifo, cnt>>
    BY DEF Transmit, TxCheck, TxWait, TxTake, TxNotify, TxWrite
  <1>11. Receive => RxPush \/ UNCHANGED <<known, tx_fifo, rx_fifo, cnt>>
    BY DEF Receive, RxCheck, PollStop, PollInput, RxWait, RxNotify
  <1>12. StopThreads \/ UNCHANGED vars => UNCHANGED <<known, tx_fifo, rx_fifo, cnt>>
    BY DEF StopThreads, StopPostTx, StopJoinTx, StopWritePipe, StopPostRx, StopJoinRx, vars
  <1> QED
    BY <1>1, <1>2, <1>3, <1>4, <1>5, <1>6, <1>7, <1>8, <1>9, <1>10, <1>11, <1>12 DEF Next

\* A bit of ip or a "not full" that the software read holds until its own next
\* access, whatever the threads do meanwhile.
THEOREM Knowledge == Spec => []KnowledgeIsStable
  <1>1. Init => KnowledgeIsStable
    BY DEF Init, KnowledgeIsStable
  <1>2. IInv /\ KnowledgeIsStable /\ [Next]_vars => KnowledgeIsStable'
    BY NextKnowledge
  <1> QED
    BY <1>1, <1>2, UartInvariance, PTL DEF Spec

-----------------------------------------------------------------------------
(* Watermark interrupts.                                                   *)

\* Every step keeps every reached and enabled watermark taken care of, when txctrl
\* is written only while its interrupt is disabled.
LEMMA NextCovered == CntBeforeIe /\ IInv /\ NoLostInterrupt /\ [Next]_vars => NoLostInterrupt'
  <1> SUFFICES ASSUME CntBeforeIe, IInv, NoLostInterrupt, [Next]_vars PROVE NoLostInterrupt'
    OBVIOUS
  <1> USE DEF kernelVars, txVars, rxVars, stopVars, Idle
  <1>0. /\ ie' \subseteq Watermarks /\ ie \subseteq Watermarks
        /\ Len(tx_fifo) \in Nat /\ Len(rx_fifo) \in Nat /\ cnt["tx"] \in Nat /\ cnt["rx"] \in Nat
    <2>1. TypeOK /\ TypeOK'
      BY NextIInv DEF IInv
    <2>2. tx_fifo \in Seq(1..MaxTx) /\ rx_fifo \in Seq(1..MaxRx)
      BY <2>1 DEF TypeOK
    <2>3. Len(tx_fifo) \in Nat /\ Len(rx_fifo) \in Nat
      BY <2>2
    <2>4. cnt["tx"] \in Nat /\ cnt["rx"] \in Nat
      BY <2>1, UartAssumption DEF TypeOK, Watermarks
    <2> QED
      BY <2>1, <2>3, <2>4 DEF TypeOK
  <1>1. CASE async' = TRUE
    BY <1>1 DEF NoLostInterrupt
  <1>2. CASE main' # "run"
    BY <1>2 DEF NoLostInterrupt
  <1>3. CASE UNCHANGED <<main, ie, cnt, tx_fifo, rx_fifo, signalled, async, rcvthr, txthr, trigger, kernel>>
    BY <1>3 DEF NoLostInterrupt, Reached
  <1>4. CASE ReadRxdata
    <2>1. /\ Len(rx_fifo') = Len(rx_fifo) - 1
      BY <1>4, Popped DEF ReadRxdata, IInv, TypeOK
    <2>2. UNCHANGED <<main, ie, cnt, tx_fifo, async, rcvthr, txthr, trigger, kernel>>
      BY <1>4 DEF ReadRxdata
    <2>3. ASSUME NEW w \in ie, Reached(w)' PROVE Reached(w)
      BY <1>0, <2>1, <2>2, <2>3 DEF Reached
    <2>4. signalled' = {w \in signalled : w \in ie' /\ Reached(w)'}
      BY <1>4 DEF ReadRxdata, Forget
    <2> QED
      BY <2>2, <2>3, <2>4 DEF NoLostInterrupt
  <1>5. CASE WriteTxdata
    <2>1. Len(tx_fifo') >= Len(tx_fifo)
      <3>1. ntx + 1 \in 1..MaxTx /\ tx_fifo \in Seq(1..MaxTx)
        BY <1>5, UartAssumption DEF WriteTxdata, IInv, TypeOK
      <3>2. Len(Append(tx_fifo, ntx + 1)) = Len(tx_fifo) + 1
        BY <3>1, Pushed
      <3> QED
        BY <1>0, <1>5, <3>2 DEF WriteTxdata
    <2>2. UNCHANGED <<main, ie, cnt, rx_fifo, async, rcvthr, txthr, trigger>> /\ kernel = "idle"
      BY <1>5 DEF WriteTxdata
    <2>3. Len(tx_fifo') \in Nat
      BY NextIInv, LenProperties DEF IInv, TypeOK
    <2>4. ASSUME NEW w \in ie, Reached(w)' PROVE Reached(w)
      BY <1>0, <2>1, <2>2, <2>3, <2>4 DEF Reached
    <2>5. signalled' = {w \in signalled : w \in ie' /\ Reached(w)'}
      BY <1>5 DEF WriteTxdata, Forget
    <2> QED
      BY <2>2, <2>4, <2>5 DEF NoLostInterrupt
  <1>6. ASSUME NEW x \in Watermarks, NEW v \in 0..MaxCnt, WriteCtrl(x, v) PROVE NoLostInterrupt'
    <2>1. CASE v < cnt[x]
      BY <1>1, <1>6, <2>1 DEF WriteCtrl, NotifiesOnWrite
    <2>2. CASE ~ (v < cnt[x])
      <3>1. /\ UNCHANGED <<main, ie, tx_fifo, rx_fifo, rcvthr, txthr, trigger, kernel>>
            /\ async => async'
            /\ signalled' = {w \in signalled : w \in ie' /\ Reached(w)'}
        BY <1>6 DEF WriteCtrl, Forget
      <3>2. CASE x = "tx"
        <4>1. "tx" \notin ie /\ cnt'["rx"] = cnt["rx"]
          BY <1>6, <3>2 DEF WriteCtrl, IInv, TypeOK, Watermarks
        <4>2. ASSUME NEW w \in ie, Reached(w)' PROVE Reached(w)
          BY <1>0, <3>1, <4>1, <4>2 DEF Reached, Watermarks
        <4> QED
          BY <3>1, <4>2 DEF NoLostInterrupt
      <3>3. CASE x = "rx"
        <4>1. cnt'["rx"] = v /\ cnt'["tx"] = cnt["tx"] /\ v \in Nat
          BY <1>6, <3>3, UartAssumption DEF WriteCtrl, IInv, TypeOK, Watermarks
        <4>2. ASSUME NEW w \in ie, Reached(w)' PROVE Reached(w)
          BY <1>0, <2>2, <3>1, <3>3, <4>1, <4>2 DEF Reached, Watermarks
        <4> QED
          BY <3>1, <4>2 DEF NoLostInterrupt
      <3> QED
        BY <3>2, <3>3 DEF Watermarks
    <2> QED
      BY <2>1, <2>2
  <1>7. CASE InterruptRx
    <2>1. UNCHANGED <<ie, cnt, rx_fifo>> /\ kernel' = "irq_tx"
      BY <1>7 DEF InterruptRx
    <2>2. "rx" \in ie' /\ Reached("rx")' => trigger'
      BY <1>7 DEF InterruptRx, Reached
    <2> QED
      BY <1>0, <2>1, <2>2 DEF NoLostInterrupt, Watermarks
  <1>8. CASE InterruptTx
    <2>1. /\ UNCHANGED <<main, ie, async, rcvthr, txthr>> /\ signalled \subseteq signalled'
          /\ \A w \in ie : Reached(w)' <=> Reached(w)
          /\ trigger \/ ("tx" \in ie /\ Reached("tx")) => \A w \in ie : Reached(w) => w \in signalled'
      BY <1>8 DEF InterruptTx, Reached
    <2>2. CASE trigger \/ ("tx" \in ie /\ Reached("tx"))
      BY <2>1, <2>2 DEF NoLostInterrupt
    <2>3. CASE ~ (trigger \/ ("tx" \in ie /\ Reached("tx")))
      BY <1>0, <2>1, <2>3 DEF NoLostInterrupt, Watermarks
    <2> QED
      BY <2>2, <2>3
  <1>9. CASE TxTake
    <2>1. CASE stop
      BY <1>2, <1>9, <2>1 DEF TxTake, IInv, Stopping
    <2>2. CASE ~ stop
      <3>1. UNCHANGED <<main, ie, cnt, rx_fifo, signalled, async, rcvthr, trigger>> /\ txthr' = "notify"
        BY <1>9, <2>2 DEF TxTake
      <3>2. Reached("rx")' <=> Reached("rx")
        BY <3>1 DEF Reached
      <3> QED
        BY <1>0, <3>1, <3>2 DEF NoLostInterrupt, Watermarks
    <2> QED
      BY <2>1, <2>2
  <1>10. CASE RxPush
    <2>1. /\ UNCHANGED <<main, ie, cnt, tx_fifo, signalled, async, txthr, trigger, kernel>>
          /\ rcvthr' = "notify"
      BY <1>10 DEF RxPush
    <2>2. Reached("tx")' <=> Reached("tx")
      BY <2>1 DEF Reached
    <2> QED
      BY <1>0, <2>1, <2>2 DEF NoLostInterrupt, Watermarks
  <1>11. CASE \/ ReadTxdata \/ ReadIpTx \/ ReadIpRx \/ PostTxfull \/ TxCheck \/ TxWait \/ TxWrite
              \/ RxCheck \/ PollStop \/ PollInput \/ RxWait
    <2>1. /\ UNCHANGED <<main, ie, cnt, tx_fifo, rx_fifo, signalled, async, trigger>>
          /\ rcvthr = "notify" => rcvthr' = "notify"
          /\ txthr = "notify" => txthr' = "notify"
          /\ kernel = "irq_tx" => kernel' = "irq_tx"
      BY <1>11 DEF ReadTxdata, ReadIpTx, ReadIpRx, PostTxfull, TxCheck, TxWait, TxWrite,
                  RxCheck, PollStop, PollInput, RxWait
    <2> QED
      BY <2>1 DEF NoLostInterrupt, Reached
  <1>12. (\E e \in SUBSET Watermarks : WriteIe(e)) \/ TxNotify \/ RxNotify => async' = TRUE
    BY DEF WriteIe, TxNotify, RxNotify
  <1>13. StopBegin \/ StopThreads => main' # "run"
    BY DEF StopBegin, StopThreads, StopPostTx, StopJoinTx, StopWritePipe, StopPostRx, StopJoinRx
  <1>14. UNCHANGED vars => UNCHANGED <<main, ie, cnt, tx_fifo, rx_fifo, signalled, async, rcvthr,
                                       txthr, trigger, kernel>>
    BY DEF vars
  <1> QED
    BY <1>1, <1>2, <1>3, <1>4, <1>5, <1>6, <1>7, <1>8, <1>9, <1>10, <1>11, <1>12, <1>13, <1>14
       DEF Next, Software, Kernel, Transmit, Receive

\* No watermark interrupt is lost between the threads and the interrupt method of
\* a device whose software sets the transmit watermark before it enables it.
THEOREM NoInterruptLost == CntBeforeIe => (Spec => []NoLostInterrupt)
  <1> SUFFICES ASSUME CntBeforeIe PROVE Spec => []NoLostInterrupt
    OBVIOUS
  <1>1. Init => NoLostInterrupt
    BY DEF Init, NoLostInterrupt
  <1>2. IInv /\ NoLostInterrupt /\ [Next]_vars => NoLostInterrupt'
    BY NextCovered
  <1> QED
    BY <1>1, <1>2, UartInvariance, PTL DEF Spec

-----------------------------------------------------------------------------
(* Both directions implement ByteChannel.                                  *)

\* The queue with a byte in front of it.
LEMMA Prefixed ==
  ASSUME NEW S, NEW b \in S, NEW s \in Seq(S)
  PROVE  /\ <<b>> \o s \in Seq(S) /\ <<b>> \o s # <<>>
         /\ Len(<<b>> \o s) = Len(s) + 1
         /\ Head(<<b>> \o s) = b /\ Tail(<<b>> \o s) = s
  <1> DEFINE q == <<b>> \o s
  <1>1. <<b>> \in Seq(S) /\ Len(<<b>>) = 1 /\ <<b>>[1] = b
    OBVIOUS
  <1>2. /\ q \in Seq(S) /\ Len(q) = 1 + Len(s)
        /\ \A i \in 1..(1 + Len(s)) : q[i] = IF i <= 1 THEN <<b>>[i] ELSE s[i - 1]
    BY <1>1, ConcatProperties
  <1>3. Len(s) \in Nat
    OBVIOUS
  <1> HIDE DEF q
  <1>4. q # <<>> /\ Len(q) = Len(s) + 1
    BY <1>2, <1>3, EmptySeq
  <1>5. Head(q) = b
    <2>1. Head(q) = q[1]
      BY <1>2, <1>4
    <2> QED
      BY <1>1, <1>2, <1>3, <2>1
  <1>6. Tail(q) = s
    <2>1. /\ Tail(q) \in Seq(S) /\ Len(Tail(q)) = Len(s)
          /\ \A i \in 1..Len(Tail(q)) : Tail(q)[i] = q[i + 1]
      BY <1>2, <1>3, <1>4, HeadTailProperties
    <2>2. ASSUME NEW i \in 1..Len(Tail(q)) PROVE Tail(q)[i] = s[i]
      <3>1. i + 1 \in 1..(1 + Len(s)) /\ ~ (i + 1 <= 1) /\ (i + 1) - 1 = i
        BY <1>3, <2>1
      <3> QED
        BY <1>2, <2>1, <3>1
    <2> QED
      BY <2>1, <2>2, SeqEqual
  <1> QED
    BY <1>2, <1>4, <1>5, <1>6 DEF q

\* A queue is its first byte followed by the rest.
LEMMA Rejoined ==
  ASSUME NEW S, NEW s \in Seq(S), s # <<>>
  PROVE  <<Head(s)>> \o Tail(s) = s
  <1> DEFINE q == <<Head(s)>> \o Tail(s)
  <1>1. /\ Head(s) \in S /\ Tail(s) \in Seq(S) /\ Len(Tail(s)) = Len(s) - 1
        /\ \A i \in 1..Len(Tail(s)) : Tail(s)[i] = s[i + 1]
    BY HeadTailProperties
  <1>2. Len(s) \in Nat \ {0} /\ Head(s) = s[1]
    BY EmptySeq
  <1>3. <<Head(s)>> \in Seq(S) /\ Len(<<Head(s)>>) = 1 /\ <<Head(s)>>[1] = Head(s)
    BY <1>1
  <1>4. /\ q \in Seq(S) /\ Len(q) = 1 + Len(Tail(s))
        /\ \A i \in 1..(1 + Len(Tail(s))) : q[i] = IF i <= 1 THEN <<Head(s)>>[i] ELSE Tail(s)[i - 1]
    BY <1>1, <1>3, ConcatProperties
  <1> HIDE DEF q
  <1>5. Len(q) = Len(s)
    BY <1>1, <1>2, <1>4
  <1>6. ASSUME NEW i \in 1..Len(q) PROVE q[i] = s[i]
    <2>1. CASE i = 1
      BY <1>1, <1>2, <1>3, <1>4, <1>5, <2>1
    <2>2. CASE i # 1
      <3>1. i \in 1..(1 + Len(Tail(s))) /\ ~ (i <= 1) /\ i - 1 \in 1..Len(Tail(s)) /\ (i - 1) + 1 = i
        BY <1>1, <1>2, <1>5, <2>2
      <3> QED
        BY <1>1, <1>4, <3>1
    <2> QED
      BY <2>1, <2>2
  <1>7. q = s
    BY <1>4, <1>5, <1>6, SeqEqual
  <1> QED
    BY <1>7 DEF q

\* What the abstract transmit channel holds, in terms of the thread.
LEMMA TxQueue ==
  ASSUME IInv
  PROVE  /\ txthr \notin {"notify", "write"} => InFlight \o tx_fifo = tx_fifo
         /\ InFlight \in Seq(0..MaxTx) /\ tx_fifo \in Seq(0..MaxTx)
         /\ Len(InFlight \o tx_fifo) \in Nat /\ Len(InFlight \o tx_fifo) <= Len(tx_fifo) + 1
         /\ txthr = "write" => /\ InFlight \o tx_fifo # <<>>
                               /\ Head(InFlight \o tx_fifo) = txbyte
                               /\ Tail(InFlight \o tx_fifo) = tx_fifo
  <1>1. tx_fifo \in Seq(1..MaxTx) /\ txbyte \in 0..MaxTx
    BY DEF IInv, TypeOK
  <1>2. tx_fifo \in Seq(0..MaxTx) /\ Len(tx_fifo) \in Nat
    <2>1. 1..MaxTx \subseteq 0..MaxTx
      BY UartAssumption
    <2> QED
      BY <1>1, <2>1, SeqMonotonic, LenProperties
  <1>3. CASE txthr \in {"notify", "write"}
    <2>1. InFlight = <<txbyte>>
      BY <1>3 DEF InFlight
    <2>2. InFlight \in Seq(0..MaxTx)
      BY <1>1, <2>1
    <2>3. /\ Len(<<txbyte>> \o tx_fifo) = Len(tx_fifo) + 1 /\ <<txbyte>> \o tx_fifo # <<>>
          /\ Head(<<txbyte>> \o tx_fifo) = txbyte /\ Tail(<<txbyte>> \o tx_fifo) = tx_fifo
      BY <1>1, <1>2, Prefixed
    <2> DEFINE q == <<txbyte>> \o tx_fifo
    <2>4. InFlight \o tx_fifo = q
      BY <2>1
    <2>5. Len(q) \in Nat /\ Len(q) <= Len(tx_fifo) + 1
      BY <1>2, <2>3
    <2>6. q # <<>> /\ Head(q) = txbyte /\ Tail(q) = tx_fifo
      BY <2>3
    <2> HIDE DEF q
    <2> QED
      BY <1>2, <1>3, <2>2, <2>4, <2>5, <2>6
  <1>4. CASE txthr \notin {"notify", "write"}
    <2>1. InFlight = <<>>
      BY <1>4 DEF InFlight
    <2>2. InFlight \o tx_fifo = tx_fifo
      BY <1>2, <2>1, ConcatEmptySeq
    <2>3. InFlight \in Seq(0..MaxTx)
      BY <2>1
    <2> QED
      BY <1>2, <1>4, <2>2, <2>3
  <1> QED
    BY <1>3, <1>4

\* Every step of the device is a step of the transmit channel or leaves it alone: a
\* byte enters when txdata accepts it and leaves when write_data has returned.
LEMMA TxStep == IInv /\ [Next]_vars => [Tx!Next]_Tx!vars
  <1> SUFFICES ASSUME IInv, [Next]_vars PROVE [Tx!Next]_Tx!vars
    OBVIOUS
  <1> DEFINE q == InFlight \o tx_fifo
  <1> USE DEF kernelVars, txVars, rxVars, stopVars
  <1>1. CASE UNCHANGED <<tx_fifo, txbyte, ntx, nout>> /\ InFlight' = InFlight
    BY <1>1 DEF Tx!vars
  <1>2. CASE WriteTxdata /\ Len(tx_fifo) < Depth
    <2>1. ntx + 1 \in 0..MaxTx
      BY <1>2, UartAssumption DEF WriteTxdata, IInv, TypeOK
    <2>2. tx_fifo' = Append(tx_fifo, ntx + 1) /\ ntx' = ntx + 1 /\ nout' = nout /\ InFlight' = InFlight
      BY <1>2 DEF WriteTxdata, InFlight
    <2>3. Append(q, ntx + 1) = InFlight \o Append(tx_fifo, ntx + 1)
      <3>1. <<ntx + 1>> \in Seq(0..MaxTx) /\ InFlight \in Seq(0..MaxTx) /\ tx_fifo \in Seq(0..MaxTx)
        BY <2>1, TxQueue
      <3>2. q \in Seq(0..MaxTx)
        BY <3>1, ConcatProperties
      <3>3. Append(q, ntx + 1) = q \o <<ntx + 1>>
        BY <2>1, <3>2, AppendIsConcat
      <3>4. Append(tx_fifo, ntx + 1) = tx_fifo \o <<ntx + 1>>
        BY <2>1, <3>1, AppendIsConcat
      <3>5. q \o <<ntx + 1>> = InFlight \o (tx_fifo \o <<ntx + 1>>)
        BY <3>1, ConcatAssociative
      <3> QED
        BY <3>3, <3>4, <3>5
    <2>4. Len(q) < Depth + 1
      <3>1. Len(q) \in Nat /\ Len(q) <= Len(tx_fifo) + 1
        BY TxQueue
      <3>2. Len(tx_fifo) \in Nat /\ Depth \in Nat
        BY UartAssumption DEF IInv, TypeOK
      <3> QED
        BY <1>2, <3>1, <3>2
    <2>5. q' = Append(q, ntx + 1)
      BY <2>2, <2>3
    <2>6. Tx!Enter
      BY <2>2, <2>4, <2>5 DEF Tx!Enter
    <2> QED
      BY <2>6 DEF Tx!Next
  <1>3. CASE WriteTxdata /\ ~ (Len(tx_fifo) < Depth)
    BY <1>1, <1>3 DEF WriteTxdata, InFlight
  <1>4. CASE TxTake /\ ~ stop
    <2>1. tx_fifo # <<>> /\ tx_fifo \in Seq(0..MaxTx)
      BY <1>4, TakeFindsByte, TxQueue DEF TxTake
    <2>2. /\ txthr = "take" /\ tx_fifo' = Tail(tx_fifo) /\ txbyte' = Head(tx_fifo)
          /\ txthr' = "notify" /\ UNCHANGED <<ntx, nout>>
      BY <1>4 DEF TxTake, Oldest
    <2>3. q = tx_fifo
      BY <2>2, TxQueue
    <2>4. q' = <<Head(tx_fifo)>> \o Tail(tx_fifo)
      BY <2>2 DEF InFlight
    <2>5. q' = q
      BY <2>1, <2>3, <2>4, Rejoined
    <2> QED
      BY <2>2, <2>5 DEF Tx!vars
  <1>5. CASE TxTake /\ stop
    BY <1>1, <1>5 DEF TxTake, InFlight
  <1>6. CASE TxWrite
    <2>1. txthr = "write" /\ nout' = txbyte /\ txthr' = "check" /\ UNCHANGED <<tx_fifo, ntx>>
      BY <1>6 DEF TxWrite
    <2>2. q # <<>> /\ Head(q) = txbyte /\ Tail(q) = tx_fifo
      BY <2>1, TxQueue
    <2>3. q' = tx_fifo'
      <3>1. IInv'
        BY NextIInv
      <3>2. tx_fifo' \in Seq(1..MaxTx) /\ InFlight' = <<>>
        BY <2>1, <3>1 DEF IInv, TypeOK, InFlight
      <3> QED
        BY <3>2, ConcatEmptySeq
    <2>4. Tx!Leave
      BY <2>1, <2>2, <2>3 DEF Tx!Leave
    <2> QED
      BY <2>4 DEF Tx!Next
  <1>7. CASE TxNotify
    BY <1>1, <1>7 DEF TxNotify, InFlight
  <1>8. CASE TxCheck \/ TxWait
    BY <1>1, <1>8 DEF TxCheck, TxWait, InFlight
  <1>9. CASE UNCHANGED <<tx_fifo, txbyte, txthr, ntx, nout>>
    BY <1>1, <1>9 DEF InFlight
  <1>10. Software => WriteTxdata \/ UNCHANGED <<tx_fifo, txbyte, txthr, ntx, nout>>
    BY DEF Software, ReadTxdata, ReadRxdata, ReadIpTx, WriteCtrl, WriteIe
  <1>11. Kernel \/ Receive => UNCHANGED <<tx_fifo, txbyte, txthr, ntx, nout>>
    BY DEF Kernel, ReadIpRx, PostTxfull, InterruptRx, InterruptTx,
           Receive, RxCheck, PollStop, PollInput, RxWait, RxPush, RxNotify
  <1>12. StopBegin \/ StopThreads \/ UNCHANGED vars => UNCHANGED <<tx_fifo, txbyte, txthr, ntx, nout>>
    BY DEF StopBegin, StopThreads, StopPostTx, StopJoinTx, StopWritePipe, StopPostRx, StopJoinRx, vars
  <1> QED
    BY <1>2, <1>3, <1>4, <1>5, <1>6, <1>7, <1>8, <1>9, <1>10, <1>11, <1>12 DEF Next, Transmit

\* From txdata to write_data no byte is lost, duplicated, made up or overtaken.
THEOREM TxRefines == Spec => TxIsChannel
  <1>1. Init => Tx!Init
    <2> SUFFICES ASSUME Init PROVE Tx!Init
      OBVIOUS
    <2>1. InFlight = <<>> /\ tx_fifo = <<>> /\ ntx = 0 /\ nout = 0
      BY DEF Init, InFlight
    <2>2. <<>> \in Seq(1..MaxTx)
      BY EmptySeq
    <2>3. InFlight \o tx_fifo = <<>>
      BY <2>1, <2>2, ConcatEmptySeq
    <2> QED
      BY <2>1, <2>3 DEF Tx!Init
  <1>2. IInv /\ [Next]_vars => [Tx!Next]_Tx!vars
    BY TxStep
  <1> QED
    BY <1>1, <1>2, UartInvariance, PTL DEF Spec, TxIsChannel, Tx!Spec

\* Every step of the device is a step of the receive channel or leaves it alone: a
\* byte enters with rxpush and leaves when the software reads rxdata.
LEMMA RxStep == IInv /\ [Next]_vars => [Rx!Next]_Rx!vars
  <1> SUFFICES ASSUME IInv, [Next]_vars PROVE [Rx!Next]_Rx!vars
    OBVIOUS
  <1> USE DEF kernelVars, txVars, rxVars, stopVars
  <1>1. CASE UNCHANGED <<rx_fifo, nrx, nread>>
    BY <1>1 DEF Rx!vars
  <1>2. CASE ReadRxdata
    <2>1. Rx!Leave
      BY <1>2 DEF ReadRxdata, Oldest, Rx!Leave
    <2> QED
      BY <2>1 DEF Rx!Next
  <1>3. CASE RxPush
    <2>1. Len(rx_fifo) < Depth + 1
      <3>1. Len(rx_fifo) \in Nat /\ rxempty \in Nat /\ Depth \in Nat
        BY UartAssumption DEF IInv, TypeOK
      <3>2. Len(rx_fifo) + rxempty + 1 <= Depth + 1
        BY <1>3, <3>1 DEF RxPush, IInv, RxCounted, Slots
      <3> QED
        BY <3>1, <3>2
    <2>2. Rx!Enter
      BY <1>3, <2>1 DEF RxPush, Rx!Enter
    <2> QED
      BY <2>2 DEF Rx!Next
  <1>4. Software => ReadRxdata \/ UNCHANGED <<rx_fifo, nrx, nread>>
    BY DEF Software, ReadTxdata, ReadIpTx, WriteTxdata, WriteCtrl, WriteIe
  <1>5. Kernel \/ Transmit => UNCHANGED <<rx_fifo, nrx, nread>>
    BY DEF Kernel, ReadIpRx, PostTxfull, InterruptRx, InterruptTx,
           Transmit, TxCheck, TxWait, TxTake, TxNotify, TxWrite
  <1>6. Receive => RxPush \/ UNCHANGED <<rx_fifo, nrx, nread>>
    BY DEF Receive, RxCheck, PollStop, PollInput, RxWait, RxNotify
  <1>7. StopBegin \/ StopThreads \/ UNCHANGED vars => UNCHANGED <<rx_fifo, nrx, nread>>
    BY DEF StopBegin, StopThreads, StopPostTx, StopJoinTx, StopWritePipe, StopPostRx, StopJoinRx, vars
  <1> QED
    BY <1>1, <1>2, <1>3, <1>4, <1>5, <1>6, <1>7 DEF Next

\* From rxpush to rxdata no byte is lost, duplicated, made up or overtaken, and no
\* more than Depth + 1 are ever held, also while the device is being stopped.
THEOREM RxRefines == Spec => RxIsChannel
  <1>1. Init => Rx!Init
    BY DEF Init, Rx!Init
  <1>2. IInv /\ [Next]_vars => [Rx!Next]_Rx!vars
    BY RxStep
  <1> QED
    BY <1>1, <1>2, UartInvariance, PTL DEF Spec, RxIsChannel, Rx!Spec

=============================================================================
