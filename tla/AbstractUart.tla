---------------------------- MODULE AbstractUart ----------------------------
(***************************************************************************)
(* AbstractUART (platform/common/abstract_uart.cpp), the base class of the *)
(* UART and SLIP devices of hifive-vp: two FIFOs between the SystemC       *)
(* thread and a transmit and a receive thread, two counting semaphores, an *)
(* asynchronous event that runs the interrupt method, and the shutdown     *)
(* protocol of stop_threads.                                               *)
(*                                                                         *)
(* A region under one mutex is one step.  Bytes are numbered in the order  *)
(* in which they enter each direction.                                     *)
(***************************************************************************)
EXTENDS Integers, Sequences, FiniteSets

CONSTANTS
    Depth,          \* UART_FIFO_DEPTH
    MaxTx, MaxRx,   \* bounds on the bytes sent and received
    Burst,          \* most rxpush calls of one handle_input: 1 for UART
    MaxCnt,         \* largest watermark software writes
    CntBeforeIe     \* txctrl is written only while its interrupt is disabled

ASSUME UartAssumption ==
    /\ Depth \in Nat \ {0} /\ MaxTx \in Nat /\ MaxRx \in Nat /\ Burst \in Nat \ {0}
    /\ MaxCnt \in Nat /\ CntBeforeIe \in BOOLEAN

Watermarks == {"tx", "rx"}

VARIABLES
    tx_fifo, rx_fifo,
    txfull, rxempty,      \* the semaphores
    cnt,                  \* watermark -> UART_CTRL_CNT of txctrl, rxctrl
    ie,                   \* enabled watermark interrupts
    async,                \* asyncEvent is requested
    kernel,               \* SystemC thread: idle, or inside a callback
    trigger,              \* local variable of interrupt()
    txthr, txbyte,        \* transmit thread and its local byte
    rcvthr, todo,         \* receive thread; rxpush calls left in handle_input
    stop, stop_pipe,
    main,                 \* progress of stop_threads
    ntx, nout,            \* bytes accepted by txdata, bytes written out
    nrx, nread,           \* bytes pushed by rxpush, bytes read from rxdata
    signalled,            \* watermarks reported to the PLIC since they were reached
    known                 \* what the software's last access told it, a read of txdata or ip

kernelVars == <<cnt, ie, kernel, trigger, signalled, known>>
txVars == <<tx_fifo, txfull, txthr, txbyte, ntx, nout>>
rxVars == <<rx_fifo, rxempty, rcvthr, todo, nrx, nread>>
stopVars == <<stop, stop_pipe, main>>
vars == <<tx_fifo, rx_fifo, txfull, rxempty, cnt, ie, async, kernel, trigger,
          txthr, txbyte, rcvthr, todo, stop, stop_pipe, main, ntx, nout, nrx,
          nread, signalled, known>>

\* tx_fifo.size() < UART_CTRL_CNT(txctrl), rx_fifo.size() > UART_CTRL_CNT(rxctrl)
Reached(w) == IF w = "tx" THEN Len(tx_fifo) < cnt["tx"]
                          ELSE Len(rx_fifo) > cnt["rx"]

\* A fact a register read may establish: a bit of ip, or "not full" in txdata.
Facts == Watermarks \cup {"space"}
Holds(f) == IF f = "space" THEN Len(tx_fifo) < Depth ELSE Reached(f)

\* An access of the software may make false what it knew and what it was told of.
Forget == /\ signalled' = {w \in signalled : w \in ie' /\ Reached(w)'}
          /\ known' = {}

-----------------------------------------------------------------------------
\* The constructor and start_threads.
Init ==
    /\ tx_fifo = <<>> /\ rx_fifo = <<>>
    /\ txfull = 0 /\ rxempty = Depth
    /\ cnt = [w \in Watermarks |-> 0] /\ ie = {}
    /\ async = FALSE /\ kernel = "idle" /\ trigger = FALSE
    /\ txthr = "check" /\ txbyte = 0
    /\ rcvthr = "check" /\ todo = 0
    /\ stop = FALSE /\ stop_pipe = FALSE /\ main = "run"
    /\ ntx = 0 /\ nout = 0 /\ nrx = 0 /\ nread = 0
    /\ signalled = {} /\ known = {}

-----------------------------------------------------------------------------
(* register_access_callback, in the SystemC thread. *)

Idle == main = "run" /\ kernel = "idle"

\* Mutant: the full flag is computed with > instead of >=.
HasSpaceOffByOne == Len(tx_fifo) <= Depth

\* tx_fifo.size() >= UART_FIFO_DEPTH decides between UART_FULL and 0.
HasSpace == Len(tx_fifo) < Depth

\* Read of txdata: the full flag.
ReadTxdata ==
    /\ Idle
    /\ known' = IF HasSpace THEN {"space"} ELSE {}
    /\ UNCHANGED <<txVars, rxVars, stopVars, async, cnt, ie, kernel, trigger,
                   signalled>>

\* Mutant: back() instead of front().
Newest(fifo) == fifo[Len(fifo)]

\* front() of a FIFO
Oldest(fifo) == Head(fifo)

\* Read of rxdata (it changes nothing when the FIFO is empty): the oldest byte, and a slot for the receive thread.
ReadRxdata ==
    /\ Idle
    /\ rx_fifo # <<>>
    /\ nread' = Oldest(rx_fifo)
    /\ rx_fifo' = Tail(rx_fifo)
    /\ rxempty' = rxempty + 1
    /\ UNCHANGED <<txVars, stopVars, async, cnt, ie, kernel, trigger, rcvthr,
                   todo, nrx>>
    /\ Forget

\* Read of ip: the transmit watermark under txmtx, then the other under rcvmtx.
ReadIpTx ==
    /\ Idle
    /\ known' = IF Reached("tx") THEN {"tx"} ELSE {}
    /\ kernel' = "ip_rx"
    /\ UNCHANGED <<txVars, rxVars, stopVars, async, cnt, ie, trigger, signalled>>

ReadIpRx ==
    /\ kernel = "ip_rx"
    /\ known' = IF Reached("rx") THEN known \cup {"rx"} ELSE known
    /\ kernel' = "idle"
    /\ UNCHANGED <<txVars, rxVars, stopVars, async, cnt, ie, trigger, signalled>>

\* Mutant: an ignored write posts txfull as well.
FullIsPosted == "txpost"

\* What the kernel does next when the FIFO is full: the write is ignored.
FullIsIgnored == "idle"

WriteTxdata ==
    /\ Idle
    /\ ntx < MaxTx
    /\ IF Len(tx_fifo) < Depth
       THEN /\ tx_fifo' = Append(tx_fifo, ntx + 1)
            /\ ntx' = ntx + 1
            /\ kernel' = "txpost"
       ELSE kernel' = FullIsIgnored /\ UNCHANGED <<tx_fifo, ntx>>
    /\ UNCHANGED <<rxVars, stopVars, async, cnt, ie, trigger, txfull, txthr,
                   txbyte, nout>>
    /\ Forget

\* Mutant: a binary semaphore, which merges two posts.
PostBinary(sem) == 1

\* sem_post: a counting semaphore
spost(sem) == sem + 1

PostTxfull ==
    /\ kernel = "txpost"
    /\ txfull' = spost(txfull)
    /\ kernel' = "idle"
    /\ UNCHANGED <<rxVars, stopVars, async, cnt, ie, trigger, signalled, known,
                   tx_fifo, txthr, txbyte, ntx, nout>>

\* Mutant: only a raised watermark is worth an event.
NotifiesWhenRaised(w, v) == v > cnt[w]

\* An event is requested when a watermark is lowered.
NotifiesOnWrite(w, v) == v < cnt[w]

WriteCtrl(w, v) ==
    /\ Idle
    /\ CntBeforeIe /\ w = "tx" => "tx" \notin ie
    /\ cnt' = [cnt EXCEPT ![w] = v]
    /\ async' = (async \/ NotifiesOnWrite(w, v))
    /\ UNCHANGED <<tx_fifo, rx_fifo, ie>>
    /\ Forget
    /\ UNCHANGED <<stopVars, kernel, trigger, txfull, txthr, txbyte, ntx, nout,
                   rxempty, rcvthr, todo, nrx, nread>>

WriteIe(e) ==
    /\ Idle
    /\ ie' = e
    /\ async' = TRUE
    /\ UNCHANGED <<tx_fifo, rx_fifo, cnt>>
    /\ Forget
    /\ UNCHANGED <<stopVars, kernel, trigger, txfull, txthr, txbyte, ntx, nout,
                   rxempty, rcvthr, todo, nrx, nread>>

-----------------------------------------------------------------------------
(* The interrupt method, run by the kernel after asyncEvent. *)

\* The kernel takes the request before it runs the method.
InterruptRx ==
    /\ Idle
    /\ async
    /\ async' = FALSE
    /\ trigger' = ("rx" \in ie /\ Reached("rx"))
    /\ kernel' = "irq_tx"
    /\ UNCHANGED <<txVars, rxVars, stopVars, cnt, ie, signalled, known>>

\* The end of the method: gateway_trigger_interrupt if either watermark held.
\* The handler of the interrupt will find every watermark that is reached now.
InterruptTx ==
    /\ kernel = "irq_tx"
    /\ signalled' = IF trigger \/ ("tx" \in ie /\ Reached("tx"))
                    THEN signalled \cup {w \in ie : Reached(w)}
                    ELSE signalled
    /\ trigger' = FALSE
    /\ kernel' = "idle"
    /\ UNCHANGED <<txVars, rxVars, stopVars, async, cnt, ie, known>>

Software ==
    \/ ReadTxdata \/ ReadRxdata \/ ReadIpTx \/ WriteTxdata
    \/ \E w \in Watermarks, v \in 0..MaxCnt : WriteCtrl(w, v)
    \/ \E e \in SUBSET Watermarks : WriteIe(e)

Kernel == ReadIpRx \/ PostTxfull \/ InterruptRx \/ InterruptTx

-----------------------------------------------------------------------------
(* transmit *)

TxCheck ==
    /\ txthr = "check"
    /\ txthr' = IF stop THEN "done" ELSE "wait"
    /\ UNCHANGED <<kernelVars, rxVars, stopVars, async, tx_fifo, txfull, txbyte,
                   ntx, nout>>

TxWait ==
    /\ txthr = "wait"
    /\ txfull > 0
    /\ txfull' = txfull - 1
    /\ txthr' = "take"
    /\ UNCHANGED <<kernelVars, rxVars, stopVars, async, tx_fifo, txbyte, ntx, nout>>

\* stop is looked at again after swait; then the oldest byte is taken.
TxTake ==
    /\ txthr = "take"
    /\ IF stop
       THEN txthr' = "done" /\ UNCHANGED <<tx_fifo, txbyte>>
       ELSE /\ txbyte' = Oldest(tx_fifo)
            /\ tx_fifo' = Tail(tx_fifo)
            /\ txthr' = "notify"
    /\ UNCHANGED <<kernelVars, rxVars, stopVars, async, txfull, ntx, nout>>

TxNotify ==
    /\ txthr = "notify"
    /\ async' = TRUE
    /\ txthr' = "write"
    /\ UNCHANGED <<kernelVars, rxVars, stopVars, tx_fifo, txfull, txbyte, ntx, nout>>

\* write_data of the device
TxWrite ==
    /\ txthr = "write"
    /\ nout' = txbyte
    /\ txthr' = "check"
    /\ UNCHANGED <<kernelVars, rxVars, stopVars, async, tx_fifo, txfull, txbyte, ntx>>

Transmit == TxCheck \/ TxWait \/ TxTake \/ TxNotify \/ TxWrite

-----------------------------------------------------------------------------
(* receive and rxpush *)

RxCheck ==
    /\ rcvthr = "check"
    /\ rcvthr' = IF stop THEN "done" ELSE "poll"
    /\ UNCHANGED <<kernelVars, txVars, stopVars, async, rx_fifo, rxempty, todo,
                   nrx, nread>>

\* stop_fd is checked first.
PollStop ==
    /\ rcvthr = "poll"
    /\ stop_pipe
    /\ rcvthr' = "check"
    /\ UNCHANGED <<kernelVars, txVars, stopVars, async, rx_fifo, rxempty, todo,
                   nrx, nread>>

\* handle_input of the device: at most Burst calls of rxpush, none for a
\* character of UART's command mode.
PollInput ==
    /\ rcvthr = "poll"
    /\ ~ stop_pipe
    /\ \E n \in 0..Burst :
          /\ nrx + n <= MaxRx
          /\ todo' = n
          /\ rcvthr' = IF n = 0 THEN "check" ELSE "push"
    /\ UNCHANGED <<kernelVars, txVars, stopVars, async, rx_fifo, rxempty, nrx, nread>>

\* swait(&rxempty)
SlotFree == rxempty > 0

RxWait ==
    /\ rcvthr = "push"
    /\ SlotFree
    /\ rxempty' = rxempty - 1
    /\ rcvthr' = "lock"
    /\ UNCHANGED <<kernelVars, txVars, stopVars, async, rx_fifo, todo, nrx, nread>>

RxPush ==
    /\ rcvthr = "lock"
    /\ rx_fifo' = Append(rx_fifo, nrx + 1)
    /\ nrx' = nrx + 1
    /\ rcvthr' = "notify"
    /\ UNCHANGED <<kernelVars, txVars, stopVars, async, rxempty, todo, nread>>

RxNotify ==
    /\ rcvthr = "notify"
    /\ async' = TRUE
    /\ todo' = todo - 1
    /\ rcvthr' = IF todo > 1 THEN "push" ELSE "check"
    /\ UNCHANGED <<kernelVars, txVars, stopVars, rx_fifo, rxempty, nrx, nread>>

Receive == RxCheck \/ PollStop \/ PollInput \/ RxWait \/ RxPush \/ RxNotify

-----------------------------------------------------------------------------
(* stop_threads, called by the destructor after the simulation ended. *)

\* The software has ended: what it knew and was told is of no more use.
StopBegin ==
    /\ Idle
    /\ stop' = TRUE
    /\ main' = "post_tx"
    /\ signalled' = {} /\ known' = {}
    /\ UNCHANGED <<cnt, ie, kernel, trigger, txVars, rxVars, async, stop_pipe>>

StopPostTx ==
    /\ main = "post_tx"
    /\ txfull' = spost(txfull)
    /\ main' = "join_tx"
    /\ UNCHANGED <<kernelVars, rxVars, async, stop, stop_pipe, tx_fifo, txthr,
                   txbyte, ntx, nout>>

StopJoinTx ==
    /\ main = "join_tx"
    /\ txthr = "done"
    /\ main' = "pipe"
    /\ UNCHANGED <<kernelVars, txVars, rxVars, async, stop, stop_pipe>>

StopWritePipe ==
    /\ main = "pipe"
    /\ stop_pipe' = TRUE
    /\ main' = "post_rx"
    /\ UNCHANGED <<kernelVars, txVars, rxVars, async, stop>>

\* Mutant: the receive thread is not woken up from rxempty.
NoPost == rxempty

\* spost(&rxempty)
PostForStop == rxempty + 1

StopPostRx ==
    /\ main = "post_rx"
    /\ rxempty' = PostForStop
    /\ main' = "join_rx"
    /\ UNCHANGED <<kernelVars, txVars, async, stop, stop_pipe, rx_fifo, rcvthr,
                   todo, nrx, nread>>

StopJoinRx ==
    /\ main = "join_rx"
    /\ rcvthr = "done"
    /\ main' = "joined"
    /\ UNCHANGED <<kernelVars, txVars, rxVars, async, stop, stop_pipe>>

StopThreads ==
    StopPostTx \/ StopJoinTx \/ StopWritePipe \/ StopPostRx \/ StopJoinRx

Next == Software \/ Kernel \/ Transmit \/ Receive \/ StopBegin \/ StopThreads

\* The operating system schedules every thread that can run; the kernel finishes
\* a callback and runs the method of a requested event.
Spec ==
    /\ Init /\ [][Next]_vars
    /\ WF_vars(Kernel) /\ WF_vars(Transmit) /\ WF_vars(Receive)
    /\ WF_vars(StopThreads)

-----------------------------------------------------------------------------
(* Properties. *)

\* Types; the FIFOs hold at most Depth bytes, one more on the receive side once
\* stop_threads has posted rxempty.
TypeOK ==
    /\ tx_fifo \in Seq(1..MaxTx) /\ rx_fifo \in Seq(1..MaxRx)
    /\ txfull \in Nat /\ rxempty \in Nat
    /\ cnt \in [Watermarks -> 0..MaxCnt] /\ ie \subseteq Watermarks
    /\ async \in BOOLEAN /\ trigger \in BOOLEAN
    /\ kernel \in {"idle", "txpost", "ip_rx", "irq_tx"}
    /\ txthr \in {"check", "wait", "take", "notify", "write", "done"}
    /\ rcvthr \in {"check", "poll", "push", "lock", "notify", "done"}
    /\ txbyte \in 0..MaxTx /\ todo \in 0..Burst
    /\ stop \in BOOLEAN /\ stop_pipe \in BOOLEAN
    /\ main \in {"run", "post_tx", "join_tx", "pipe", "post_rx", "join_rx", "joined"}
    /\ {ntx, nout} \subseteq 0..MaxTx /\ {nrx, nread} \subseteq 0..MaxRx
    /\ signalled \subseteq Watermarks /\ known \subseteq Facts

\* The semaphores count what the FIFOs hold, less what a thread has claimed or is
\* about to post, although they change outside the mutexes: so front() is never called
\* on an empty queue, no byte is left behind, and the receive FIFO keeps to Depth.
SemaphoresMatchFifos ==
    ~ stop =>
        /\ Len(tx_fifo) = txfull + (IF kernel = "txpost" THEN 1 ELSE 0) + (IF txthr = "take" THEN 1 ELSE 0)
        /\ rxempty >= 0 /\ Len(rx_fifo) + rxempty + (IF rcvthr = "lock" THEN 1 ELSE 0) = Depth

\* What the software read in ip or txdata stays true until its own next access:
\* the other threads never invalidate it, so a "not full" is not stale when the
\* byte is written and a receive watermark is not stale when it is read.
KnowledgeIsStable == \A f \in known : Holds(f)

\* No watermark interrupt is lost between the threads and the interrupt method:
\* an enabled watermark that is reached was reported, or an event is requested,
\* or the thread that reached it is about to request one.
NoLostInterrupt ==
    main = "run" => \A w \in ie :
        Reached(w) => \/ w \in signalled
                      \/ async
                      \/ w = "rx" /\ (rcvthr = "notify" \/ trigger)
                      \/ w = "tx" /\ (txthr = "notify" \/ kernel = "irq_tx")

\* stop_threads unblocks and joins both threads, whatever they are doing.
StopCompletes == stop ~> (main = "joined")

\* Once the software pauses, everything that txdata accepted is written out,
\* unless the device is stopped.
AcceptedIsSent == []<>(nout = ntx \/ stop)

=============================================================================
