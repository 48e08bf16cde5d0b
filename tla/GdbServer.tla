----------------------------- MODULE GdbServer -----------------------------
(***************************************************************************)
(* The GDB stub (core/common/gdb-mc) with the one hart that the platforms  *)
(* give it: the host thread that reads packets from a connection, the      *)
(* SystemC process that serves them, the runner of the hart, and the       *)
(* debugger at the other end.                                              *)
(*                                                                         *)
(* The host thread locks the mutex for every packet and the SystemC        *)
(* process unlocks it once the packet is served; the asynchronous event    *)
(* wakes this process in the next update phase of the simulation kernel.   *)
(* SystemC processes do not preempt each other, but the host thread and    *)
(* the debugger run beside them: a process does one step up to its next    *)
(* wait, write to the socket or unlock.                                    *)
(***************************************************************************)
EXTENDS Integers, Sequences

CONSTANTS VConts,       \* the vCont packets of the debugger: sequences of actions
          Tids,         \* thread ids that packets carry
          MaxInput,     \* bound: packets in the stream
          MaxSessions   \* bound: connections

ASSUME ConstantsAssumption ==
  /\ MaxInput \in Nat /\ MaxSessions \in Nat /\ Tids \subseteq Int
  /\ \A v \in VConts : Len(v) > 0

VARIABLES
  session,      \* the number of the connection, 0 before the first
  conn,         \* "none", "open", "hungup" by the debugger
  input,        \* packets in the stream
  host,         \* serve() is at "accept", "lock", "parse", "close"
  mtx,          \* the mutex is locked
  pktq,         \* packets, each with the connection it came from
  event,        \* asyncEvent is notified
  missed,       \* a notification came before run() could wait for it
  server,       \* run() has still to "start" or is at "wait", "packet", "vCont", "allharts",
                \* "release", "loop"; "stuck" is allharts for a hart that has ended
  prevpkt,      \* the connection to which the last answer went, 0 if there is none
  thread_ops,   \* thread_ops['g']
  actions,      \* vCont: the actions left
  matched,      \* vCont: the hart is in matched
  single_run,
  runner,       \* GDBServerRunner: "waiting" for run_event, "running", "syncing", "ended"
  status,       \* of the hart: "Runnable", "HitBreakpoint", "Terminated"
  breakpoint,   \* a breakpoint is set where the software passes
  exited        \* the process has ended: "no", by "kill", an "exception", a "SIGPIPE"

stream == <<session, conn, input>>
vcont == <<actions, matched, single_run>>
hart == <<runner, status>>
vars == <<stream, host, mtx, pktq, event, missed, server, prevpkt, thread_ops, vcont, hart, breakpoint, exited>>

-----------------------------------------------------------------------------
(* The debugger *)

\* The packets by what the stub does with them: acknowledgments, packets that do
\* not parse, commands that are answered without further effect (?, T, q..., vCont?,
\* other breakpoints and the ones without a handler), g, m and M of the current
\* thread, p of the current thread, software breakpoints where the software passes,
\* a change of the current thread, kill and vCont.
Packet == [kind : {"ACK", "NACK", "BAD", "OTHER", "g", "p", "Z", "z", "k"}]
          \cup [kind : {"H"}, tid : Tids]
          \cup [kind : {"vCont"}, actions : VConts]

Send(p) ==
  /\ conn = "open" /\ Len(input) < MaxInput /\ exited = "no"
  /\ input' = Append(input, p)
  /\ UNCHANGED <<session, conn, host, mtx, pktq, event, missed, server, prevpkt, thread_ops, vcont, hart,
                 breakpoint, exited>>

HangUp ==
  /\ conn = "open" /\ exited = "no"
  /\ conn' = "hungup"
  /\ UNCHANGED <<session, input, host, mtx, pktq, event, missed, server, prevpkt, thread_ops, vcont, hart,
                 breakpoint, exited>>

-----------------------------------------------------------------------------
(* serve() and dispatch() in the host thread *)

Accept ==
  /\ host = "accept" /\ session < MaxSessions /\ exited = "no"
  /\ session' = session + 1 /\ conn' = "open" /\ input' = <<>>
  /\ host' = "lock"
  /\ UNCHANGED <<mtx, pktq, event, missed, server, prevpkt, thread_ops, vcont, hart, breakpoint, exited>>

Lock ==
  /\ host = "lock" /\ ~mtx /\ exited = "no"
  /\ mtx' = TRUE
  /\ host' = "parse"
  /\ UNCHANGED <<stream, pktq, event, missed, server, prevpkt, thread_ops, vcont, hart, breakpoint, exited>>

\* gdb_parse_pkt has a packet: it is queued, and the mutex stays locked.
Parse ==
  /\ host = "parse" /\ input # <<>> /\ exited = "no"
  /\ pktq' = Append(pktq, [session |-> session, packet |-> Head(input)])
  /\ input' = Tail(input)
  /\ event' = TRUE
  /\ host' = "lock"
  /\ UNCHANGED <<session, conn, mtx, missed, server, prevpkt, thread_ops, vcont, hart, breakpoint, exited>>

\* gdb_parse_pkt has none: the stream has ended.
EndOfStream ==
  /\ host = "parse" /\ input = <<>> /\ conn = "hungup" /\ exited = "no"
  /\ mtx' = FALSE
  /\ host' = "close"
  /\ UNCHANGED <<stream, pktq, event, missed, server, prevpkt, thread_ops, vcont, hart, breakpoint, exited>>

\* fclose in dispatch(), then close and free in serve().
Close ==
  /\ host = "close" /\ exited = "no"
  /\ conn' = "none"
  /\ prevpkt' = 0
  /\ host' = "accept"
  /\ UNCHANGED <<session, input, mtx, pktq, event, missed, server, thread_ops, vcont, hart, breakpoint, exited>>

-----------------------------------------------------------------------------
(* run() in the SystemC process *)

\* sc_start: the initialization phase of the kernel updates the channels and delivers
\* their events before a process has run, so the event of a packet that the host
\* thread, which the constructor starts, has read by then reaches nobody.
Start ==
  /\ server = "start" /\ exited = "no"
  /\ missed' = event
  /\ event' = FALSE
  /\ server' = "loop"
  /\ UNCHANGED <<stream, host, mtx, pktq, prevpkt, thread_ops, vcont, hart, breakpoint, exited>>

\* The update phase delivers the event: to run() if it waits for it, to nobody
\* otherwise.  There is no update phase while a process can go on.
Deliver ==
  /\ event /\ server \in {"wait", "allharts"} /\ exited = "no"
  /\ event' = FALSE
  /\ server' = IF server = "wait" THEN "packet" ELSE server
  /\ UNCHANGED <<stream, host, mtx, pktq, missed, prevpkt, thread_ops, vcont, hart, breakpoint, exited>>

Front == Head(pktq).packet
Serving(kinds) == server = "packet" /\ Front.kind \in kinds /\ exited = "no"

\* A write to a connection that the debugger has closed lands in the buffers of the
\* host, fails, or ends the process, which leaves SIGPIPE at its default.
Pipe == IF conn = "open" THEN {} ELSE {"SIGPIPE"}
Write == exited' \in {"no"} \cup Pipe

\* send_packet of an answer, which is kept for retransmission if it is written; a
\* write that fails is only warned of.
Answer == \/ Write /\ prevpkt' = Head(pktq).session
          \/ conn # "open" /\ UNCHANGED <<prevpkt, exited>>

\* An acknowledgment, a retransmission, or a packet that is refused with "-".
ServeQuiet ==
  /\ Serving({"ACK", "NACK", "BAD"})
  /\ \/ Front.kind = "ACK" /\ UNCHANGED exited
     \/ Front.kind = "NACK" /\ IF prevpkt = 0 THEN UNCHANGED exited ELSE Write
     \/ Front.kind = "BAD" /\ Write
  /\ server' = "release"
  /\ UNCHANGED <<stream, host, mtx, pktq, event, missed, prevpkt, thread_ops, vcont, hart, breakpoint>>

\* harts.at of a thread id; get_threads accepts -1 (all), 0 (any) and 1.
OutOfRange(tid) == tid \notin {-1, 0, 1}

\* The handlers that end at once: those that only tell something; memory and
\* registers, of the threads that thread_ops names; a register, whose handler
\* answers E01 if there is no such thread; and those that change the stub.
ServeQuery == Serving({"OTHER"}) /\ UNCHANGED <<thread_ops, breakpoint>>
readMemory == Serving({"g"}) /\ ~OutOfRange(thread_ops) /\ UNCHANGED <<thread_ops, breakpoint>>
readRegister == Serving({"p"}) /\ UNCHANGED <<thread_ops, breakpoint>>
setThread == Serving({"H"}) /\ thread_ops' = Front.tid /\ UNCHANGED breakpoint
setBreakpoint == Serving({"Z"}) /\ breakpoint' = TRUE /\ UNCHANGED thread_ops
removeBreakpoint == Serving({"z"}) /\ breakpoint' = FALSE /\ UNCHANGED thread_ops

ServeCommand ==
  /\ ServeQuery \/ readMemory \/ readRegister \/ setThread \/ setBreakpoint \/ removeBreakpoint
  /\ Answer
  /\ server' = "release"
  /\ UNCHANGED <<stream, host, mtx, pktq, event, missed, vcont, hart>>

\* g, m and M let std::out_of_range pass, which ends the process unless the
\* acknowledgment before it did.
ThrowOutOfRange ==
  /\ Serving({"g"}) /\ OutOfRange(thread_ops)
  /\ exited' \in {"exception"} \cup Pipe
  /\ UNCHANGED <<stream, host, mtx, pktq, event, missed, server, prevpkt, thread_ops, vcont, hart, breakpoint>>

killServer ==
  /\ Serving({"k"})
  /\ exited' \in {"kill"} \cup Pipe
  /\ UNCHANGED <<stream, host, mtx, pktq, event, missed, server, prevpkt, thread_ops, vcont, hart, breakpoint>>

\* Mutant: the mutex is unlocked before the packet is popped.
ReleaseUnpopped ==
  /\ server = "release" /\ exited = "no"
  /\ \/ mtx /\ mtx' = FALSE /\ UNCHANGED <<pktq, server>>
     \/ ~mtx /\ pktq' = Tail(pktq) /\ server' = "loop" /\ UNCHANGED mtx
  /\ UNCHANGED <<stream, host, event, missed, prevpkt, thread_ops, vcont, hart, breakpoint, exited>>

\* The end of the loop: pop, unlock.
Release ==
  /\ server = "release" /\ exited = "no"
  /\ pktq' = Tail(pktq)
  /\ mtx' = FALSE
  /\ server' = "loop"
  /\ UNCHANGED <<stream, host, event, missed, prevpkt, thread_ops, vcont, hart, breakpoint, exited>>

Wait ==
  /\ server = "loop" /\ exited = "no"
  /\ server' = "wait"
  /\ UNCHANGED <<stream, host, mtx, pktq, event, missed, prevpkt, thread_ops, vcont, hart, breakpoint, exited>>

-----------------------------------------------------------------------------
(* vCont and run_threads *)

\* The acknowledgment, and the handler up to its first action.
ServeVCont ==
  /\ Serving({"vCont"})
  /\ actions' = Front.actions
  /\ matched' = FALSE
  /\ server' = "vCont"
  /\ Write
  /\ UNCHANGED <<stream, host, mtx, pktq, event, missed, prevpkt, thread_ops, single_run, hart, breakpoint>>

AtAction(kinds) == server = "vCont" /\ Head(actions).action \in kinds /\ exited = "no"

\* throw std::invalid_argument("Unimplemented vCont action")
ThrowUnimplemented ==
  /\ server = "vCont" /\ Head(actions).action \notin {"c", "s"} /\ exited = "no"
  /\ exited' = "exception"
  /\ UNCHANGED <<stream, host, mtx, pktq, event, missed, server, prevpkt, thread_ops, vcont, hart, breakpoint>>

\* An unknown thread is answered with E01, whatever the earlier actions did.
RefuseAction ==
  /\ AtAction({"c", "s"}) /\ OutOfRange(Head(actions).tid)
  /\ Answer
  /\ server' = "release"
  /\ UNCHANGED <<stream, host, mtx, pktq, event, missed, thread_ops, vcont, hart, breakpoint>>

\* After an action: the next one, or the answer that names the stopped hart, which
\* becomes the current thread.
NextAction ==
  /\ actions' = Tail(actions)
  /\ matched' = (matched \/ Head(actions).tid > 0)
  /\ IF Tail(actions) # <<>>
     THEN server' = "vCont" /\ UNCHANGED <<prevpkt, thread_ops, exited>>
     ELSE server' = "release" /\ thread_ops' = 1 /\ Answer

\* An action whose hart has matched an earlier one runs nothing.
SkipAction ==
  /\ AtAction({"c", "s"}) /\ ~OutOfRange(Head(actions).tid) /\ matched
  /\ NextAction
  /\ UNCHANGED <<stream, host, mtx, pktq, event, missed, single_run, hart, breakpoint>>

\* run_threads up to wait(allharts); a runner that has ended misses the run event and
\* will not notify its stop event.
Resume ==
  /\ AtAction({"c", "s"}) /\ ~OutOfRange(Head(actions).tid) /\ ~matched
  /\ single_run' = (Head(actions).action = "s")
  /\ runner' = IF runner = "waiting" THEN "running" ELSE runner
  /\ server' = IF runner = "ended" THEN "stuck" ELSE "allharts"
  /\ UNCHANGED <<stream, host, mtx, pktq, event, missed, prevpkt, thread_ops, actions, matched, status,
                 breakpoint, exited>>

-----------------------------------------------------------------------------
(* GDBServerRunner::run *)

\* hart->run() or run_step() ends: at a breakpoint, an ebreak or after the single
\* step, or because of shall_exit.  It still has to synchronize.
EndOfRun(s) ==
  /\ runner = "running" /\ exited = "no"
  /\ status' = s
  /\ runner' = "syncing"
  /\ UNCHANGED <<stream, host, mtx, pktq, event, missed, server, prevpkt, thread_ops, vcont, breakpoint, exited>>

\* Mutant: the stop event is notified before the hart has synchronized and waits.
NotifyStopUnsynced ==
  /\ runner \in {"running", "syncing"} /\ exited = "no"
  /\ IF runner = "syncing"
     THEN /\ runner' = IF status = "Terminated" THEN "ended" ELSE "waiting"
          /\ UNCHANGED <<server, actions, matched, status, prevpkt, thread_ops, exited>>
     ELSE /\ server = "allharts"
          /\ NextAction
          /\ UNCHANGED <<runner, status>>
  /\ UNCHANGED <<stream, host, mtx, pktq, event, missed, single_run, breakpoint>>

\* Mutant: a runner that ends does not notify its stop event.
NotifyStopUnlessEnded ==
  /\ runner = "syncing" /\ exited = "no"
  /\ runner' = IF status = "Terminated" THEN "ended" ELSE "waiting"
  /\ IF server = "allharts" /\ status # "Terminated"
     THEN NextAction /\ status' = "Runnable"
     ELSE UNCHANGED <<server, actions, matched, status, prevpkt, thread_ops, exited>>
  /\ UNCHANGED <<stream, host, mtx, pktq, event, missed, single_run, breakpoint>>

\* stop_event->notify() wakes run() in wait(allharts).  The only hart is not Runnable,
\* so the loop that stops the others has nothing to do, and vCont makes a hart that
\* hit a breakpoint runnable again.
NotifyStop ==
  /\ runner = "syncing" /\ server = "allharts" /\ exited = "no"
  /\ runner' = IF status = "Terminated" THEN "ended" ELSE "waiting"
  /\ status' = IF status = "Terminated" THEN "Terminated" ELSE "Runnable"
  /\ NextAction
  /\ UNCHANGED <<stream, host, mtx, pktq, event, missed, single_run, breakpoint>>

-----------------------------------------------------------------------------
Init ==
  /\ session = 0 /\ conn = "none" /\ input = <<>>
  /\ host = "accept" /\ mtx = FALSE /\ pktq = <<>> /\ event = FALSE
  /\ server = "start" /\ missed = FALSE /\ prevpkt = 0 /\ thread_ops = 0
  /\ actions = <<>> /\ matched = FALSE /\ single_run = FALSE
  /\ runner = "waiting" /\ status = "Runnable" /\ breakpoint = FALSE
  /\ exited = "no"

HostStep == Lock \/ Parse \/ EndOfStream \/ Close
ServerStep == \/ Start \/ Deliver \/ ServeQuiet \/ ServeCommand \/ ThrowOutOfRange \/ killServer \/ Release \/ Wait
              \/ ServeVCont \/ ThrowUnimplemented \/ RefuseAction \/ SkipAction \/ Resume
Stops == EndOfRun("HitBreakpoint") \/ EndOfRun("Terminated")

Next == \/ \E p \in Packet : Send(p)
        \/ HangUp
        \/ Accept
        \/ HostStep
        \/ ServerStep
        \/ Stops
        \/ NotifyStop

\* The host schedules the thread and the kernel its processes.  Nothing makes a
\* debugger act, and the software of a continued hart stops only if it passes a
\* breakpoint; a step always ends.
Spec == /\ Init /\ [][Next]_vars
        /\ WF_vars(HostStep) /\ WF_vars(ServerStep) /\ WF_vars(NotifyStop)
        /\ WF_vars((single_run \/ breakpoint) /\ Stops)

-----------------------------------------------------------------------------
\* The hand-over of packets (mtx in dispatch() and run()): a packet in the queue is
\* the only one, the mutex is locked for it and the host thread waits for that
\* mutex.  So pktq and prevpkt, which have no lock of their own, have one user at a
\* time, an answer never goes to a descriptor that was closed or reused, and "-" is
\* never answered with what an earlier debugger was told.
PacketIsOwned ==
  /\ pktq # <<>> => /\ Len(pktq) = 1
                    /\ Head(pktq).session = session /\ conn # "none"
                    /\ mtx /\ host = "lock"
  /\ server \in {"packet", "vCont", "allharts", "stuck", "release"} => pktq # <<>>
  /\ host # "close" => prevpkt \in {0, session}

\* All-stop mode (vCont, run_threads): while the stub serves anything but the wait
\* for a resumed hart, the hart executes nothing and its runner waits for the run
\* event or has ended; registers are read from a stopped hart, and no run event of
\* a hart that has not ended is missed.
AllStop ==
  /\ server # "allharts" => runner \in {"waiting", "ended"}
  /\ runner = "waiting" => status = "Runnable" /\ server # "allharts"

\* A packet that was read is served and leaves the queue: its event finds run() at
\* its wait, and the wait for the hart ends when the hart has stopped.  The
\* exceptions: a packet that came before the simulation began, whose event nobody
\* waited for (the constructor starts the host thread, SC_THREAD(run) waits later),
\* so that it stays in the queue and the mutex locked; the resumption of a hart that
\* has ended, whose stop event never comes; and a hart whose software runs on.
PacketIsServed ==
  pktq # <<>> ~> \/ pktq = <<>> \/ exited # "no"
                 \/ missed \/ server = "stuck"
                 \/ runner = "running" /\ ~single_run /\ ~breakpoint
=============================================================================
